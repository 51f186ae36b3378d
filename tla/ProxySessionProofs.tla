-------------------------- MODULE ProxySessionProofs --------------------------
(***************************************************************************)
(* A gateway session, for any number of shadows, frames and answers and    *)
(* any queue: what the lanes were given and what is left of them, and that *)
(* the session implements Relay.                                           *)
(***************************************************************************)
EXTENDS ProxySession, SequenceTheorems, TLAPS

LEMMA Bounds == /\ MaxFrames \in Nat /\ MaxAnswers \in Nat
                /\ Window \in Nat /\ QueueCap \in Nat /\ QueueCap >= 1
  BY SessionBounds

-----------------------------------------------------------------------------
(* One lane. *)

LEMMA NoLaneIs == NoLane \in Lane /\ Over(NoLane) /\ ~Live(NoLane) /\ Handled(NoLane) = 0
  BY Bounds DEF NoLane, EmptyLane, Lane, Over, Live, Handled

LEMMA PendingLaneIs ==
  PendingLane \in Lane /\ Over(PendingLane) /\ ~Live(PendingLane) /\ Handled(PendingLane) = 0
  BY Bounds DEF PendingLane, EmptyLane, Lane, Over, Live, Handled

LEMMA NewLaneIs ==
  /\ NewLane \in Lane /\ Handled(NewLane) = 0
  /\ ~NewLane.marker /\ NewLane.writer = "get"
  BY Bounds DEF NewLane, EmptyLane, Lane, Handled

LEMMA LaneFields ==
  ASSUME NEW l \in Lane
  PROVE  /\ l.queue \in Nat /\ l.queue <= QueueCap /\ l.marker \in BOOLEAN
         /\ l.mirrored \in Nat /\ l.mirrored <= MaxFrames
         /\ l.dropped \in Nat /\ l.dropped <= MaxFrames
  BY Bounds DEF Lane

LEMMA HandledIs ==
  ASSUME NEW l \in Lane
  PROVE  /\ Handled(l) \in Nat
         /\ l.writer = "write" => Handled(l) = l.mirrored + l.dropped + l.queue + 1
         /\ l.writer # "write" => Handled(l) = l.mirrored + l.dropped + l.queue
<1>1. CASE l.writer = "write"
  BY <1>1, LaneFields DEF Handled
<1>2. CASE l.writer # "write"
  BY <1>2, LaneFields DEF Handled
<1> QED BY <1>1, <1>2

\* Lanes with the same counts have handled the same, and so on.
LEMMA Moved ==
  ASSUME NEW l \in Lane, NEW n \in Lane, n.writer = l.writer
  PROVE  Handled(n) - Handled(l) = (n.mirrored - l.mirrored) + (n.dropped - l.dropped)
                                   + (n.queue - l.queue)
<1>1. Handled(l) = l.mirrored + l.dropped + l.queue + (IF l.writer = "write" THEN 1 ELSE 0)
  BY DEF Handled
<1>2. Handled(n) = n.mirrored + n.dropped + n.queue + (IF l.writer = "write" THEN 1 ELSE 0)
  BY DEF Handled
<1> QED BY <1>1, <1>2, LaneFields

\* An offer adds one frame at most, and exactly one to a lane that was opened.
LEMMA OfferIs ==
  ASSUME NEW l \in Lane, Handled(l) < MaxFrames
  PROVE  /\ Offer(l) \in Lane
         /\ Handled(Offer(l)) <= Handled(l) + 1
         /\ l.call # "none" => Handled(Offer(l)) = Handled(l) + 1
         /\ Offer(l).marker = l.marker /\ Offer(l).writer = l.writer
         /\ Live(Offer(l)) <=> Live(l)
         /\ Over(Offer(l)) <=> Over(l)
<1> DEFINE q == [l EXCEPT !.queue = @ + 1]
           d == [l EXCEPT !.dropped = @ + 1]
<1>0. Handled(l) \in Nat /\ l.dropped < MaxFrames
  BY LaneFields, HandledIs, Bounds
<1>1. CASE Offer(l) = l
  BY <1>0, <1>1, Bounds DEF Offer, Lane
<1>2. CASE Offer(l) = q /\ l.queue < QueueCap
  <2>1. q \in Lane /\ q.queue = l.queue + 1 /\ q.dropped = l.dropped /\ q.mirrored = l.mirrored
    BY <1>2, Bounds DEF Lane
  <2>2. q.marker = l.marker /\ q.writer = l.writer /\ q.drainer = l.drainer /\ q.call = l.call
    BY DEF Lane
  <2>3. Handled(q) = Handled(l) + 1
    <3> HIDE DEF q
    <3>1. Handled(q) \in Nat /\ Handled(q) - Handled(l) = 0 + 0 + 1
      BY <2>1, <2>2, Moved, HandledIs, LaneFields
    <3> QED BY <1>0, <3>1
  <2> QED BY <1>0, <1>2, <2>1, <2>2, <2>3 DEF Live, Over
<1>3. CASE Offer(l) = d
  <2>1. d \in Lane /\ d.queue = l.queue /\ d.dropped = l.dropped + 1 /\ d.mirrored = l.mirrored
    BY <1>0, Bounds DEF Lane
  <2>2. d.marker = l.marker /\ d.writer = l.writer /\ d.drainer = l.drainer /\ d.call = l.call
    BY DEF Lane
  <2>3. Handled(d) = Handled(l) + 1
    <3> HIDE DEF d
    <3>1. Handled(d) - Handled(l) = (d.mirrored - l.mirrored) + (d.dropped - l.dropped)
                                    + (d.queue - l.queue)
      BY <2>1, <2>2, Moved
    <3>2. Handled(d) \in Nat /\ l.mirrored \in Nat /\ l.dropped \in Nat /\ l.queue \in Nat
      BY <2>1, HandledIs, LaneFields
    <3> QED BY <1>0, <2>1, <3>1, <3>2
  <2> QED BY <1>0, <1>3, <2>1, <2>2, <2>3 DEF Live, Over
<1> QED BY <1>1, <1>2, <1>3 DEF Offer

LEMMA CancelIs ==
  ASSUME NEW l \in Lane
  PROVE  /\ CancelLane(l) \in Lane /\ Over(CancelLane(l)) /\ ~Live(CancelLane(l))
         /\ Handled(CancelLane(l)) <= Handled(l)
<1> DEFINE c == CancelLane(l)
<1>1. /\ c.queue = l.queue /\ c.marker = l.marker /\ c.mirrored = l.mirrored /\ c.dropped = l.dropped
      /\ c.writer = (IF l.writer \in {"get", "write"} THEN "cancelled" ELSE l.writer)
      /\ c.drainer = (IF l.drainer = "read" THEN "cancelled" ELSE l.drainer)
      /\ c.call = (IF Live(l) THEN "cancelled" ELSE l.call)
  BY DEF CancelLane, Lane
<1>2. c \in Lane
  BY DEF CancelLane, Lane
<1> HIDE DEF c
<1>3. Over(c) /\ ~Live(c)
  BY <1>1 DEF Over, Live, Lane
<1>4. Handled(c) = l.mirrored + l.dropped + l.queue
  BY <1>1, <1>2, HandledIs
<1>5. Handled(c) <= Handled(l)
  BY <1>4, LaneFields, HandledIs
<1> QED BY <1>2, <1>3, <1>5 DEF c

LEMMA CloseIs ==
  ASSUME NEW l \in Lane
  PROVE  /\ CloseLane(l) \in Lane
         /\ Handled(CloseLane(l)) <= Handled(l)
         /\ Live(CloseLane(l)) =>
              /\ Live(l) /\ Handled(CloseLane(l)) = Handled(l)
              /\ CloseLane(l).queue = l.queue
              /\ CloseLane(l).writer = "done" => l.writer = "done"
         /\ Over(l) => Over(CloseLane(l))
<1> DEFINE m == [l EXCEPT !.marker = TRUE]
<1>1. Handled(l) \in Nat /\ (CloseLane(l) = l \/ CloseLane(l) = m \/ CloseLane(l) = CancelWriter(l))
  BY HandledIs DEF CloseLane
<1>2. m \in Lane /\ Handled(m) = Handled(l) /\ (Live(m) <=> Live(l)) /\ (Over(m) <=> Over(l))
      /\ m.queue = l.queue /\ m.writer = l.writer
  <2>1. /\ m \in Lane /\ m.queue = l.queue /\ m.writer = l.writer /\ m.drainer = l.drainer
        /\ m.call = l.call /\ m.mirrored = l.mirrored /\ m.dropped = l.dropped
    BY DEF Lane
  <2> QED BY <2>1 DEF Handled, Live, Over
<1>3. CASE l.writer = "get"
  <2> DEFINE c == [l EXCEPT !.writer = "cancelled"]
  <2>1. /\ c \in Lane /\ c.writer = "cancelled" /\ c.queue = l.queue /\ c.call = l.call
        /\ c.mirrored = l.mirrored /\ c.dropped = l.dropped
    BY DEF Lane
  <2>2. CancelWriter(l) = c /\ (Live(c) <=> Live(l)) /\ ~Over(l)
    BY <1>3, <2>1 DEF CancelWriter, Live, Over
  <2>3. Handled(c) = Handled(l)
    BY <1>3, <2>1, HandledIs
  <2> HIDE DEF c, m
  <2> QED BY <1>1, <1>2, <1>3, <2>1, <2>2, <2>3
<1>4. CASE l.writer = "write"
  <2> DEFINE c == [l EXCEPT !.writer = "cancelled",
                            !.drainer = IF @ = "read" THEN "cancelled" ELSE @,
                            !.call = IF Live(l) THEN "cancelled" ELSE @]
  <2>1. /\ c \in Lane /\ c.writer = "cancelled" /\ c.queue = l.queue
        /\ c.call = (IF Live(l) THEN "cancelled" ELSE l.call)
        /\ c.mirrored = l.mirrored /\ c.dropped = l.dropped
    BY DEF Lane
  <2>2. CancelWriter(l) = c /\ ~Live(c) /\ ~Over(l)
    BY <1>4, <2>1 DEF CancelWriter, Live, Over
  <2>3. Handled(c) <= Handled(l)
    <3> HIDE DEF c
    <3>1. /\ Handled(c) = l.mirrored + l.dropped + l.queue
          /\ Handled(l) = l.mirrored + l.dropped + l.queue + 1
      BY <1>4, <2>1, HandledIs
    <3> QED BY <3>1, LaneFields
  <2> HIDE DEF c, m
  <2> QED BY <1>1, <1>2, <1>4, <2>1, <2>2, <2>3
<1>5. CASE l.writer \notin {"get", "write"}
  <2>1. CancelWriter(l) = l
    BY <1>5 DEF CancelWriter
  <2> HIDE DEF m
  <2> QED BY <1>1, <1>2, <2>1
<1> QED BY <1>3, <1>4, <1>5

\* A frame that the writer takes, or has written, is handled as before.
LEMMA WriterMoves ==
  ASSUME NEW l \in Lane, NEW n \in Lane, n.dropped = l.dropped,
         \/ /\ l.writer = "get" /\ n.writer = "write"
            /\ n.queue = l.queue - 1 /\ n.mirrored = l.mirrored
         \/ /\ l.writer = "write" /\ n.writer = "get"
            /\ n.queue = l.queue /\ n.mirrored = l.mirrored + 1
  PROVE  Handled(n) = Handled(l)
<1>1. CASE l.writer = "get"
  <2>1. /\ Handled(n) = n.mirrored + n.dropped + n.queue + 1
        /\ Handled(l) = l.mirrored + l.dropped + l.queue
    BY <1>1, HandledIs
  <2> QED BY <1>1, <2>1, LaneFields
<1>2. CASE l.writer = "write"
  <2>1. /\ Handled(n) = n.mirrored + n.dropped + n.queue
        /\ Handled(l) = l.mirrored + l.dropped + l.queue + 1
    BY <1>2, HandledIs
  <2> QED BY <1>2, <2>1, LaneFields
<1> QED BY <1>1, <1>2

\* A writer that ends has handled no more than before.
LEMMA WriterStops ==
  ASSUME NEW l \in Lane, NEW n \in Lane, n.writer # "write" \/ l.writer = "write",
         n.queue = l.queue, n.mirrored = l.mirrored, n.dropped = l.dropped
  PROVE  /\ Handled(n) <= Handled(l)
         /\ l.writer # "write" \/ n.writer = "write" => Handled(n) = Handled(l)
<1>1. /\ n.writer # "write" => Handled(n) = l.mirrored + l.dropped + l.queue
      /\ n.writer = "write" => Handled(n) = l.mirrored + l.dropped + l.queue + 1
  BY HandledIs
<1>2. /\ l.writer # "write" => Handled(l) = l.mirrored + l.dropped + l.queue
      /\ l.writer = "write" => Handled(l) = l.mirrored + l.dropped + l.queue + 1
  BY HandledIs
<1> QED BY <1>1, <1>2, LaneFields

-----------------------------------------------------------------------------
(* IInv is inductive. *)

\* A step that leaves the lanes, the pump and what it has read alone.
LEMMA LanesStay ==
  ASSUME IInv, UNCHANGED <<kind, lane, pump, read>>,
         pc' = "aborted" => pc = "aborted" \/ kind = "go" \/ pump = "off"
  PROVE  \A s \in Shadows : LaneInv(s)'
<1> SUFFICES ASSUME NEW s \in Shadows PROVE LaneInv(s)'
  OBVIOUS
<1>1. LaneInv(s) /\ (kind = "python" /\ pump = "off" => Over(lane[s]))
  BY NoLaneIs DEF IInv, LaneInv
<1>2. UNCHANGED Written /\ UNCHANGED lane[s]
  BY DEF Written
<1> QED BY <1>1, <1>2 DEF LaneInv, TypeOK, IInv

LEMMA ClientInv == IInv /\ ClientNext => IInv'
<1> SUFFICES ASSUME IInv, ClientNext PROVE IInv'
  OBVIOUS
<1> USE Bounds
<1>1. TypeOK'
  <2>1. CASE Hear
    <3>1. heard < seen /\ heard' = heard + 1 /\ heard \in Nat /\ seen \in 0..MaxAnswers
      BY <2>1 DEF Hear, IInv, TypeOK
    <3>2. heard' \in 0..MaxAnswers
      BY <3>1
    <3> QED BY <2>1, <3>2 DEF Hear, IInv, TypeOK, path, inflow, pumped
  <2>2. CASE Type \/ Send \/ HalfClose \/ Leave
    BY <2>2 DEF IInv, TypeOK, Type, Send, HalfClose, Leave, path, inflow, pumped, outflow
  <2> QED BY <2>1, <2>2 DEF ClientNext
<1>2. SessionInv'
  BY DEF IInv, TypeOK, SessionInv, ClientNext, Type, Send, HalfClose, Leave, Hear, path,
     inflow, pumped, outflow
<1>3. \A s \in Shadows : LaneInv(s)'
  BY LanesStay DEF ClientNext, Type, Send, HalfClose, Leave, Hear, path, inflow, pumped
<1> QED BY <1>1, <1>2, <1>3 DEF IInv

LEMMA PrimaryInv == IInv /\ PrimaryNext => IInv'
<1> SUFFICES ASSUME IInv, PrimaryNext PROVE IInv'
  OBVIOUS
<1> USE Bounds
<1>1. TypeOK'
  BY DEF IInv, TypeOK, PrimaryNext, PrimaryAnswers, Taken, PrimaryEnds, PrimaryFails, path,
     inflow, pumped
<1>2. SessionInv'
  BY DEF IInv, TypeOK, SessionInv, PrimaryNext, PrimaryAnswers, Taken, PrimaryEnds,
     PrimaryFails, path, inflow, pumped
<1>3. \A s \in Shadows : LaneInv(s)'
  BY LanesStay DEF PrimaryNext, PrimaryAnswers, PrimaryEnds, PrimaryFails, path, pumped
<1> QED BY <1>1, <1>2, <1>3 DEF IInv

\* A step of one lane keeps the others; its own part is left to the step.
LEMMA LaneStepInv ==
  ASSUME IInv, NEW s \in Shadows, NEW l \in Lane, LaneStep(s, l),
         Handled(l) <= Handled(lane[s]),
         Live(l) => /\ Live(lane[s]) /\ Handled(l) = Handled(lane[s])
                    /\ l.marker = lane[s].marker
                    /\ l.writer = "done" =>
                         l.queue = 0 /\ (lane[s].marker \/ lane[s].writer = "done"),
         l # lane[s] => ~Over(lane[s])
  PROVE  IInv'
<1>1. /\ UNCHANGED <<kind, via, client, outbox, sent, pc, pump, read, got, eof>>
      /\ UNCHANGED <<primary, answers, seen, heard>>
      /\ lane' = [lane EXCEPT ![s] = l]
  BY DEF LaneStep, path, inflow, pumped, outflow
<1>2. TypeOK'
  BY <1>1 DEF IInv, TypeOK
<1>3. SessionInv'
  BY <1>1 DEF IInv, SessionInv
<1>4. ASSUME NEW t \in Shadows PROVE LaneInv(t)'
  <2>1. LaneInv(t) /\ UNCHANGED Written
    BY <1>1 DEF IInv, Written
  <2>2. CASE t # s
    <3>1. UNCHANGED lane[t]
      BY <1>1, <2>2 DEF IInv, TypeOK
    <3> QED BY <1>1, <2>1, <3>1 DEF LaneInv
  <2>3. CASE t = s
    <3>1. lane'[t] = l /\ lane[t] \in Lane
      BY <1>1, <2>3 DEF IInv, TypeOK
    <3>2. Handled(l) <= Written
      BY <2>1, <2>3, <3>1, HandledIs, Bounds DEF LaneInv, Written, IInv, TypeOK
    <3> QED BY <1>1, <2>1, <2>3, <3>1, <3>2, NoLaneIs DEF LaneInv
  <2> QED BY <2>2, <2>3
<1> QED BY <1>2, <1>3, <1>4 DEF IInv

\* A shadow's stream that opens, or is skipped, before the pump starts.
LEMMA DialsInv == ASSUME IInv, NEW s \in Shadows, ShadowDials(s) PROVE IInv'
<1>1. PICK l \in {NewLane, NoLane} : LaneStep(s, l)
  BY DEF ShadowDials
<1>2. /\ UNCHANGED <<kind, via, client, outbox, sent, pc, pump, read, got, eof>>
      /\ UNCHANGED <<primary, answers, seen, heard>>
      /\ lane' = [lane EXCEPT ![s] = l]
  BY <1>1 DEF LaneStep, path, inflow, pumped, outflow
<1>3. pc = "mirror" /\ kind = "go" /\ pump = "off" /\ Written = 0
  BY DEF ShadowDials, IInv, SessionInv, Written
<1>4. TypeOK'
  BY <1>2, NewLaneIs, NoLaneIs DEF IInv, TypeOK
<1>5. SessionInv'
  BY <1>2 DEF IInv, SessionInv
<1>6. ASSUME NEW t \in Shadows PROVE LaneInv(t)'
  <2>1. LaneInv(t) /\ UNCHANGED Written
    BY <1>2 DEF IInv, Written
  <2>2. lane'[t] = lane[t] \/ lane'[t] = NewLane \/ lane'[t] = NoLane
    BY <1>2 DEF IInv, TypeOK
  <2> QED BY <1>2, <1>3, <2>1, <2>2, NewLaneIs, NoLaneIs DEF LaneInv
<1> QED BY <1>4, <1>5, <1>6 DEF IInv

LEMMA LanesInv == IInv /\ LaneNext => IInv'
<1> SUFFICES ASSUME IInv, NEW s \in Shadows,
                    \/ LaneGet(s) \/ LaneEnd(s) \/ LaneWrite(s)
                    \/ LaneWriteFails(s) \/ LaneTimeout(s) \/ ShadowEnds(s)
                    \/ ShadowDials(s)
             PROVE  IInv'
  BY DEF LaneNext
<1> DEFINE l == lane[s]
<1>0. l \in Lane /\ LaneInv(s) /\ Handled(l) \in Nat
  BY HandledIs DEF IInv, TypeOK
<1> HIDE DEF l
<1>1. CASE LaneGet(s)
  <2> DEFINE n == [l EXCEPT !.queue = @ - 1, !.writer = "write"]
  <2>1. l.writer = "get" /\ l.queue > 0 /\ LaneStep(s, n)
    BY <1>1 DEF LaneGet, l
  <2>2. /\ n \in Lane /\ n.queue = l.queue - 1 /\ n.writer = "write" /\ n.mirrored = l.mirrored
        /\ n.dropped = l.dropped /\ n.marker = l.marker /\ n.call = l.call
    <3>1. l.queue - 1 \in 0..QueueCap
      BY <1>0, <2>1, LaneFields, Bounds
    <3>2. n \in Lane
      BY <1>0, <3>1 DEF Lane
    <3> QED BY <1>0, <3>2 DEF Lane
  <2> HIDE DEF n
  <2>3. Handled(n) = Handled(l) /\ (Live(n) <=> Live(l)) /\ ~Over(l)
    BY <1>0, <2>1, <2>2, WriterMoves DEF Live, Over
  <2> QED BY <1>0, <2>1, <2>2, <2>3, LaneStepInv DEF l
<1>2. CASE LaneEnd(s)
  <2> DEFINE n == [l EXCEPT !.writer = "done",
                            !.call = IF kind = "python" /\ @ = "open" THEN "half" ELSE @]
  <2>1. l.writer = "get" /\ l.queue = 0 /\ l.marker /\ LaneStep(s, n)
    BY <1>2 DEF LaneEnd, l
  <2>2. /\ n \in Lane /\ n.queue = l.queue /\ n.writer = "done" /\ n.mirrored = l.mirrored
        /\ n.dropped = l.dropped /\ n.marker = l.marker
        /\ n.call \in {l.call, "half"} /\ (n.call = "half" => l.call \in {"open", "half"})
    BY <1>0, <2>1 DEF Lane
  <2> HIDE DEF n
  <2>3. (Live(n) => Live(l)) /\ ~Over(l)
    BY <2>1, <2>2 DEF Live, Over
  <2>4. Handled(n) = Handled(l)
    BY <1>0, <2>1, <2>2, WriterStops
  <2>5. n.queue = 0 /\ Handled(n) <= Handled(l) /\ l \in Lane
    BY <1>0, <2>1, <2>2, <2>4
  <2> QED BY <2>1, <2>2, <2>3, <2>4, <2>5, LaneStepInv DEF l
<1>3. CASE LaneWrite(s)
  <2> DEFINE n == [l EXCEPT !.writer = "get", !.mirrored = @ + 1]
  <2>1. l.writer = "write" /\ LaneStep(s, n)
    BY <1>3 DEF LaneWrite, l
  <2>2. Handled(l) <= MaxFrames
    BY <1>0, Bounds DEF l, LaneInv, Written, IInv, TypeOK
  <2>3. l.mirrored < MaxFrames
    <3>1. Handled(l) = l.mirrored + l.dropped + l.queue + 1
      BY <1>0, <2>1, HandledIs
    <3> QED BY <1>0, <2>2, <3>1, LaneFields, Bounds
  <2>4. /\ n \in Lane /\ n.mirrored = l.mirrored + 1 /\ n.writer = "get" /\ n.queue = l.queue
        /\ n.dropped = l.dropped /\ n.marker = l.marker /\ n.call = l.call
    <3>1. l.mirrored + 1 \in 0..MaxFrames
      BY <1>0, <2>3, LaneFields, Bounds
    <3>2. n \in Lane
      BY <1>0, <3>1 DEF Lane
    <3> QED BY <1>0, <3>2 DEF Lane
  <2> HIDE DEF n
  <2>5. Handled(n) = Handled(l) /\ (Live(n) <=> Live(l)) /\ ~Over(l)
    BY <1>0, <2>1, <2>4, WriterMoves DEF Live, Over
  <2> QED BY <1>0, <2>1, <2>4, <2>5, LaneStepInv DEF l
<1>4. CASE LaneWriteFails(s)
  <2> DEFINE n == [l EXCEPT !.writer = IF kind = "python" THEN "done" ELSE "get"]
  <2>1. l.writer = "write" /\ l.call = "finished" /\ LaneStep(s, n)
    BY <1>4 DEF LaneWriteFails, l
  <2>2. /\ n \in Lane /\ n.writer # "write" /\ n.mirrored = l.mirrored /\ n.dropped = l.dropped
        /\ n.queue = l.queue /\ n.call = l.call
    BY <1>0, <2>1 DEF Lane
  <2> HIDE DEF n
  <2>3. Handled(n) <= Handled(l) /\ ~Live(n) /\ ~Over(l)
    BY <1>0, <2>1, <2>2, WriterStops DEF Live, Over
  <2> QED BY <1>0, <2>1, <2>2, <2>3, LaneStepInv DEF l
<1>5. CASE LaneTimeout(s)
  <2>1. ~Over(l) /\ LaneStep(s, CancelLane(l))
    BY <1>5 DEF LaneTimeout, l
  <2> QED BY <1>0, <2>1, CancelIs, LaneStepInv DEF l
<1>6. CASE ShadowEnds(s)
  <2> DEFINE n == [l EXCEPT !.call = "finished", !.drainer = "done"]
  <2>1. Live(l) /\ LaneStep(s, n)
    BY <1>6 DEF ShadowEnds, l
  <2>2. /\ n \in Lane /\ n.writer = l.writer /\ n.mirrored = l.mirrored /\ n.dropped = l.dropped
        /\ n.queue = l.queue /\ n.call = "finished"
    BY <1>0 DEF Lane
  <2> HIDE DEF n
  <2>3. Handled(n) = Handled(l) /\ ~Live(n) /\ ~Over(l)
    BY <1>0, <2>1, <2>2, WriterStops DEF Live, Over
  <2> QED BY <1>0, <2>1, <2>2, <2>3, LaneStepInv DEF l
<1> QED BY <1>1, <1>2, <1>3, <1>4, <1>5, <1>6, DialsInv

\* Every lane is offered a frame by a write to the primary (or, in Go, to what was one).
LEMMA OffersInv ==
  ASSUME IInv, pump = "write", pump' \in {"read"}, lane' = [t \in Shadows |-> Offer(lane[t])],
         UNCHANGED <<kind, pc, read>>
  PROVE  lane' \in [Shadows -> Lane] /\ \A s \in Shadows : LaneInv(s)'
<1>1. ASSUME NEW s \in Shadows PROVE lane'[s] \in Lane /\ LaneInv(s)'
  <2> DEFINE l == lane[s]
  <2>1. l \in Lane /\ LaneInv(s) /\ Handled(l) \in Nat /\ lane'[s] = Offer(l)
    BY HandledIs DEF IInv, TypeOK
  <2>2. Handled(l) <= read - 1 /\ read \in 1..MaxFrames /\ Written' = read
    BY <2>1, Bounds DEF IInv, TypeOK, SessionInv, LaneInv, Written
  <2> HIDE DEF l
  <2>3. Handled(l) < MaxFrames
    BY <2>1, <2>2, Bounds
  <2>4. /\ Offer(l) \in Lane
        /\ Handled(Offer(l)) <= Handled(l) + 1
        /\ l.call # "none" => Handled(Offer(l)) = Handled(l) + 1
        /\ Offer(l).marker = l.marker /\ Offer(l).writer = l.writer
        /\ Live(Offer(l)) <=> Live(l)
        /\ Over(Offer(l)) <=> Over(l)
    BY <2>1, <2>3, OfferIs
  <2>5. Handled(Offer(l)) <= read
    BY <2>1, <2>2, <2>4, HandledIs
  <2>6. Live(l) => ~l.marker /\ l.writer # "done" /\ Handled(l) = read - 1 /\ l.call # "none"
    BY <2>1 DEF l, LaneInv, Live, Written
  <2>7. Live(l) => Handled(Offer(l)) = read
    BY <2>1, <2>2, <2>4, <2>6
  <2>8. kind = "python" /\ pc = "aborted" => Over(l)
    BY <2>1 DEF l, LaneInv
  <2> QED BY <2>1, <2>2, <2>4, <2>5, <2>6, <2>7, <2>8 DEF LaneInv
<1> QED BY <1>1

\* Every lane is cancelled.
LEMMA CancelsInv ==
  ASSUME IInv, pump' \in Settled, lane' = [t \in Shadows |-> CancelLane(lane[t])],
         UNCHANGED <<kind, read>>
  PROVE  lane' \in [Shadows -> Lane] /\ \A s \in Shadows : LaneInv(s)'
<1>1. ASSUME NEW s \in Shadows PROVE lane'[s] \in Lane /\ LaneInv(s)'
  <2> DEFINE l == lane[s]
  <2>1. l \in Lane /\ LaneInv(s) /\ Handled(l) \in Nat /\ lane'[s] = CancelLane(l)
    BY HandledIs DEF IInv, TypeOK
  <2>2. Handled(l) <= read /\ read \in Nat /\ Written' = read
    BY <2>1, Bounds DEF IInv, TypeOK, SessionInv, LaneInv, Written, Settled
  <2> HIDE DEF l
  <2>3. /\ CancelLane(l) \in Lane /\ Over(CancelLane(l)) /\ ~Live(CancelLane(l))
        /\ Handled(CancelLane(l)) <= Handled(l)
    BY <2>1, CancelIs
  <2>4. Handled(CancelLane(l)) <= read
    BY <2>1, <2>2, <2>3, HandledIs
  <2> QED BY <2>1, <2>2, <2>3, <2>4 DEF LaneInv, Settled
<1> QED BY <1>1

\* Every lane is told to end by the pump's end.
LEMMA ClosesInv ==
  ASSUME IInv, pump = "read", pump' = IF kind = "python" THEN "closing" ELSE "done",
         lane' = [t \in Shadows |-> CloseLane(lane[t])], UNCHANGED <<kind, pc, read>>
  PROVE  lane' \in [Shadows -> Lane] /\ \A s \in Shadows : LaneInv(s)'
<1>1. ASSUME NEW s \in Shadows PROVE lane'[s] \in Lane /\ LaneInv(s)'
  <2> DEFINE l == lane[s]
  <2>1. l \in Lane /\ LaneInv(s) /\ Handled(l) \in Nat /\ lane'[s] = CloseLane(l)
    BY HandledIs DEF IInv, TypeOK
  <2>2. Handled(l) <= read /\ read \in Nat /\ Written' = read /\ Written = read
    BY <2>1, Bounds DEF IInv, TypeOK, SessionInv, LaneInv, Written
  <2>3. /\ Live(l) => Handled(l) = read /\ ~l.marker /\ l.writer # "done"
        /\ kind = "python" /\ pc = "aborted" => Over(l)
    BY <2>1, <2>2 DEF LaneInv
  <2> HIDE DEF l
  <2>4. /\ CloseLane(l) \in Lane
        /\ Handled(CloseLane(l)) <= Handled(l)
        /\ Live(CloseLane(l)) =>
              /\ Live(l) /\ Handled(CloseLane(l)) = Handled(l)
              /\ CloseLane(l).queue = l.queue
              /\ CloseLane(l).writer = "done" => l.writer = "done"
        /\ Over(l) => Over(CloseLane(l))
    BY <2>1, CloseIs
  <2>5. Handled(CloseLane(l)) <= read
    BY <2>1, <2>2, <2>4, HandledIs
  <2> QED BY <2>1, <2>2, <2>3, <2>4, <2>5 DEF LaneInv
<1> QED BY <1>1

LEMMA PumpInv == IInv /\ PumpNext => IInv'
<1> SUFFICES ASSUME IInv, PumpNext PROVE IInv'
  OBVIOUS
<1> USE Bounds
<1>0. read \in Nat /\ sent \in Nat /\ Len(got) \in Nat
  BY LenProperties DEF IInv, TypeOK
<1>1. CASE PumpRead
  <2>1. TypeOK'
    BY <1>0, <1>1 DEF PumpRead, IInv, TypeOK, path, inflow, outflow
  <2>2. SessionInv'
    BY <1>0, <1>1 DEF PumpRead, IInv, TypeOK, SessionInv, path, inflow, outflow
  <2>3. ASSUME NEW s \in Shadows PROVE LaneInv(s)'
    <3>1. LaneInv(s) /\ Written' = Written
      BY <1>0, <1>1 DEF PumpRead, IInv, Written
    <3> QED BY <1>1, <3>1 DEF PumpRead, LaneInv, path
  <2> QED BY <2>1, <2>2, <2>3 DEF IInv
<1>2. CASE PumpWrite
  <2>1. lane' \in [Shadows -> Lane] /\ \A s \in Shadows : LaneInv(s)'
    BY <1>2, OffersInv DEF PumpWrite, path
  <2>2. read \in 1..MaxFrames /\ got' = Append(got, read) /\ got \in Seq(1..MaxFrames)
    BY <1>0, <1>2 DEF PumpWrite, IInv, TypeOK, SessionInv
  <2>3. got' \in Seq(1..MaxFrames) /\ Len(got') = Len(got) + 1
    BY <2>2, AppendProperties
  <2>4. TypeOK'
    BY <1>2, <2>1, <2>3 DEF PumpWrite, IInv, TypeOK, path, inflow, outflow
  <2>5. SessionInv'
    BY <1>0, <1>2, <2>3 DEF PumpWrite, IInv, SessionInv, path, inflow, outflow
  <2> QED BY <2>1, <2>4, <2>5 DEF IInv
<1>3. CASE PumpWriteFails
  <2>1. lane' \in [Shadows -> Lane] /\ \A s \in Shadows : LaneInv(s)'
    <3>1. CASE kind = "python"
      <4>1. ASSUME NEW s \in Shadows PROVE LaneInv(s)'
        <5>1. LaneInv(s) /\ Handled(lane[s]) \in Nat /\ Written' = read /\ Written = read - 1
          BY <1>3, <3>1, HandledIs DEF PumpWriteFails, IInv, TypeOK, Written, pumped
        <5>2. Handled(lane[s]) <= read
          BY <1>0, <5>1 DEF LaneInv
        <5> QED BY <1>3, <3>1, <5>1, <5>2 DEF PumpWriteFails, LaneInv, path
      <4> QED BY <1>3, <3>1, <4>1 DEF PumpWriteFails, IInv, TypeOK
    <3>2. CASE kind # "python"
      BY <1>3, <3>2, OffersInv DEF PumpWriteFails, path, pumped
    <3> QED BY <3>1, <3>2
  <2>2. TypeOK'
    BY <1>3, <2>1 DEF PumpWriteFails, IInv, TypeOK, Settled, path, inflow, outflow, pumped
  <2>3. SessionInv'
    BY <1>3 DEF PumpWriteFails, IInv, SessionInv, path, inflow, outflow, pumped
  <2> QED BY <2>1, <2>2, <2>3 DEF IInv
<1>4. CASE PumpEnd
  <2>1. lane' \in [Shadows -> Lane] /\ \A s \in Shadows : LaneInv(s)'
    BY <1>4, ClosesInv DEF PumpEnd, path
  <2>2. TypeOK'
    BY <1>4, <2>1 DEF PumpEnd, IInv, TypeOK, Settled, path, inflow, outflow
  <2>3. SessionInv'
    BY <1>4 DEF PumpEnd, IInv, SessionInv, path, inflow, outflow
  <2> QED BY <2>1, <2>2, <2>3 DEF IInv
<1>5. CASE PumpDone
  <2>1. TypeOK'
    BY <1>5 DEF PumpDone, IInv, TypeOK, Settled, path, inflow, outflow, pumped
  <2>2. SessionInv'
    BY <1>5 DEF PumpDone, IInv, SessionInv, path, inflow, outflow, pumped
  <2>3. ASSUME NEW s \in Shadows PROVE LaneInv(s)'
    <3>1. LaneInv(s) /\ Written' = Written
      BY <1>5 DEF PumpDone, IInv, Written, pumped
    <3> QED BY <1>5, <3>1 DEF PumpDone, LaneInv, path
  <2> QED BY <2>1, <2>2, <2>3 DEF IInv
<1> QED BY <1>1, <1>2, <1>3, <1>4, <1>5 DEF PumpNext

\* The lanes as Python's first frame creates them; Go's are opened one by one.
LEMMA BeginInv == ASSUME IInv, Begin PROVE IInv'
<1> USE Bounds
<1>0. /\ pc = "wait" /\ pump = "off" /\ primary = "none" /\ read = 0 /\ answers = 0
      /\ sent \in Nat /\ sent > 0
      /\ got = <<>> /\ ~eof /\ Len(got) = 0 /\ seen <= answers /\ heard <= seen
  BY EmptySeq DEF Begin, IInv, SessionInv, TypeOK
<1>1. CASE pc' = "relay"
  <2>1. /\ kind = "python" /\ pump' = "write" /\ primary' = "open" /\ read' = 1
        /\ UNCHANGED <<kind, via, client, outbox, sent, got, eof, answers, seen, heard>>
        /\ lane' = [s \in Shadows |-> NewLane]
    BY <1>1 DEF Begin, path, inflow
  <2>2. TypeOK'
    BY <1>0, <1>1, <2>1, NewLaneIs DEF IInv, TypeOK
  <2>3. SessionInv'
    BY <1>0, <1>1, <2>1 DEF SessionInv
  <2>4. ASSUME NEW s \in Shadows PROVE LaneInv(s)'
    BY <1>1, <2>1, NewLaneIs DEF LaneInv, Written
  <2> QED BY <2>2, <2>3, <2>4 DEF IInv
<1>2. CASE pc' # "relay"
  <2>1. /\ pc' = "aborted" \/ (pc' = "dial" /\ kind = "go")
        /\ read' = 1
        /\ UNCHANGED <<kind, via, client, outbox, sent, got, eof, answers, seen, heard>>
        /\ UNCHANGED <<pump, primary, lane>>
    BY <1>2 DEF Begin, path, inflow
  <2>2. TypeOK'
    BY <1>0, <2>1 DEF IInv, TypeOK, Ended
  <2>3. SessionInv'
    BY <1>0, <2>1 DEF IInv, SessionInv
  <2>4. ASSUME NEW s \in Shadows PROVE LaneInv(s)'
    BY <1>0, <2>1, NoLaneIs DEF IInv, LaneInv, Written
  <2> QED BY <2>2, <2>3, <2>4 DEF IInv
<1> QED BY <1>1, <1>2

\* Go's dialling leaves the pump off and the lanes empty.
LEMMA DialInv == ASSUME IInv, Dial PROVE IInv'
<1>1. /\ pc = "dial" /\ kind = "go" /\ pump = "off" /\ primary = "none" /\ Written = 0
      /\ UNCHANGED <<kind, via, client, outbox, sent, pump, read, got, eof, answers, seen, heard>>
  BY DEF Dial, IInv, SessionInv, Written, path, inflow, pumped
<1>2. CASE pc' = "mirror"
  <2>1. primary' = "open" /\ lane' = [s \in Shadows |-> PendingLane]
    BY <1>2 DEF Dial
  <2>2. TypeOK'
    BY <1>1, <1>2, <2>1, PendingLaneIs DEF IInv, TypeOK
  <2>3. SessionInv'
    BY <1>1, <1>2, <2>1 DEF IInv, SessionInv
  <2>4. ASSUME NEW s \in Shadows PROVE LaneInv(s)'
    BY <1>1, <1>2, <2>1, PendingLaneIs DEF LaneInv, Written
  <2> QED BY <2>2, <2>3, <2>4 DEF IInv
<1>3. CASE pc' # "mirror"
  <2>1. pc' = "aborted" /\ UNCHANGED <<primary, lane>>
    BY <1>3 DEF Dial
  <2>2. TypeOK'
    BY <1>1, <2>1 DEF IInv, TypeOK, Ended
  <2>3. SessionInv'
    BY <1>1, <2>1 DEF IInv, SessionInv
  <2> QED BY <1>1, <2>1, <2>2, <2>3, LanesStay DEF IInv
<1> QED BY <1>2, <1>3

\* The lanes have been offered nothing when the pump starts, and are owed nothing yet.
LEMMA StartInv == ASSUME IInv, StartPump PROVE IInv'
<1> USE Bounds
<1>1. /\ pc = "mirror" /\ kind = "go" /\ pump = "off" /\ read = 1 /\ got = <<>> /\ ~eof
      /\ pc' = "relay" /\ pump' = "write" /\ Len(got) = 0
      /\ UNCHANGED <<kind, via, client, outbox, sent, read, got, eof, primary, answers, seen>>
      /\ UNCHANGED <<heard, lane>>
  BY EmptySeq DEF StartPump, IInv, SessionInv, path, inflow, pumped, outflow
<1>2. TypeOK'
  BY <1>1 DEF IInv, TypeOK
<1>3. SessionInv'
  BY <1>1 DEF IInv, SessionInv
<1>4. ASSUME NEW s \in Shadows PROVE LaneInv(s)'
  <2>1. LaneInv(s) /\ Written = 0 /\ Written' = 0
    BY <1>1 DEF IInv, Written
  <2> QED BY <1>1, <2>1 DEF LaneInv
<1> QED BY <1>2, <1>3, <1>4 DEF IInv

\* A pump that is cancelled before it tells the lanes to end leaves them as they are.
LEMMA CutOffInv == ASSUME IInv, CutOff PROVE IInv'
<1> USE Bounds
<1>1. /\ pc = "settle" /\ pc' = "cut" /\ pump \notin Settled /\ pump' = "cancelled"
      /\ UNCHANGED <<kind, via, client, outbox, sent, read, got, eof, primary, answers, seen>>
      /\ UNCHANGED heard
  BY DEF CutOff, path, inflow, pumped, outflow
<1>2. lane' \in [Shadows -> Lane] /\ \A s \in Shadows : LaneInv(s)'
  <2>1. CASE pump = "closing"
    BY <1>1, <2>1, CancelsInv DEF CutOff, Settled
  <2>2. CASE pump # "closing"
    <3>1. ASSUME NEW s \in Shadows PROVE LaneInv(s)'
      <4>1. lane'[s] = lane[s] /\ LaneInv(s) /\ Handled(lane[s]) \in Nat
        BY <2>2, HandledIs DEF CutOff, IInv, TypeOK
      <4>2. Handled(lane[s]) <= read /\ Written' = read
        BY <1>1, <4>1 DEF LaneInv, Written, IInv, TypeOK
      <4> QED BY <1>1, <2>2, <4>1, <4>2 DEF LaneInv, Settled
    <3> QED BY <2>2, <3>1 DEF CutOff, IInv, TypeOK
  <2> QED BY <2>1, <2>2
<1>3. TypeOK'
  BY <1>1, <1>2 DEF IInv, TypeOK, Ended, Settled
<1>4. SessionInv'
  BY <1>1 DEF IInv, SessionInv
<1> QED BY <1>2, <1>3, <1>4 DEF IInv

LEMMA AbortInv == ASSUME IInv, Abort PROVE IInv'
<1> USE Bounds
<1>1. /\ pc \in {"relay", "yield"} /\ pc' = "aborted"
      /\ primary' \in {primary, "cancelled"} /\ primary' # "open"
      /\ UNCHANGED <<kind, via, client, outbox, sent, read, got, eof, answers, seen, heard>>
  BY DEF Abort, path, inflow, pumped
<1>2. pump' \in Settled \cup {pump} /\ (pump' = "write" => pump = "write")
  BY DEF Abort, Settled
<1>3. lane' \in [Shadows -> Lane] /\ \A s \in Shadows : LaneInv(s)'
  <2>1. CASE kind = "python"
    BY <1>1, <2>1, CancelsInv DEF Abort, Settled
  <2>2. CASE kind # "python"
    BY <1>1, <2>2, LanesStay DEF Abort, IInv, TypeOK
  <2> QED BY <2>1, <2>2
<1>4. TypeOK'
  BY <1>1, <1>2, <1>3 DEF IInv, TypeOK, Ended, Settled
<1>5. SessionInv'
  BY <1>1, <1>2 DEF IInv, SessionInv
<1> QED BY <1>3, <1>4, <1>5 DEF IInv

LEMMA HandlerInv == IInv /\ HandlerNext => IInv'
<1> SUFFICES ASSUME IInv, HandlerNext PROVE IInv'
  OBVIOUS
<1> USE Bounds
<1>1. CASE NoFrame \/ Take \/ Deliver \/ Complete \/ Settle
  <2>1. /\ UNCHANGED <<kind, via, client, outbox, sent, pump, read, got, eof, primary, answers>>
        /\ UNCHANGED <<heard, lane>>
        /\ pc' \in Ended \cup {"relay", "yield", "settle"} /\ seen' \in seen..answers
        /\ pc' = "aborted" => pc = "aborted" \/ pump = "off"
    BY <1>1 DEF NoFrame, Take, Deliver, Complete, Settle, path, inflow, pumped, outflow, IInv,
       SessionInv, TypeOK, Ended
  <2>2. TypeOK'
    BY <2>1 DEF IInv, TypeOK
  <2>3. SessionInv'
    BY <1>1, <2>1 DEF NoFrame, Take, Deliver, Complete, Settle, outflow, IInv, TypeOK, SessionInv,
       Ended
  <2>4. \A s \in Shadows : LaneInv(s)'
    BY <2>1, LanesStay
  <2> QED BY <2>2, <2>3, <2>4 DEF IInv
<1> QED BY <1>1, BeginInv, DialInv, StartInv, CutOffInv, AbortInv DEF HandlerNext

LEMMA InitInv == Init => IInv
<1> SUFFICES ASSUME Init PROVE IInv
  OBVIOUS
<1> USE Bounds
<1>1. TypeOK
  <2>1. got \in Seq(1..MaxFrames)
    BY EmptySeq DEF Init
  <2>2. lane \in [Shadows -> Lane]
    BY NoLaneIs DEF Init
  <2>3. /\ outbox \in 0..MaxFrames /\ sent \in 0..MaxFrames /\ read \in 0..MaxFrames
        /\ answers \in 0..MaxAnswers /\ seen \in 0..MaxAnswers /\ heard \in 0..MaxAnswers
    BY DEF Init
  <2>4. /\ kind \in {"python", "go"} /\ via \in {"grpc", "ws"} /\ client = "open"
        /\ pc = "wait" /\ pump = "off" /\ eof = FALSE /\ primary = "none"
    BY DEF Init
  <2> QED BY <2>1, <2>2, <2>3, <2>4, Zenon DEF TypeOK
<1>2. SessionInv
  BY DEF Init, SessionInv
<1>3. ASSUME NEW s \in Shadows PROVE LaneInv(s)
  BY NoLaneIs DEF Init, LaneInv, Written
<1> QED BY <1>1, <1>2, <1>3 DEF IInv

LEMMA StutterInv == IInv /\ UNCHANGED vars => IInv'
<1> SUFFICES ASSUME IInv, UNCHANGED vars PROVE IInv'
  OBVIOUS
<1>1. /\ UNCHANGED <<kind, via, client, outbox, sent, pc, pump, read, got, eof>>
      /\ UNCHANGED <<primary, answers, seen, heard, lane>>
  BY DEF vars, path, inflow, pumped, outflow
<1>2. \A s \in Shadows : LaneInv(s)'
  BY <1>1, LanesStay
<1> QED BY <1>1, <1>2 DEF IInv, TypeOK, SessionInv

LEMMA NextInv == IInv /\ [Next \/ Idle]_vars => IInv'
  BY ClientInv, PumpInv, HandlerInv, PrimaryInv, LanesInv, StutterInv DEF Next, Idle

LEMMA Inductive == Spec => []IInv
  BY InitInv, NextInv, PTL DEF Spec

-----------------------------------------------------------------------------
(* The theorems. *)

\* Every reachable state has the types of the declarations.
THEOREM SessionTypes == Spec => []TypeOK
  BY Inductive, PTL DEF IInv

\* A Python session leaves no task and no open call of a shadow behind, unless its pump
\* failed or was cut off.
THEOREM LanesAreReleased == Spec => []LanesReleased
<1>1. ASSUME IInv, kind = "python", NEW s \in Shadows,
             pc = "aborted" \/ (pc = "completed" /\ pump \in {"off", "done"})
      PROVE  Over(lane[s])
  BY <1>1, NoLaneIs DEF IInv, LaneInv
<1>2. IInv => LanesReleased
  BY <1>1 DEF LanesReleased
<1> QED BY <1>2, Inductive, PTL

\* A lane that ended by itself has mirrored or counted as dropped every frame that was read.
THEOREM LanesHaveFlushed == Spec => []LanesFlush
<1>1. ASSUME IInv, NEW s \in Shadows, lane[s].writer = "done", Live(lane[s])
      PROVE  lane[s].mirrored + lane[s].dropped = read
  <2>1. /\ Handled(lane[s]) = read /\ lane[s].queue = 0 /\ lane[s] \in Lane
    BY <1>1 DEF IInv, LaneInv, TypeOK, Written
  <2>2. Handled(lane[s]) = lane[s].mirrored + lane[s].dropped + lane[s].queue
    BY <1>1, <2>1, HandledIs
  <2> QED BY <2>1, <2>2, LaneFields
<1>2. IInv => LanesFlush
  BY <1>1 DEF LanesFlush
<1> QED BY <1>2, Inductive, PTL

-----------------------------------------------------------------------------
(* The session implements Relay: a frame is delivered by PumpWrite, an answer shown by     *)
(* Deliver; dialling, the lanes and the pump's other steps are stutters.                   *)

LEMMA OutcomeIs ==
  ASSUME IInv
  PROVE  /\ Promise!Running <=> pc \notin Ended
         /\ primary = "open" => Promise!Running /\ ~PrimaryOver
  BY DEF Promise!Running, Outcome, PrimaryOver, Ended, IInv, SessionInv

\* What only touches the pump, the lanes and what they read is invisible.
LEMMA Invisible ==
  ASSUME UNCHANGED <<client, sent, got, eof, answers, seen>>,
         UNCHANGED <<PrimaryOver, Outcome>>
  PROVE  UNCHANGED Promise!vars
  BY DEF Promise!vars

LEMMA ClientImplements == IInv /\ ClientNext => Promise!Next \/ UNCHANGED Promise!vars
<1> SUFFICES ASSUME IInv, ClientNext PROVE Promise!Next \/ UNCHANGED Promise!vars
  OBVIOUS
<1>1. UNCHANGED <<got, eof, answers, seen, primary, pc>>
  BY DEF ClientNext, Type, Send, HalfClose, Leave, Hear, pumped, outflow
<1>2. UNCHANGED <<PrimaryOver, Outcome>>
  BY <1>1 DEF PrimaryOver, Outcome
<1>3. CASE Type \/ Hear
  BY <1>1, <1>2, <1>3, Invisible DEF Type, Hear, inflow
<1>4. CASE Send
  BY <1>1, <1>2, <1>4, OutcomeIs DEF Send, Promise!Next, Promise!Send
<1>5. CASE HalfClose \/ Leave
  BY <1>1, <1>2, <1>5 DEF HalfClose, Leave, Promise!Next, Promise!Stop
<1> QED BY <1>3, <1>4, <1>5 DEF ClientNext

LEMMA PumpImplements == IInv /\ PumpNext => Promise!Next \/ UNCHANGED Promise!vars
<1> SUFFICES ASSUME IInv, PumpNext PROVE Promise!Next \/ UNCHANGED Promise!vars
  OBVIOUS
<1>1. UNCHANGED <<client, sent, answers, seen, primary, pc>>
  BY DEF PumpNext, PumpRead, PumpWrite, PumpWriteFails, PumpEnd, PumpDone, inflow, outflow, pumped
<1>2. UNCHANGED <<PrimaryOver, Outcome>>
  BY <1>1 DEF PrimaryOver, Outcome
<1>3. CASE UNCHANGED <<got, eof>>
  BY <1>1, <1>2, <1>3, Invisible
<1>4. CASE PumpWrite
  <2>1. Promise!Running /\ ~eof /\ Len(got) = read - 1 /\ read <= sent /\ UNCHANGED eof
    BY <1>4, OutcomeIs DEF PumpWrite, IInv, SessionInv
  <2>2. read \in Nat /\ sent \in Nat /\ Len(got) + 1 = read
    BY <2>1 DEF IInv, TypeOK
  <2>3. got' = Append(got, Len(got) + 1) /\ Len(got) < sent
    BY <1>4, <2>1, <2>2 DEF PumpWrite
  <2> QED BY <1>1, <1>2, <2>1, <2>3 DEF Promise!Next, Promise!Deliver
<1>5. CASE PumpEnd /\ ~UNCHANGED eof
  <2>1. primary = "open" /\ pump = "read" /\ InputOver /\ UNCHANGED got
    BY <1>5 DEF PumpEnd
  <2>2. pc \in {"relay", "yield"} /\ Len(got) = read /\ ~eof /\ Promise!Running
    <3>1. pc \in {"mirror", "relay", "yield"} /\ pc # "mirror" /\ Len(got) = read /\ ~eof
      BY <2>1 DEF IInv, SessionInv
    <3> QED BY <2>1, <3>1, OutcomeIs
  <2>3. client = "gone" \/ (client = "ended" /\ Len(got) = sent)
    BY <2>1, <2>2 DEF InputOver, Ended
  <2>4. eof' \in BOOLEAN /\ eof \in BOOLEAN
    BY <2>1, PumpInv DEF IInv, TypeOK
  <2>5. eof' = TRUE
    BY <1>5, <2>2, <2>4, Zenon
  <2> QED BY <1>1, <1>2, <2>1, <2>2, <2>3, <2>5 DEF Promise!Next, Promise!EndInput
<1>6. PumpRead \/ PumpWriteFails \/ PumpDone \/ PumpEnd => UNCHANGED got
  BY DEF PumpRead, PumpWriteFails, PumpDone, PumpEnd, pumped
<1>7. PumpRead \/ PumpWriteFails \/ PumpDone => UNCHANGED eof
  BY DEF PumpRead, PumpWriteFails, PumpDone, pumped
<1> QED BY <1>3, <1>4, <1>5, <1>6, <1>7 DEF PumpNext

LEMMA PrimaryImplements == IInv /\ PrimaryNext => Promise!Next \/ UNCHANGED Promise!vars
<1> SUFFICES ASSUME IInv, PrimaryNext PROVE Promise!Next \/ UNCHANGED Promise!vars
  OBVIOUS
<1>1. UNCHANGED <<client, sent, got, eof, seen, pc>> /\ Promise!Running /\ ~PrimaryOver
  BY OutcomeIs DEF PrimaryNext, PrimaryAnswers, PrimaryEnds, PrimaryFails, inflow, pumped
<1>2. UNCHANGED Outcome
  BY <1>1 DEF Outcome
<1>3. CASE PrimaryAnswers
  <2>1. UNCHANGED PrimaryOver
    BY <1>3 DEF PrimaryAnswers, PrimaryOver
  <2> QED BY <1>1, <1>2, <1>3, <2>1 DEF PrimaryAnswers, Promise!Next, Promise!Answer
<1>4. CASE PrimaryEnds \/ PrimaryFails
  <2>1. PrimaryOver' /\ UNCHANGED answers
    BY <1>4 DEF PrimaryEnds, PrimaryFails, PrimaryOver
  <2> QED BY <1>1, <1>2, <2>1 DEF Promise!Next, Promise!BackendOver
<1> QED BY <1>3, <1>4 DEF PrimaryNext

LEMMA HandlerImplements == IInv /\ HandlerNext => Promise!Next \/ UNCHANGED Promise!vars
<1> SUFFICES ASSUME IInv, HandlerNext PROVE Promise!Next \/ UNCHANGED Promise!vars
  OBVIOUS
<1>1. pc \notin Ended /\ Promise!Running /\ UNCHANGED <<client, sent, got, eof, answers>>
  BY OutcomeIs DEF HandlerNext, NoFrame, Begin, Dial, StartPump, Take, Deliver, Complete, Settle, CutOff, Abort, inflow,
     pumped, outflow, Ended
<1>2. CASE pc' \notin Ended /\ UNCHANGED seen
  <2>1. UNCHANGED Outcome
    BY <1>1, <1>2 DEF Outcome
  <2>2. UNCHANGED PrimaryOver
    BY <1>2 DEF HandlerNext, NoFrame, Begin, Dial, StartPump, Take, Deliver, Complete, Settle, CutOff, Abort, outflow,
       Ended, PrimaryOver, IInv, SessionInv
  <2> QED BY <1>1, <1>2, <2>1, <2>2, Invisible
<1>3. CASE Deliver
  <2>1. UNCHANGED <<Outcome, PrimaryOver>> /\ seen < answers /\ seen' = seen + 1
    BY <1>3 DEF Deliver, Outcome, PrimaryOver, Ended, IInv, SessionInv
  <2> QED BY <1>1, <2>1 DEF Promise!Next, Promise!Show
<1>4. CASE pc' \in Ended
  <2>1. UNCHANGED seen
    BY <1>4 DEF HandlerNext, NoFrame, Begin, Dial, StartPump, Take, Deliver, Complete, Settle, CutOff, Abort, outflow, Ended
  <2>2. PrimaryOver => PrimaryOver'
    BY <1>4 DEF HandlerNext, NoFrame, Begin, Dial, StartPump, Take, Deliver, Complete, Settle, CutOff, Abort, outflow,
       Ended, PrimaryOver
  <2>3. PrimaryOver' \in {PrimaryOver, TRUE}
    <3>0. PrimaryOver \in BOOLEAN /\ PrimaryOver' \in BOOLEAN
      BY DEF PrimaryOver
    <3>1. PrimaryOver' = TRUE \/ PrimaryOver' = PrimaryOver
      BY <2>2, <3>0, Zenon
    <3> QED BY <3>1, Zenon
  <2>4. CASE pc' = "completed"
    <3>1. seen = answers /\ (PrimaryOver \/ sent = 0)
      BY <2>4 DEF HandlerNext, NoFrame, Begin, Dial, StartPump, Take, Deliver, Complete, Settle, CutOff, Abort, outflow,
         Ended, PrimaryOver, IInv, SessionInv, TypeOK
    <3>2. Outcome' = "completed"
      BY <2>4 DEF Outcome, Ended
    <3> QED BY <1>1, <2>1, <2>3, <3>1, <3>2 DEF Promise!Next, Promise!Finish
  <2>5. CASE pc' # "completed"
    <3>1. Outcome' = "failed"
      BY <1>4, <2>5 DEF Outcome
    <3> QED BY <1>1, <2>1, <2>3, <3>1 DEF Promise!Next, Promise!Finish
  <2> QED BY <2>4, <2>5
<1>5. UNCHANGED seen \/ Deliver
  BY DEF HandlerNext, NoFrame, Begin, Dial, StartPump, Take, Complete, Settle, CutOff, Abort, outflow
<1> QED BY <1>2, <1>3, <1>4, <1>5

LEMMA LanesImplement == LaneNext \/ UNCHANGED vars => UNCHANGED Promise!vars
<1> SUFFICES ASSUME LaneNext \/ UNCHANGED vars PROVE UNCHANGED Promise!vars
  OBVIOUS
<1>1. UNCHANGED <<client, sent, got, eof, answers, seen, primary, pc>>
  BY DEF LaneNext, LaneGet, LaneEnd, LaneWrite, LaneWriteFails, LaneTimeout, ShadowEnds, ShadowDials,
     LaneStep, vars, path, inflow, pumped, outflow
<1> QED BY <1>1, Invisible DEF PrimaryOver, Outcome

\* Every session of either gateway implements Relay, whatever its shadows do.
THEOREM SessionImplementsRelay == Spec => ImplementsRelay
<1>1. Init => Promise!Init
  BY DEF Init, Promise!Init, PrimaryOver, Outcome, Ended
<1>2. IInv /\ [Next \/ Idle]_vars => [Promise!Next]_(Promise!vars)
  BY ClientImplements, PumpImplements, PrimaryImplements, HandlerImplements, LanesImplement
     DEF Next, Idle
<1> QED BY <1>1, <1>2, Inductive, PTL DEF Spec, ImplementsRelay, Promise!Spec
=============================================================================
