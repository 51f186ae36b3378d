------------------------------ MODULE GateChecks ------------------------------
(***************************************************************************)
(* What Gate and Router compute, against a definition that does not say    *)
(* how, over bounded inputs: TLC evaluates these with every run of a       *)
(* module that extends this one.                                           *)
(***************************************************************************)
EXTENDS Gate

Arms == INSTANCE Router

LOCAL Config(num, den, z2, nMin) ==
  [num |-> num, den |-> den, z2 |-> z2, nMin |-> nMin, tieMode |-> "halve", strict |-> FALSE]
LOCAL Default == Config(1, 2, 3841, 1)
LOCAL Superior == Config(13, 25, 3841, 1)   \* nim = 0.52
LOCAL Small == [wins : 0..5, losses : 0..5, ties : 0..3]

\* The gate blocks when every rate from the margin up is incompatible with the sample,
\* and allows when every lower one is: the rates at which (k/n - p)^2 > z2 p(1-p)/n.
ASSUME IntervalDecides ==
  \A num \in {10, 13}, n \in 1..12 : \A h \in 0..(2 * n) :
    LET excluded(p) == Distance(h, n, Config(p, 20, 3841, 1)) > Reach(n, Config(p, 20, 3841, 1))
        cfg == Config(num, 20, 3841, 1)
    IN  /\ HighBelow(h, n, cfg) <=> \A p \in num..20 : excluded(p)
        /\ LowAtLeast(h, n, cfg) => \A p \in 0..(num - 1) : excluded(p)
        /\ ~(HighBelow(h, n, cfg) /\ LowAtLeast(h, n, cfg))

\* A loss turned into a win, or a tie resolved as one, never makes a verdict worse,
\* in either tie mode that keeps ties.
ASSUME WinsHelp ==
  LET rank == [BLOCK |-> 0, INCONCLUSIVE |-> 1, ALLOW |-> 2]
  IN  \A mode \in {"halve", "loss"}, cfg \in {Default, Superior} : \A c \in Small :
        LET verdict(d) == rank[EvaluateGate(d, [cfg EXCEPT !.tieMode = mode])]
        IN  /\ c.losses > 0 => verdict(c) <= verdict([c EXCEPT !.wins = @ + 1, !.losses = @ - 1])
            /\ c.ties > 0 => verdict(c) <= verdict([c EXCEPT !.wins = @ + 1, !.ties = @ - 1])

\* A suite that crossed the sequential test's threshold, at the program's own bound and
\* level, is never judged the opposite by the gate, however many samples it took.
ASSUME CrossingAgrees ==
  \A n \in 15..300 : /\ ~HighBelow(n + 15, n, Default)
                     /\ ~LowAtLeast(n - 15, n, Default)

\* Benjamini-Hochberg: an item is rejected exactly when some p-value t at or above its own
\* satisfies t <= q * |{p <= t}| / m.
ASSUME StepUp ==
  \A p \in [1..3 -> {5, 16, 17, 33, 50, 60}] :
    Rejected(p, 50) =
      {i \in 1..3 : \E j \in 1..3 : /\ p[j] >= p[i]
                                    /\ p[j] * 3 <= 50 * Cardinality({k \in 1..3 : p[k] <= p[j]})}

\* Over a period of keys every arm is picked as often as its weight says: no session goes
\* to an arm of weight 0 while another arm has any.
ASSUME PickIsProportional ==
  \A w \in [1..3 -> 0..3] :
    LET total == w[1] + w[2] + w[3]
    IN  \A i \in 1..3 : total > 0 =>
          Cardinality({key \in 0..(total - 1) : Arms!Pick(w, key) = i}) = w[i]
=============================================================================
