--------------------------------- MODULE Gate ---------------------------------
(***************************************************************************)
(* The eval gate's arithmetic: evaluate_gate and aggregate_pr (eval/gate.py)*)
(* and the sequential test of eval/engine.py.  The Wilson interval is      *)
(* never computed: its ends are the roots p of (k/n - p)^2 = z2 p(1-p)/n,   *)
(* so a comparison of an end with the margin is one between integers.      *)
(* k_eff may be a half, so twice its value is kept.  p-values, posteriors  *)
(* and detectable effects are reported, never decided on, and left out.    *)
(***************************************************************************)
EXTENDS Integers, Sequences, FiniteSets

Verdicts == {"BLOCK", "ALLOW", "INCONCLUSIVE", "INSUFFICIENT_DATA"}
Preferences == {"WIN", "LOSS", "TIE"}

\* A GateConfig: the margin num/den, z2 in thousandths (3841 for alpha = 0.05).
\* A count: [wins, losses, ties].

-----------------------------------------------------------------------------
(* One suite. *)

\* _effective_counts: twice the successes, and the sample size.
TwiceWins(c, tieMode) == 2 * c.wins + (IF tieMode = "halve" THEN c.ties ELSE 0)
Size(c, tieMode) == c.wins + c.losses + (IF tieMode = "exclude" THEN 0 ELSE c.ties)

\* The sample's squared distance from the margin, and the interval's reach there.
Distance(h, n, cfg) == (h * cfg.den - 2 * n * cfg.num) * (h * cfg.den - 2 * n * cfg.num) * 1000
Reach(n, cfg) == 4 * n * cfg.z2 * cfg.num * (cfg.den - cfg.num)

\* wilson_high < nim, and wilson_low >= nim: an end on the margin allows.
HighBelow(h, n, cfg) ==
  n > 0 /\ h * cfg.den < 2 * n * cfg.num /\ Distance(h, n, cfg) > Reach(n, cfg)
LowAtLeast(h, n, cfg) ==
  n > 0 /\ h * cfg.den >= 2 * n * cfg.num /\ Distance(h, n, cfg) >= Reach(n, cfg)

EvaluateGate(c, cfg) ==
  LET h == TwiceWins(c, cfg.tieMode)
      n == Size(c, cfg.tieMode)
  IN  IF n < cfg.nMin \/ n = 0 THEN "INSUFFICIENT_DATA"
      ELSE IF HighBelow(h, n, cfg) THEN "BLOCK"
      ELSE IF LowAtLeast(h, n, cfg) THEN "ALLOW"
      ELSE IF cfg.strict THEN "BLOCK"
      ELSE "INCONCLUSIVE"

-----------------------------------------------------------------------------
(* Several suites. *)

\* aggregate_pr: a gating suite without a decision is passed over, so that no suite
\* at all is an ALLOW.
Aggregate(decisions, gating) ==
  IF \E s \in DOMAIN decisions : decisions[s] = "BLOCK" THEN "BLOCK"
  ELSE IF \E s \in gating \cap DOMAIN decisions : decisions[s] # "ALLOW" THEN "INCONCLUSIVE"
  ELSE "ALLOW"

ExitCode(verdict) == IF verdict = "BLOCK" THEN 1 ELSE 0

\* bh_reject: p-values (thousandths) in order of size, a tie in order of place; all up
\* to the last one under its line q * rank / m are rejected.
RankOf(p, i) == Cardinality({j \in DOMAIN p : p[j] < p[i] \/ (p[j] = p[i] /\ j <= i)})
Rejected(p, q) ==
  {i \in DOMAIN p : \E j \in DOMAIN p : /\ p[j] * Len(p) <= RankOf(p, j) * q
                                        /\ RankOf(p, i) <= RankOf(p, j)}

-----------------------------------------------------------------------------
(* The sequential test.  With p0 = 0.45 and p1 = 0.55 a win and a loss weigh the  *)
(* same, so the log-likelihood ratio is the net number of wins and the two        *)
(* thresholds are a net of +-bound (15 for alpha = beta = 0.05).                  *)

Tally(prefs, n) ==
  [wins   |-> Cardinality({i \in 1..n : prefs[i] = "WIN"}),
   losses |-> Cardinality({i \in 1..n : prefs[i] = "LOSS"}),
   ties   |-> Cardinality({i \in 1..n : prefs[i] = "TIE"})]

Net(prefs, n) == Tally(prefs, n).wins - Tally(prefs, n).losses

Crossed(prefs, n, bound) == Net(prefs, n) >= bound \/ Net(prefs, n) <= -bound

\* Samples consumed: up to the first crossing, or all of them.
Used(prefs, bound) ==
  IF \E n \in 1..Len(prefs) : Crossed(prefs, n, bound)
  THEN CHOOSE n \in 1..Len(prefs) : /\ Crossed(prefs, n, bound)
                                    /\ \A k \in 1..(n - 1) : ~Crossed(prefs, k, bound)
  ELSE Len(prefs)

\* Mutant of SprtEvaluate: the loop's own decision is returned.
SprtUndecided(prefs, bound) ==
  LET net == Net(prefs, Used(prefs, bound))
  IN  IF net >= bound THEN "ALLOW" ELSE IF net <= -bound THEN "BLOCK" ELSE "CONTINUE"

\* sprt_evaluate, of all the samples or one at a time.
SprtEvaluate(prefs, bound) ==
  LET net == Net(prefs, Used(prefs, bound))
  IN  IF net >= bound THEN "ALLOW" ELSE IF net <= -bound THEN "BLOCK" ELSE "INCONCLUSIVE"

\* sprt_stream: at the horizon the interval decides, ties counting one half.
SprtStream(prefs, bound, cfg) ==
  LET n == Used(prefs, bound)
      h == TwiceWins(Tally(prefs, n), "halve")
  IN  IF SprtEvaluate(prefs, bound) # "INCONCLUSIVE" THEN SprtEvaluate(prefs, bound)
      ELSE IF LowAtLeast(h, n, cfg) THEN "ALLOW"
      ELSE IF HighBelow(h, n, cfg) THEN "BLOCK"
      ELSE "INCONCLUSIVE"
=============================================================================
