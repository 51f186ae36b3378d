---------------------------- MODULE RoutingTables ----------------------------
(***************************************************************************)
(* The data of one project's routing: deployments and their statuses, a    *)
(* routing table with its weighted rules, and the arithmetic by which      *)
(* rollout.set_canary derives a table from the live one.                   *)
(***************************************************************************)
EXTENDS Integers, FiniteSets, Functions

CONSTANTS Deps,      \* deployments of the project (controlplane.deployments)
          NoTable,   \* before the first routing table is installed
          PushStatus \* the statuses webhook.handle_push writes, whatever it finds

Full == 10000        \* basis points: the whole of the live traffic

\* One routing table.  A deployment without a rule has weight 0 and is not a
\* shadow target; the CHECK on weight bounds every rule.
Table == [weight : [Deps -> 0..Full], shadow : SUBSET Deps]

Status == {"queued", "building", "ready", "active", "superseded", "failed", "rolled_back"}

ASSUME DepsAssumption == Deps # {} /\ IsFiniteSet(Deps)
ASSUME PushStatusAssumption == PushStatus \subseteq {"queued", "building", "ready"}
ASSUME NoTableAssumption == NoTable \notin Table

FullTo(d) == [weight |-> [e \in Deps |-> IF e = d THEN Full ELSE 0], shadow |-> {}]

-----------------------------------------------------------------------------
\* Python's round() of num/den: to nearest, a tie to the even neighbour.
Round(num, den) ==
  LET q == num \div den
      r == num % den
  IN  IF 2 * r < den \/ (2 * r = den /\ q % 2 = 0) THEN q ELSE q + 1

\* A canary of pct thousandths of a percent, in basis points; never a 100% rule.
Bps(pct) == LET r == Round(pct, 10) IN IF r < Full THEN r ELSE Full - 1

\* The arms that keep traffic when d becomes a canary of table t.
Primaries(t, d) == {e \in Deps \ {d} : t.weight[e] > 0}

\* _split_primaries: each arm's rounded share of the budget.
Share(t, prim, budget) ==
  LET total == SumFunctionOnSet(t.weight, prim)
  IN  [e \in prim |-> Round(budget * t.weight[e], total)]

\* Rules are read ORDER BY weight DESC and max() takes the first largest, so the
\* rounding drift goes to a heaviest arm; which one among equals is not determined.
Heaviest(t, prim) == {e \in prim : \A f \in prim : t.weight[f] <= t.weight[e]}

\* Mutant of CanaryRules: the rounding drift is not given to any arm.
CanaryWithoutDrift(t, d, bps) ==
  LET prim  == Primaries(t, d)
      share == Share(t, prim, Full - bps)
  IN  { [weight |-> [e \in Deps |-> IF e = d THEN bps ELSE IF e \in prim THEN share[e] ELSE 0],
         shadow |-> t.shadow] }

\* The rules set_canary may hand to install_weighted for canary d at bps.
CanaryRules(t, d, bps) ==
  LET prim  == Primaries(t, d)
      share == Share(t, prim, Full - bps)
      drift == Full - bps - SumFunctionOnSet(share, prim)
  IN  { [weight |-> [e \in Deps |-> IF e = d THEN bps
                                    ELSE IF e = big THEN share[e] + drift
                                    ELSE IF e \in prim THEN share[e]
                                    ELSE 0],
         shadow |-> t.shadow] : big \in Heaviest(t, prim) }
=============================================================================
