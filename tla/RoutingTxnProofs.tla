--------------------------- MODULE RoutingTxnProofs ---------------------------
(***************************************************************************)
(* The routing transaction for any number of connections, deployments and  *)
(* routing changes: the arithmetic of weighted tables (what a sum over a   *)
(* set of arms is, and that set_canary shares out exactly the whole        *)
(* traffic), the inductive invariant IInv, and that the statements         *)
(* implement AtomicRouting.                                                *)
(***************************************************************************)
EXTENDS RoutingTxn, FiniteSetTheorems, WellFoundedInduction, SequenceTheorems, TLAPS

(* Every non-empty set of finite sets has a member without a smaller one in it: *)
(* the form in which induction over finite sets is used below.                  *)
LEMMA LeastSubset ==
  ASSUME NEW S, IsFiniteSet(S), NEW Bad \in SUBSET (SUBSET S), Bad # {}
  PROVE  \E T \in Bad : \A U \in Bad : U \subseteq T => U = T
<1>1. FiniteSubsetsOf(S) = SUBSET S
  BY FS_FiniteSubsetsOfFinite, Zenon
<1>2. IsWellFoundedOn(StrictSubsetOrdering(S), SUBSET S)
  BY <1>1, FS_StrictSubsetOrderingWellFounded
<1>3. PICK T \in Bad : \A U \in Bad : <<U, T>> \notin StrictSubsetOrdering(S)
  BY <1>2, WFMin, Zenon
<1>4. \A U \in Bad : <<U, T>> \in (SUBSET S) \X (SUBSET S)
  BY <1>3
<1>5. \A U \in Bad : ~(U \subseteq T /\ U # T)
  BY <1>3, <1>4, Zenon DEF StrictSubsetOrdering
<1> QED BY <1>5

-----------------------------------------------------------------------------
(* Sums, from their definition in Folds. *)

Head1(s) == CHOOSE x \in s : TRUE

\* The function by which a sum over S is defined.
SumIter(f, S, g) ==
  g = [s \in SUBSET S |-> IF s = {} THEN 0 ELSE f[Head1(s)] + g[s \ {Head1(s)}]]

LEMMA SumIs ==
  ASSUME NEW f, NEW S
  PROVE  SumFunctionOnSet(f, S) = (CHOOSE g : SumIter(f, S, g))[S]
  BY DEF SumFunctionOnSet, FoldFunctionOnSet, MapThenFoldSet, SumIter, Head1

LEMMA HeadIn == \A s : s # {} => Head1(s) \in s
  BY DEF Head1

\* The functions of two sets agree where both are defined.
LEMMA IterAgree ==
  ASSUME NEW f, NEW S, IsFiniteSet(S), NEW g, NEW T, NEW h, NEW U,
         SumIter(f, T, g), SumIter(f, U, h), S \subseteq T, S \subseteq U
  PROVE  g[S] = h[S]
<1> DEFINE Bad == {s \in SUBSET S : g[s] # h[s]}
<1>1. SUFFICES ASSUME Bad # {} PROVE FALSE
  BY <1>1
<1>2. PICK s \in Bad : \A u \in Bad : u \subseteq s => u = s
  <2>1. Bad \in SUBSET (SUBSET S)
    OBVIOUS
  <2> HIDE DEF Bad
  <2> QED BY <1>1, <2>1, LeastSubset
<1>3. s \in SUBSET S /\ s \in SUBSET T /\ s \in SUBSET U /\ g[s] # h[s]
  BY <1>2
<1>4. /\ g[s] = IF s = {} THEN 0 ELSE f[Head1(s)] + g[s \ {Head1(s)}]
      /\ h[s] = IF s = {} THEN 0 ELSE f[Head1(s)] + h[s \ {Head1(s)}]
  BY <1>3 DEF SumIter
<1>5. s # {}
  BY <1>3, <1>4
<1>6. s \ {Head1(s)} \in SUBSET S /\ s \ {Head1(s)} # s
  BY <1>3, <1>5, HeadIn
<1>7. g[s \ {Head1(s)}] = h[s \ {Head1(s)}]
  BY <1>2, <1>6
<1> QED BY <1>3, <1>4, <1>7

\* Over a finite set there is such a function.
LEMMA IterExists ==
  ASSUME NEW f, NEW S, IsFiniteSet(S)
  PROVE  \E g : SumIter(f, S, g)
<1> DEFINE Bad == {T \in SUBSET S : ~\E g : SumIter(f, T, g)}
<1>1. SUFFICES ASSUME Bad # {} PROVE FALSE
  BY <1>1
<1>2. PICK T \in Bad : \A U \in Bad : U \subseteq T => U = T
  <2>1. Bad \in SUBSET (SUBSET S)
    OBVIOUS
  <2> HIDE DEF Bad
  <2> QED BY <1>1, <2>1, LeastSubset
<1> DEFINE It(u) == CHOOSE h : SumIter(f, u, h)
           g == [s \in SUBSET T |-> IF s = {} THEN 0
                                    ELSE f[Head1(s)] + It(s \ {Head1(s)})[s \ {Head1(s)}]]
<1>3. ASSUME NEW u \in SUBSET T, u # T
      PROVE  SumIter(f, u, It(u))
  <2>1. u \notin Bad /\ u \in SUBSET S
    BY <1>2, <1>3
  <2> QED BY <2>1
<1>4. ASSUME NEW u \in SUBSET T, u # T
      PROVE  g[u] = It(u)[u]
  <2>1. It(u)[u] = IF u = {} THEN 0 ELSE f[Head1(u)] + It(u)[u \ {Head1(u)}]
    <3>1. PICK h : h = It(u) /\ SumIter(f, u, h)
      BY <1>3, <1>4
    <3> QED BY <3>1 DEF SumIter
  <2>2. CASE u = {}
    BY <2>1, <2>2
  <2>3. CASE u # {}
    <3> DEFINE v == u \ {Head1(u)}
    <3>1. v \in SUBSET T /\ v \subseteq u /\ v # T /\ IsFiniteSet(v)
      BY <1>2, <2>3, HeadIn, FS_Subset
    <3>2. SumIter(f, u, It(u)) /\ SumIter(f, v, It(v))
      BY <1>3, <1>4, <3>1
    <3> HIDE DEF It, v
    <3>3. It(u)[v] = It(v)[v]
      BY <3>1, <3>2, IterAgree
    <3> QED BY <2>1, <2>3, <3>3 DEF v
  <2> QED BY <2>2, <2>3
<1>5. \A s \in SUBSET T : s # {} =>
        s \ {Head1(s)} \in SUBSET T /\ s \ {Head1(s)} # T
  BY HeadIn
<1>6. SumIter(f, T, g)
  <2>1. PICK k : k = g
    OBVIOUS
  <2>2. \A u \in SUBSET T : u # T => k[u] = It(u)[u]
    BY <1>4, <2>1
  <2>3. k = [s \in SUBSET T |-> IF s = {} THEN 0
                               ELSE f[Head1(s)] + It(s \ {Head1(s)})[s \ {Head1(s)}]]
    BY <2>1
  <2> HIDE DEF g, It
  <2>4. \A s \in SUBSET T : k[s] = IF s = {} THEN 0 ELSE f[Head1(s)] + k[s \ {Head1(s)}]
    BY <1>5, <2>2, <2>3
  <2>5. k = [s \in SUBSET T |-> IF s = {} THEN 0 ELSE f[Head1(s)] + k[s \ {Head1(s)}]]
    BY <2>3, <2>4
  <2> QED BY <2>1, <2>5 DEF SumIter
<1> QED BY <1>2, <1>6

LEMMA SumEmpty == ASSUME NEW f PROVE SumFunctionOnSet(f, {}) = 0
<1>1. \E g : SumIter(f, {}, g)
  BY IterExists, FS_EmptySet
<1>2. SumIter(f, {}, CHOOSE g : SumIter(f, {}, g))
  BY <1>1
<1> QED BY <1>2, SumIs DEF SumIter

\* The definition, unfolded once.
LEMMA SumStep ==
  ASSUME NEW f, NEW S, IsFiniteSet(S), S # {}
  PROVE  SumFunctionOnSet(f, S) = f[Head1(S)] + SumFunctionOnSet(f, S \ {Head1(S)})
<1> DEFINE g == CHOOSE h : SumIter(f, S, h)
           U == S \ {Head1(S)}
           h == CHOOSE k : SumIter(f, U, k)
<1>1. IsFiniteSet(U)
  BY FS_Subset
<1>2. SumIter(f, S, g) /\ SumIter(f, U, h)
  BY <1>1, IterExists
<1>3. SumFunctionOnSet(f, S) = g[S] /\ SumFunctionOnSet(f, U) = h[U]
  BY SumIs
<1>4. g[S] = f[Head1(S)] + g[U]
  BY <1>2 DEF SumIter
<1> HIDE DEF g, h
<1>5. g[U] = h[U]
  BY <1>1, <1>2, IterAgree
<1> QED BY <1>3, <1>4, <1>5

\* A sum of integers is an integer, of naturals a natural.
LEMMA SumType ==
  ASSUME NEW N \in {Nat, Int}, NEW f, NEW S, IsFiniteSet(S), \A x \in S : f[x] \in N
  PROVE  SumFunctionOnSet(f, S) \in N
<1> DEFINE Bad == {T \in SUBSET S : SumFunctionOnSet(f, T) \notin N}
<1>1. SUFFICES ASSUME Bad # {} PROVE FALSE
  BY <1>1
<1>2. PICK T \in Bad : \A U \in Bad : U \subseteq T => U = T
  <2>1. Bad \in SUBSET (SUBSET S)
    OBVIOUS
  <2> HIDE DEF Bad
  <2> QED BY <1>1, <2>1, LeastSubset
<1>3. IsFiniteSet(T) /\ T \in SUBSET S
  BY <1>2, FS_Subset
<1>4. T # {}
  <2>1. 0 \in N
    OBVIOUS
  <2> QED BY <1>2, <2>1, SumEmpty
<1>5. /\ f[Head1(T)] \in N
      /\ SumFunctionOnSet(f, T \ {Head1(T)}) \in N
  BY <1>2, <1>4, HeadIn
<1>6. SumFunctionOnSet(f, T) = f[Head1(T)] + SumFunctionOnSet(f, T \ {Head1(T)})
  BY <1>3, <1>4, SumStep
<1>7. SumFunctionOnSet(f, T) \in N
  <2>1. CASE N = Nat
    BY <1>5, <1>6, <2>1
  <2>2. CASE N = Int
    BY <1>5, <1>6, <2>2
  <2> QED BY <2>1, <2>2
<1> QED BY <1>2, <1>7

\* Any element may be taken out first.
LEMMA SumRemove ==
  ASSUME NEW f, NEW S, IsFiniteSet(S), \A x \in S : f[x] \in Int, NEW a \in S
  PROVE  SumFunctionOnSet(f, S) = f[a] + SumFunctionOnSet(f, S \ {a})
<1> DEFINE Bad == {T \in SUBSET S : \E x \in T :
                     SumFunctionOnSet(f, T) # f[x] + SumFunctionOnSet(f, T \ {x})}
<1>1. SUFFICES ASSUME Bad # {} PROVE FALSE
  BY <1>1
<1>2. PICK T \in Bad : \A U \in Bad : U \subseteq T => U = T
  <2>1. Bad \in SUBSET (SUBSET S)
    OBVIOUS
  <2> HIDE DEF Bad
  <2> QED BY <1>1, <2>1, LeastSubset
<1>3. PICK x \in T : SumFunctionOnSet(f, T) # f[x] + SumFunctionOnSet(f, T \ {x})
  BY <1>2
<1> DEFINE y == Head1(T)
<1>4. IsFiniteSet(T) /\ T \in SUBSET S /\ y \in T
  BY <1>2, <1>3, FS_Subset, HeadIn
<1>5. SumFunctionOnSet(f, T) = f[y] + SumFunctionOnSet(f, T \ {y})
  BY <1>3, <1>4, SumStep
<1> HIDE DEF y
<1>6. x # y
  BY <1>3, <1>5
<1>7. \A U \in SUBSET T : U # T =>
        \A z \in U : SumFunctionOnSet(f, U) = f[z] + SumFunctionOnSet(f, U \ {z})
  BY <1>2, <1>4
<1>8. SumFunctionOnSet(f, T \ {y}) = f[x] + SumFunctionOnSet(f, (T \ {y}) \ {x})
  BY <1>4, <1>6, <1>7
<1>9. SumFunctionOnSet(f, T \ {x}) = f[y] + SumFunctionOnSet(f, (T \ {x}) \ {y})
  BY <1>4, <1>6, <1>7
<1>10. (T \ {x}) \ {y} = (T \ {y}) \ {x}
  OBVIOUS
<1>11. SumFunctionOnSet(f, (T \ {y}) \ {x}) \in Int
  <2>1. IsFiniteSet((T \ {y}) \ {x})
    BY <1>4, FS_Subset
  <2> QED BY <1>4, <2>1, SumType
<1>12. f[x] \in Int /\ f[y] \in Int
  BY <1>4
<1> QED BY <1>3, <1>5, <1>8, <1>9, <1>10, <1>11, <1>12

\* A sum depends on the elements it sums.
LEMMA SumAgree ==
  ASSUME NEW f, NEW g, NEW S, IsFiniteSet(S), \A x \in S : f[x] = g[x]
  PROVE  SumFunctionOnSet(f, S) = SumFunctionOnSet(g, S)
<1> DEFINE Bad == {T \in SUBSET S : SumFunctionOnSet(f, T) # SumFunctionOnSet(g, T)}
<1>1. SUFFICES ASSUME Bad # {} PROVE FALSE
  BY <1>1
<1>2. PICK T \in Bad : \A U \in Bad : U \subseteq T => U = T
  <2>1. Bad \in SUBSET (SUBSET S)
    OBVIOUS
  <2> HIDE DEF Bad
  <2> QED BY <1>1, <2>1, LeastSubset
<1>3. IsFiniteSet(T) /\ T # {}
  BY <1>2, FS_Subset, SumEmpty
<1>4. /\ SumFunctionOnSet(f, T) = f[Head1(T)] + SumFunctionOnSet(f, T \ {Head1(T)})
      /\ SumFunctionOnSet(g, T) = g[Head1(T)] + SumFunctionOnSet(g, T \ {Head1(T)})
  BY <1>3, SumStep
<1>5. /\ SumFunctionOnSet(f, T \ {Head1(T)}) = SumFunctionOnSet(g, T \ {Head1(T)})
      /\ f[Head1(T)] = g[Head1(T)]
  BY <1>2, <1>3, HeadIn
<1>6. SumFunctionOnSet(f, T) = SumFunctionOnSet(g, T)
  BY <1>4, <1>5
<1> QED BY <1>2, <1>6

\* Elements that count nothing may be left out.
LEMMA SumSupport ==
  ASSUME NEW f, NEW S, IsFiniteSet(S), \A x \in S : f[x] \in Int,
         NEW R \in SUBSET S, \A x \in S \ R : f[x] = 0
  PROVE  SumFunctionOnSet(f, S) = SumFunctionOnSet(f, R)
<1> DEFINE Bad == {T \in SUBSET S : R \subseteq T /\ SumFunctionOnSet(f, T) # SumFunctionOnSet(f, R)}
<1>1. SUFFICES ASSUME Bad # {} PROVE FALSE
  BY <1>1
<1>2. PICK T \in Bad : \A U \in Bad : U \subseteq T => U = T
  <2>1. Bad \in SUBSET (SUBSET S)
    OBVIOUS
  <2> HIDE DEF Bad
  <2> QED BY <1>1, <2>1, LeastSubset
<1>3. PICK x \in T : x \notin R
  BY <1>2
<1>4. IsFiniteSet(T) /\ T \in SUBSET S /\ f[x] = 0
  BY <1>2, <1>3, FS_Subset
<1>5. SumFunctionOnSet(f, T) = f[x] + SumFunctionOnSet(f, T \ {x})
  BY <1>4, SumRemove
<1>6. SumFunctionOnSet(f, T \ {x}) = SumFunctionOnSet(f, R)
  BY <1>2, <1>3
<1>7. SumFunctionOnSet(f, R) \in Int
  BY FS_Subset, SumType
<1> QED BY <1>2, <1>4, <1>5, <1>6, <1>7

-----------------------------------------------------------------------------
(* Canaries. *)

\* A sum of naturals is at least each of them.
LEMMA SumAtLeast ==
  ASSUME NEW f, NEW S, IsFiniteSet(S), \A x \in S : f[x] \in Nat, NEW a \in S
  PROVE  SumFunctionOnSet(f, S) \in Nat /\ SumFunctionOnSet(f, S) >= f[a]
<1>1. IsFiniteSet(S \ {a})
  BY FS_Subset
<1>2. SumFunctionOnSet(f, S) \in Nat /\ SumFunctionOnSet(f, S \ {a}) \in Nat
  BY <1>1, SumType
<1>3. SumFunctionOnSet(f, S) = f[a] + SumFunctionOnSet(f, S \ {a})
  BY SumRemove
<1> QED BY <1>2, <1>3

LEMMA RoundType == \A num \in Int, den \in Nat \ {0} : Round(num, den) \in Int
  BY DEF Round

LEMMA SumFullTo == \A d \in Deps : SumFunctionOnSet(FullTo(d).weight, Deps) = Full
<1> SUFFICES ASSUME NEW d \in Deps PROVE SumFunctionOnSet(FullTo(d).weight, Deps) = Full
  OBVIOUS
<1> DEFINE w == FullTo(d).weight
<1>1. \A e \in Deps : w[e] = IF e = d THEN Full ELSE 0
  BY DEF FullTo
<1> HIDE DEF w
<1>2. IsFiniteSet(Deps) /\ IsFiniteSet({d})
  BY DepsAssumption, FS_Singleton
<1>3. \A e \in Deps : w[e] \in Int
  BY <1>1 DEF Full
<1>4. SumFunctionOnSet(w, Deps) = SumFunctionOnSet(w, {d})
  BY <1>1, <1>2, <1>3, SumSupport
<1>5. SumFunctionOnSet(w, {d}) = w[d] + SumFunctionOnSet(w, {d} \ {d})
  BY <1>2, <1>3, SumRemove
<1>6. SumFunctionOnSet(w, {d} \ {d}) = 0
  BY SumEmpty
<1> QED BY <1>1, <1>4, <1>5, <1>6 DEF w, Full

\* set_canary shares out the whole traffic: the canary has bps, and what rounding the other
\* arms' shares leaves over or takes too much goes to the heaviest, for any number of arms.
THEOREM CanarySharesOut ==
  ASSUME NEW t \in Table, NEW d \in Deps, NEW bps \in Int, NEW rules \in CanaryRules(t, d, bps)
  PROVE  SumFunctionOnSet(rules.weight, Deps) = Full
<1> DEFINE prim == Primaries(t, d)
           share == Share(t, prim, Full - bps)
           drift == Full - bps - SumFunctionOnSet(share, prim)
           total == SumFunctionOnSet(t.weight, prim)
<1>1. PICK big \in Heaviest(t, prim) :
        rules.weight = [e \in Deps |-> IF e = d THEN bps
                                       ELSE IF e = big THEN share[e] + drift
                                       ELSE IF e \in prim THEN share[e]
                                       ELSE 0]
  BY DEF CanaryRules
<1>2. prim \subseteq Deps /\ d \notin prim /\ big \in prim
  BY <1>1 DEF Primaries, Heaviest
<1>3. IsFiniteSet(Deps) /\ IsFiniteSet(prim) /\ IsFiniteSet(prim \ {big})
  BY <1>2, DepsAssumption, FS_Subset
<1>4. \A e \in prim : t.weight[e] \in Nat /\ t.weight[e] > 0
  BY DEF Primaries, Table
<1>5. total \in Nat \ {0}
  <2>1. total \in Nat /\ total >= t.weight[big]
    BY <1>2, <1>3, <1>4, SumAtLeast
  <2> QED BY <1>2, <1>4, <2>1
<1>6. \A e \in prim : share[e] \in Int
  <2> SUFFICES ASSUME NEW e \in prim PROVE share[e] \in Int
    OBVIOUS
  <2>1. share[e] = Round((Full - bps) * t.weight[e], total)
    BY DEF Share
  <2>2. (Full - bps) * t.weight[e] \in Int
    BY <1>4 DEF Full
  <2> HIDE DEF total, share
  <2> QED BY <1>5, <2>1, <2>2, RoundType
<1> HIDE DEF prim, share
<1>7. SumFunctionOnSet(share, prim) \in Int
  BY <1>3, <1>6, SumType
<1>8. drift \in Int
  BY <1>7 DEF Full
<1> DEFINE w == rules.weight
<1>9. /\ w[d] = bps /\ w[big] = share[big] + drift
      /\ \A e \in prim \ {big} : w[e] = share[e]
      /\ \A e \in Deps \ (prim \cup {d}) : w[e] = 0
  BY <1>1, <1>2
<1> HIDE DEF w
<1>10. \A e \in Deps : w[e] \in Int
  BY <1>2, <1>6, <1>8, <1>9
<1> DEFINE arms == prim \cup {d}
<1>11. IsFiniteSet(arms) /\ arms \subseteq Deps /\ d \in arms /\ arms \ {d} = prim
  BY <1>2, <1>3, FS_AddElement
<1>12. SumFunctionOnSet(w, Deps) = SumFunctionOnSet(w, arms)
  BY <1>3, <1>9, <1>10, <1>11, SumSupport
<1> HIDE DEF arms
<1>13. SumFunctionOnSet(w, arms) = bps + SumFunctionOnSet(w, prim)
  BY <1>9, <1>10, <1>11, SumRemove
<1>14. SumFunctionOnSet(w, prim) = share[big] + drift + SumFunctionOnSet(w, prim \ {big})
  BY <1>2, <1>3, <1>9, <1>10, SumRemove
<1>15. SumFunctionOnSet(w, prim \ {big}) = SumFunctionOnSet(share, prim \ {big})
  BY <1>3, <1>9, SumAgree
<1>16. SumFunctionOnSet(share, prim) = share[big] + SumFunctionOnSet(share, prim \ {big})
  BY <1>2, <1>3, <1>6, SumRemove
<1>17. SumFunctionOnSet(share, prim \ {big}) \in Int /\ share[big] \in Int
  BY <1>2, <1>3, <1>6, SumType
<1>18. SumFunctionOnSet(w, Deps) = Full
  BY <1>7, <1>12, <1>13, <1>14, <1>15, <1>16, <1>17 DEF Full
<1> QED BY <1>18 DEF w

-----------------------------------------------------------------------------
(* The transaction. *)

\* The empty private copy: no deployment row written.
LEMMA NoSetsType == /\ NoSets \in [Deps -> Status \cup {Keep}]
                    /\ \A d \in Deps : NoSets[d] = Keep
  BY DEF NoSets

LEMMA FullToType == \A d \in Deps : FullTo(d) \in Table
  BY DEF FullTo, Table, Full

\* IInv holds initially.
LEMMA InitInv == Init => IInv
<1> SUFFICES ASSUME Init PROVE IInv
  OBVIOUS
<1>1. TypeOK
  BY NoSetsType, DepsAssumption, NoConnAssumption, EmptySeq DEF Init, TypeOK, Status, Ops
<1>2. LockDiscipline
  BY NoConnAssumption DEF Init, LockDiscipline, Locked, Inserted
<1>3. NewestIsLive /\ PrivateCopyCurrent /\ RowsWritten
  BY DEF Init, NewestIsLive, PrivateCopyCurrent, RowsWritten, Inserted
<1> QED BY <1>1, <1>2, <1>3 DEF IInv

\* Ending a transaction without a commit: a crash, a closed connection or a
\* violated constraint.
LEMMA RollBackInv == ASSUME IInv, NEW c \in Conns, RollBack(c) PROVE IInv'
<1> USE DEF IInv, RollBack, EndTransaction, committed
<1>1. TypeOK'
  BY NoSetsType, DepsAssumption DEF TypeOK, Ops
<1>2. LockDiscipline'
  BY NoConnAssumption DEF TypeOK, LockDiscipline, Locked, Inserted
<1>3. NewestIsLive'
  BY DEF NewestIsLive
<1>4. PrivateCopyCurrent'
  BY DEF TypeOK, PrivateCopyCurrent, Inserted
<1>5. RowsWritten'
  BY DEF TypeOK, RowsWritten
<1> QED BY <1>1, <1>2, <1>3, <1>4, <1>5

LEMMA BeginInv ==
  ASSUME IInv, NEW c \in Conns, NEW o \in Ops, NEW d \in Deps, NEW rules,
         o # "canary" => rules = FullTo(d), Begin(c, o, d, rules)
  PROVE  IInv'
<1> USE DEF IInv, Begin, committed
<1>1. TypeOK'
  BY DEF TypeOK
<1>2. LockDiscipline'
  BY DEF TypeOK, LockDiscipline, Locked, Inserted
<1>3. NewestIsLive'
  BY DEF NewestIsLive
<1>4. PrivateCopyCurrent'
  BY DEF TypeOK, PrivateCopyCurrent, Inserted
<1>5. RowsWritten'
  BY DEF TypeOK, RowsWritten
<1> QED BY <1>1, <1>2, <1>3, <1>4, <1>5

LEMMA AdvisoryLockInv == ASSUME IInv, NEW c \in Conns, AdvisoryLock(c) PROVE IInv'
<1> USE DEF IInv, AdvisoryLock, committed, private
<1>1. TypeOK'
  BY DEF TypeOK, Locked
<1>2. LockDiscipline'
  BY NoConnAssumption DEF TypeOK, LockDiscipline, Locked, Inserted
<1>3. NewestIsLive'
  BY DEF NewestIsLive
<1>4. PrivateCopyCurrent'
  BY DEF TypeOK, PrivateCopyCurrent, Inserted
<1>5. RowsWritten'
  BY DEF TypeOK, RowsWritten
<1> QED BY <1>1, <1>2, <1>3, <1>4, <1>5

LEMMA ReadVersionInv == ASSUME IInv, NEW c \in Conns, ReadVersion(c) PROVE IInv'
<1> USE DEF IInv, ReadVersion, committed
<1>1. TypeOK'
  BY LenProperties DEF TypeOK, Locked
<1>2. LockDiscipline'
  BY DEF TypeOK, LockDiscipline, Locked, Inserted
<1>3. NewestIsLive'
  BY DEF NewestIsLive
<1>4. PrivateCopyCurrent'
  BY DEF TypeOK, PrivateCopyCurrent, Inserted
<1>5. RowsWritten'
  BY DEF TypeOK, RowsWritten
<1> QED BY <1>1, <1>2, <1>3, <1>4, <1>5

LEMMA DemoteTableInv == ASSUME IInv, NEW c \in Conns, DemoteTable(c) PROVE IInv'
<1> USE DEF IInv, DemoteTable, committed
<1>1. TypeOK'
  BY LenProperties DEF TypeOK, Locked
<1>2. LockDiscipline'
  BY DEF TypeOK, LockDiscipline, Locked, Inserted
<1>3. NewestIsLive'
  BY DEF NewestIsLive
<1>4. PrivateCopyCurrent'
  BY DEF TypeOK, PrivateCopyCurrent, Inserted
<1>5. RowsWritten'
  BY DEF TypeOK, RowsWritten
<1> QED BY <1>1, <1>2, <1>3, <1>4, <1>5

LEMMA InsertTableInv == ASSUME IInv, NEW c \in Conns, InsertTable(c) PROVE IInv'
<1>1. CASE ~ (Unique(c) /\ plan[c] \in Table)
  BY <1>1, RollBackInv DEF InsertTable
<1>2. CASE Unique(c) /\ plan[c] \in Table
  <2> USE <1>2 DEF IInv, InsertTable, committed, private
  <2>1. TypeOK'
    BY DEF TypeOK, Locked, Inserted
  <2>2. LockDiscipline'
    BY DEF TypeOK, LockDiscipline, Locked, Inserted
  <2>3. NewestIsLive'
    BY DEF NewestIsLive
  <2>4. PrivateCopyCurrent'
    BY DEF TypeOK, PrivateCopyCurrent, Inserted
  <2>5. RowsWritten'
    BY NoSetsType DEF TypeOK, RowsWritten
  <2> QED BY <2>1, <2>2, <2>3, <2>4, <2>5
<1> QED BY <1>1, <1>2

LEMMA DemoteDepsInv == ASSUME IInv, NEW c \in Conns, DemoteDeps(c) PROVE IInv'
<1> USE DEF IInv, DemoteDeps, committed
<1>1. TypeOK'
  BY DEF TypeOK, Status, Locked, Inserted
<1>2. LockDiscipline'
  BY DEF TypeOK, LockDiscipline, Locked, Inserted
<1>3. NewestIsLive'
  BY DEF NewestIsLive
<1>4. PrivateCopyCurrent'
  BY DEF TypeOK, PrivateCopyCurrent, Inserted
<1>5. RowsWritten'
  <2>1. pc[c] = "demote_deps" /\ sets[c] = NoSets /\ dep[c] \in Deps
    BY DEF TypeOK, RowsWritten
  <2>2. /\ pc'[c] = "activate" /\ op' = op /\ dep' = dep /\ status' = status
        /\ \A e \in Deps \ {dep[c]} :
             sets'[c][e] = IF status[e] = "active" THEN "rolled_back" ELSE NoSets[e]
    BY <2>1 DEF TypeOK
  <2>3. op[c] # "canary"
    BY <2>1 DEF RowsWritten
  <2>4. \A o \in Conns \ {c} : pc'[o] = pc[o] /\ sets'[o] = sets[o]
    BY DEF TypeOK
  <2> QED BY <2>1, <2>2, <2>3, <2>4, NoSetsType DEF RowsWritten
<1> QED BY <1>1, <1>2, <1>3, <1>4, <1>5

LEMMA ActivateInv == ASSUME IInv, NEW c \in Conns, Activate(c) PROVE IInv'
<1> USE DEF IInv, Activate, committed
<1>1. TypeOK'
  BY DEF TypeOK, Status, Locked, Inserted
<1>2. LockDiscipline'
  BY DEF TypeOK, LockDiscipline, Locked, Inserted
<1>3. NewestIsLive'
  BY DEF NewestIsLive
<1>4. PrivateCopyCurrent'
  BY DEF TypeOK, PrivateCopyCurrent, Inserted
<1>5. RowsWritten'
  BY DEF TypeOK, RowsWritten
<1> QED BY <1>1, <1>2, <1>3, <1>4, <1>5

\* Only the holder of the lock is past it.
LEMMA OneHolder ==
  ASSUME IInv, NEW c \in Conns, pc[c] \in Locked
  PROVE  \A o \in Conns \ {c} : pc[o] \notin Locked
BY DEF IInv, LockDiscipline

LEMMA CommitInv == ASSUME IInv, NEW c \in Conns, Commit(c) PROVE IInv'
<1> USE DEF IInv, Commit, EndTransaction
<1>0. /\ pc[c] \in Locked /\ pc[c] \in Inserted
      /\ \A o \in Conns \ {c} : pc[o] \notin Locked
  BY OneHolder DEF Locked, Inserted
<1>1. /\ plan[c] \in Table
      /\ ver[c] = Len(tables) + 1
      /\ live \ demoted[c] = {}
  BY <1>0 DEF PrivateCopyCurrent
<1>2. /\ tables' \in Seq(Table)
      /\ Len(tables') = Len(tables) + 1
      /\ Len(tables) \in Nat
      /\ live' = {Len(tables')}
  BY <1>1, LenProperties DEF TypeOK
<1>3. TypeOK'
  <2>1. status' \in [Deps -> Status]
    BY DEF TypeOK
  <2> QED BY <1>2, <2>1, NoSetsType, DepsAssumption DEF TypeOK, Ops
<1>4. LockDiscipline'
  BY <1>0, NoConnAssumption DEF TypeOK, LockDiscipline, Locked, Inserted
<1>5. NewestIsLive'
  BY <1>2, EmptySeq DEF NewestIsLive
<1>6. PrivateCopyCurrent'
  BY <1>0 DEF TypeOK, PrivateCopyCurrent, Locked, Inserted
<1>7. RowsWritten'
  BY <1>0 DEF TypeOK, RowsWritten, Locked, Inserted
<1> QED BY <1>3, <1>4, <1>5, <1>6, <1>7

LEMMA ReportPromoteInv == ASSUME IInv, NEW c \in Conns, ReportPromote(c) PROVE IInv'
<1> USE DEF IInv, ReportPromote, committed, private
<1>1. TypeOK'
  BY DEF TypeOK, Locked, Inserted
<1>2. LockDiscipline'
  BY DEF TypeOK, LockDiscipline, Locked, Inserted
<1>3. NewestIsLive'
  BY DEF NewestIsLive
<1>4. PrivateCopyCurrent'
  BY DEF TypeOK, PrivateCopyCurrent, Inserted
<1>5. RowsWritten'
  BY DEF TypeOK, RowsWritten
<1> QED BY <1>1, <1>2, <1>3, <1>4, <1>5

\* A push cannot write a row an open transaction has written, and never makes a
\* deployment active: what the holder wrote is not overtaken.
LEMMA PushInv == ASSUME IInv, NEW d \in Deps, Push(d) PROVE IInv'
<1> USE DEF IInv, Push, private
<1>1. TypeOK'
  BY PushStatusAssumption DEF TypeOK, Status
<1>2. LockDiscipline'
  BY DEF LockDiscipline
<1>3. NewestIsLive'
  BY DEF NewestIsLive
<1>4. PrivateCopyCurrent'
  BY DEF PrivateCopyCurrent
<1>5. RowsWritten'
  BY PushStatusAssumption DEF TypeOK, RowsWritten, Keep
<1> QED BY <1>1, <1>2, <1>3, <1>4, <1>5

LEMMA StutterInv == ASSUME IInv, UNCHANGED vars PROVE IInv'
BY DEF IInv, vars, committed, private, TypeOK, LockDiscipline, NewestIsLive,
       PrivateCopyCurrent, RowsWritten, NoSets

\* IInv is preserved by every step.
LEMMA StepInv == ASSUME IInv, [Next]_vars PROVE IInv'
<1>1. ASSUME NEW c \in Conns, NEW d \in Deps,
             BeginFlip(c, d) \/ BeginPromote(c, d) \/ BeginCanary(c, d)
      PROVE  IInv'
  BY <1>1, BeginInv DEF BeginFlip, BeginPromote, BeginCanary, Ops
<1>2. ASSUME NEW c \in Conns, AdvisoryLock(c) PROVE IInv'
  BY <1>2, AdvisoryLockInv
<1>3. ASSUME NEW c \in Conns, Statement(c) PROVE IInv'
  BY <1>3, ReadVersionInv, DemoteTableInv, InsertTableInv, DemoteDepsInv, ActivateInv,
     CommitInv, ReportPromoteInv, RollBackInv DEF Statement, ClosePromote
<1>4. ASSUME NEW c \in Conns, Crash(c) PROVE IInv'
  BY <1>4, RollBackInv DEF Crash
<1>5. ASSUME NEW d \in Deps, Push(d) PROVE IInv'
  BY <1>5, PushInv
<1>6. CASE UNCHANGED vars
  BY <1>6, StutterInv
<1> QED BY <1>1, <1>2, <1>3, <1>4, <1>5, <1>6 DEF Next

\* The inductive invariant, for every number of connections and deployments.
LEMMA Invariance == Spec => []IInv
<1>1. Init => IInv
  BY InitInv
<1>2. IInv /\ [Next]_vars => IInv'
  BY StepInv
<1> QED BY <1>1, <1>2, PTL DEF Spec

\* The variables of the routing transaction keep their types.
THEOREM TypeCorrect == Spec => []TypeOK
<1>1. IInv => TypeOK
  BY DEF IInv
<1> QED BY <1>1, Invariance, PTL

\* No INSERT of a routing table meets a UNIQUE violation, whoever else is writing:
\* the version was read, and the live row demoted, under the advisory lock.
THEOREM NoInsertCollides == Spec => []InsertNeverCollides
<1>1. IInv => InsertNeverCollides
  <2> SUFFICES ASSUME IInv, NEW c \in Conns, pc[c] = "insert" PROVE Unique(c)
    BY DEF InsertNeverCollides
  <2>1. ver[c] = Len(tables) + 1 /\ demoted[c] = live /\ Len(tables) \in Nat
    BY LenProperties DEF IInv, TypeOK, PrivateCopyCurrent
  <2> QED BY <2>1 DEF Unique
<1> QED BY <1>1, Invariance, PTL

-----------------------------------------------------------------------------
(* Weights. *)

SharesOut(t) == SumFunctionOnSet(t.weight, Deps) = Full

\* Whatever a connection is about to insert shares out the whole traffic.
PlansShareOut == \A c \in Conns : pc[c] # "idle" => SharesOut(plan[c])

LEMMA BeginSharesOut ==
  ASSUME IInv, NEW c \in Conns, NEW d \in Deps,
         BeginFlip(c, d) \/ BeginPromote(c, d) \/ BeginCanary(c, d)
  PROVE  \E o, rules : Begin(c, o, d, rules) /\ SharesOut(rules)
<1>1. CASE BeginFlip(c, d) \/ BeginPromote(c, d)
  BY <1>1, SumFullTo DEF BeginFlip, BeginPromote, SharesOut
<1>2. CASE BeginCanary(c, d)
  <2>1. PICK pct \in CanaryPcts : \E rules \in CanaryRules(LiveTable, d, Bps(pct)) :
                                    Begin(c, "canary", d, rules)
    BY <1>2 DEF BeginCanary
  <2>2. Bps(pct) \in Int
    <3>1. pct \in Int
      BY BoundAssumption
    <3>2. Round(pct, 10) \in Int
      BY <3>1, RoundType
    <3> QED BY <3>2 DEF Bps, Full
  <2>3. LiveTable \in Table
    <3>1. live # {} /\ LiveVersion \in 1..Len(tables)
      BY <1>2 DEF BeginCanary, IInv, TypeOK, LiveVersion
    <3>2. tables \in Seq(Table)
      BY DEF IInv, TypeOK
    <3>3. tables[LiveVersion] \in Table
      BY <3>1, <3>2, ElementOfSeq
    <3> QED BY <3>1, <3>3 DEF LiveTable
  <2> QED BY <2>1, <2>2, <2>3, CanarySharesOut DEF SharesOut
<1> QED BY <1>1, <1>2

LEMMA SharesOutStep ==
  ASSUME IInv, PlansShareOut, WeightsSumToFull, [Next]_vars
  PROVE  PlansShareOut' /\ WeightsSumToFull'
<1>1. ASSUME NEW c \in Conns, NEW d \in Deps,
             BeginFlip(c, d) \/ BeginPromote(c, d) \/ BeginCanary(c, d)
      PROVE  PlansShareOut' /\ WeightsSumToFull'
  <2>1. PICK o, rules : Begin(c, o, d, rules) /\ SharesOut(rules)
    BY <1>1, BeginSharesOut
  <2>2. /\ UNCHANGED tables /\ plan' = [plan EXCEPT ![c] = rules]
        /\ pc' = [pc EXCEPT ![c] = "lock"]
    BY <2>1 DEF Begin, committed
  <2>3. plan'[c] = rules /\ \A b \in Conns \ {c} : plan'[b] = plan[b] /\ pc'[b] = pc[b]
    BY <2>2 DEF IInv, TypeOK
  <2> QED BY <2>1, <2>2, <2>3 DEF PlansShareOut, WeightsSumToFull, SharesOut
<1>2. ASSUME NEW c \in Conns, RollBack(c)
      PROVE  PlansShareOut' /\ WeightsSumToFull'
  <2>1. /\ UNCHANGED tables /\ pc'[c] = "idle"
        /\ \A b \in Conns \ {c} : plan'[b] = plan[b] /\ pc'[b] = pc[b]
    BY <1>2 DEF RollBack, EndTransaction, committed, IInv, TypeOK
  <2> QED BY <2>1 DEF PlansShareOut, WeightsSumToFull, SharesOut
<1>3. ASSUME NEW c \in Conns, Commit(c)
      PROVE  PlansShareOut' /\ WeightsSumToFull'
  <2>1. /\ tables' = Append(tables, plan[c]) /\ pc'[c] = "idle" /\ pc[c] = "commit"
        /\ \A b \in Conns \ {c} : plan'[b] = plan[b] /\ pc'[b] = pc[b]
    BY <1>3 DEF Commit, EndTransaction, IInv, TypeOK
  <2>2. SharesOut(plan[c])
    BY <2>1 DEF PlansShareOut
  <2>3. \A v \in 1..Len(tables') : tables'[v] = IF v = Len(tables) + 1 THEN plan[c] ELSE tables[v]
    <3>1. PICK t \in Seq(Table) : t = tables
      BY DEF IInv, TypeOK
    <3>2. \A v \in 1..(Len(t) + 1) : Append(t, plan[c])[v] = IF v = Len(t) + 1 THEN plan[c] ELSE t[v]
      OBVIOUS
    <3> QED BY <2>1, <3>1, <3>2, LenProperties
  <2>4. Len(tables') = Len(tables) + 1 /\ Len(tables) \in Nat
    BY <2>1, LenProperties DEF IInv, TypeOK
  <2>5. WeightsSumToFull'
    BY <2>2, <2>3, <2>4 DEF WeightsSumToFull, SharesOut
  <2> QED BY <2>1, <2>5 DEF PlansShareOut, SharesOut
<1>4. ASSUME NEW c \in Conns,
             \/ AdvisoryLock(c) \/ ReadVersion(c) \/ DemoteTable(c) \/ DemoteDeps(c)
             \/ Activate(c) \/ ReportPromote(c) \/ (InsertTable(c) /\ UNCHANGED plan)
      PROVE  PlansShareOut' /\ WeightsSumToFull'
  <2>1. pc[c] # "idle" /\ UNCHANGED plan /\ UNCHANGED tables
    BY <1>4 DEF AdvisoryLock, ReadVersion, DemoteTable, DemoteDeps, Activate, ReportPromote,
       InsertTable, RollBack, committed, private
  <2>2. \A b \in Conns \ {c} : pc'[b] = pc[b]
    BY <1>4 DEF AdvisoryLock, ReadVersion, DemoteTable, DemoteDeps, Activate, ReportPromote,
       InsertTable, RollBack, EndTransaction, IInv, TypeOK
  <2> QED BY <2>1, <2>2 DEF PlansShareOut, WeightsSumToFull, SharesOut
<1>5. ASSUME NEW c \in Conns, Statement(c) PROVE PlansShareOut' /\ WeightsSumToFull'
  <2>1. CASE InsertTable(c)
    BY <1>2, <1>4, <2>1 DEF InsertTable, private
  <2> QED BY <1>2, <1>3, <1>4, <1>5, <2>1 DEF Statement, ClosePromote
<1>6. ASSUME NEW d \in Deps, Push(d) PROVE PlansShareOut' /\ WeightsSumToFull'
  BY <1>6 DEF Push, private, PlansShareOut, WeightsSumToFull, SharesOut
<1>7. CASE UNCHANGED vars
  BY <1>7 DEF vars, committed, private, PlansShareOut, WeightsSumToFull, SharesOut
<1> QED BY <1>1, <1>2, <1>4, <1>5, <1>6, <1>7 DEF Next, Crash

\* Every table that was ever installed shares out 10000 basis points, however many arms it
\* has, however canaries were rounded and whatever table the call had read.
THEOREM TablesSumToFull == Spec => []WeightsSumToFull
<1>1. Init => PlansShareOut /\ WeightsSumToFull
  BY EmptySeq DEF Init, PlansShareOut, WeightsSumToFull
<1>2. IInv /\ PlansShareOut /\ WeightsSumToFull /\ [Next]_vars => PlansShareOut' /\ WeightsSumToFull'
  BY SharesOutStep
<1> QED BY <1>1, <1>2, Invariance, PTL DEF Spec

-----------------------------------------------------------------------------
\* What a gateway's SELECT sees once some table is live.
LEMMA LiveIsNewest ==
  ASSUME IInv
  PROVE  LiveVersion = Len(tables)
BY EmptySeq DEF IInv, TypeOK, NewestIsLive, LiveVersion

\* The instance's tables and statuses are this module's.
LEMMA SameData == /\ Abstract!Table = Table
                  /\ Abstract!Status = Status
                  /\ \A d \in Deps : Abstract!FullTo(d) = FullTo(d)
BY DEF Abstract!Table, Table, Abstract!Full, Full, Abstract!Status, Status,
       Abstract!FullTo, FullTo

\* The commit of a flip is the abstract flip, the commit of a canary the abstract
\* installation of a weighted table.
LEMMA CommitImplements == ASSUME IInv, NEW c \in Conns, Commit(c) PROVE Abstract!Next
<1> USE DEF IInv
<1>1. /\ pc[c] = "commit" /\ pc[c] \in Inserted
      /\ dep[c] \in Deps
      /\ op[c] \in Ops /\ op[c] # "promote"
  BY DEF Commit, Inserted, TypeOK
<1>2. /\ plan[c] \in Table
      /\ ver[c] = Len(tables) + 1
      /\ live' = {ver[c]}
      /\ tables' = Append(tables, plan[c])
  BY <1>1 DEF Commit, PrivateCopyCurrent, TypeOK
<1>3. LiveVersion' = LiveVersion + 1
  BY <1>2, LiveIsNewest DEF LiveVersion
<1>4. LiveTable' = plan[c]
  BY <1>2, LenProperties DEF LiveTable, LiveVersion, TypeOK
<1>5. \A e \in Deps : sets[c][e] = IF e = dep[c] THEN "active"
                                   ELSE IF op[c] # "canary" /\ status[e] = "active"
                                        THEN "rolled_back" ELSE Keep
  BY <1>1 DEF RowsWritten
<1>6. status' = [e \in Deps |-> IF e = dep[c] THEN "active"
                                ELSE IF op[c] # "canary" /\ status[e] = "active"
                                     THEN "rolled_back" ELSE status[e]]
  BY <1>1, <1>5 DEF Commit, Keep
<1>7. CASE op[c] = "canary"
  <2>1. status' = [status EXCEPT ![dep[c]] = "active"]
    BY <1>1, <1>6, <1>7 DEF TypeOK
  <2> QED BY <1>1, <1>2, <1>3, <1>4, <2>1, SameData DEF Abstract!Next, Abstract!InstallCanary
<1>8. CASE op[c] # "canary"
  <2>1. plan[c] = FullTo(dep[c])
    BY <1>1, <1>8 DEF PrivateCopyCurrent
  <2>2. status' = Abstract!Flipped(dep[c])
    BY <1>6, <1>8 DEF Abstract!Flipped
  <2> QED BY <1>1, <1>3, <1>4, <2>1, <2>2, SameData DEF Abstract!Next, Abstract!Flip
<1> QED BY <1>7, <1>8

\* What leaves the committed rows alone is invisible to the abstract routing.
LEMMA CommittedUnchanged == ASSUME UNCHANGED committed PROVE UNCHANGED Abstract!vars
BY DEF committed, Abstract!vars, LiveVersion, LiveTable

\* flip_routing and set_canary, statement by statement and interleaved with other
\* connections, pushes and crashes, implement the indivisible routing change.
THEOREM Refinement == Spec => ImplementsAtomicRouting
<1>1. Init => Abstract!Init
  <2> SUFFICES ASSUME Init PROVE Abstract!Init
    OBVIOUS
  <2>1. LiveVersion = 0 /\ LiveTable = NoTable
    BY DEF Init, LiveVersion, LiveTable
  <2>2. status \in [Deps -> Status]
    BY DEF Init, Status
  <2> QED BY <2>1, <2>2, SameData DEF Abstract!Init
<1>2. IInv /\ [Next]_vars => [Abstract!Next]_(Abstract!vars)
  <2> SUFFICES ASSUME IInv, [Next]_vars
               PROVE  Abstract!Next \/ UNCHANGED Abstract!vars
    OBVIOUS
  <2>1. ASSUME NEW c \in Conns, NEW d \in Deps,
               BeginFlip(c, d) \/ BeginPromote(c, d) \/ BeginCanary(c, d)
        PROVE  UNCHANGED committed
    BY <2>1 DEF BeginFlip, BeginPromote, BeginCanary, Begin
  <2>2. ASSUME NEW c \in Conns, AdvisoryLock(c) \/ Crash(c) PROVE UNCHANGED committed
    BY <2>2 DEF AdvisoryLock, Crash, RollBack
  <2>3. ASSUME NEW c \in Conns, Statement(c) PROVE Abstract!Next \/ UNCHANGED committed
    <3>1. CASE Commit(c)
      BY <3>1, CommitImplements
    <3>2. CASE ~ Commit(c)
      BY <2>3, <3>2 DEF Statement, ReadVersion, DemoteTable, InsertTable, DemoteDeps,
         Activate, ReportPromote, ClosePromote, RollBack
    <3> QED BY <3>1, <3>2
  <2>4. ASSUME NEW d \in Deps, Push(d) PROVE Abstract!Next
    <3>1. UNCHANGED <<LiveVersion, LiveTable>>
      BY <2>4 DEF Push, LiveVersion, LiveTable
    <3>2. \E s \in PushStatus : status' = [status EXCEPT ![d] = s]
      BY <2>4 DEF Push
    <3>3. Abstract!Push(d)
      BY <3>1, <3>2 DEF Abstract!Push
    <3> QED BY <3>3 DEF Abstract!Next
  <2>5. CASE UNCHANGED vars
    BY <2>5, CommittedUnchanged DEF vars
  <2> QED BY <2>1, <2>2, <2>3, <2>4, <2>5, CommittedUnchanged DEF Next
<1> QED BY <1>1, <1>2, Invariance, PTL DEF Spec, ImplementsAtomicRouting, Abstract!Spec
=============================================================================
