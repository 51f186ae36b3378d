-------------------------------- MODULE Router --------------------------------
(***************************************************************************)
(* The choice of a session's arm: weighted_pick (router.py) and            *)
(* WeightedPick (router.go), which must agree.  The arms are given in the  *)
(* order of their ids; key is the session's hash xor the table's version.  *)
(***************************************************************************)
EXTENDS Integers, Sequences, SequencesExt

Total(weights) == FoldLeft(LAMBDA a, b : a + b, 0, weights)
UpTo(weights, i) == Total(SubSeq(weights, 1, i))

\* The arm whose cumulative range holds the key; arms of weight 0 have no range.
\* Without any weight Python and Go take the first arm they were given.
Pick(weights, key) ==
  IF Total(weights) = 0 THEN 1
  ELSE CHOOSE i \in DOMAIN weights :
         /\ key % Total(weights) < UpTo(weights, i)
         /\ \A j \in 1..(i - 1) : UpTo(weights, j) <= key % Total(weights)
=============================================================================
