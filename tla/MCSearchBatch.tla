---------------------------- MODULE MCSearchBatch ----------------------------
(* Two saturators that differ in what they find: s saturates on a, b and c; t is *)
(* cut off on b and unsound on c. d is declined by both. No budget covers a and  *)
(* b together.                                                                   *)
EXTENDS SearchBatch, TLC

CONSTANTS s, t, a, a1, b, b1, c, d

MCExprs == {a, a1, b, b1, c, d}
MCEnding ==
  (s :> [r \in MCExprs |-> IF r = d THEN "Declined" ELSE "Saturated"])
    @@ (t :> [r \in MCExprs |-> CASE r = d -> "Declined" [] r = b -> "IterationCap"
                                  [] r = c -> "Contract" [] OTHER -> "Saturated"])
MCCandidate ==
  (s :> [r \in MCExprs |-> CASE r = a -> a1 [] r = b -> b1 [] OTHER -> None])
    @@ (t :> [r \in MCExprs |-> IF r = b THEN b1 ELSE None])
MCCost ==
  [by \in {s, t} |-> [r \in MCExprs |-> CASE r = a -> 2 [] r = b -> 3 [] r = c -> 1 [] OTHER -> 0]]

MCBatches == {<<a, b, c>>, <<b, a, b, d>>, <<c, a>>, <<d, b, d, c>>}
=============================================================================
