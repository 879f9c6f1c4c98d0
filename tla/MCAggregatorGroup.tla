------------------------- MODULE MCAggregatorGroup -------------------------
(* AggregatorGroup on small instances: see the Group*.cfg.                 *)
EXTENDS AggregatorGroup, TLC

TwoMessages == 0 .. 1
ThreeMessages == 0 .. 2
Symmetry == Permutations(Members)
=============================================================================
