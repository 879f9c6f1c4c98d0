----------------------------- MODULE MCColdPath -----------------------------
(* ColdPath on small instances: see the ColdPath*.cfg.                     *)
EXTENDS ColdPath, TLC

Symmetry == Permutations(Clients)
=============================================================================
