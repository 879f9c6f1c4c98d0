--------------------------- MODULE MCWindowManager ---------------------------
(* WindowManager on a small instance: see WindowManager.cfg.               *)
EXTENDS WindowManager, TLC

Symmetry == Permutations(Messages)
=============================================================================
