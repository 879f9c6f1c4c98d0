----------------------------- MODULE MCRedisSink -----------------------------
(* RedisSink on a small instance: see RedisSink.cfg.                       *)
EXTENDS RedisSink, TLC

MCWindows == 1 .. 3
Symmetry == Permutations(Writers)
=============================================================================
