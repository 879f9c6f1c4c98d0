----------------------------- MODULE MCProducer -----------------------------
(* Producer on a small instance: see Producer.cfg.                         *)
EXTENDS Producer

SecondUnusable == {2}
=============================================================================
