---------------------------- MODULE MCColdStore ----------------------------
(* ColdStore on a small instance: see ColdStore.cfg.  The second message   *)
(* does not parse, and the other two are of one editor.                    *)
EXTENDS ColdStore

Authors == <<"ann", "bob", "ann">>
=============================================================================
