----------------------------- MODULE MCLiveView -----------------------------
(* LiveView on small instances: see LiveView.cfg, LiveRewrites.cfg and the *)
(* violations.  Each partition has wikis of its own; two of the three      *)
(* users edit on both.                                                     *)
EXTENDS LiveView, TLC

CONSTANTS p1, p2

TwoWindows == 1 .. 2
ThreeWindows == 1 .. 3

(* A slice is the same whenever it is written.                             *)
Final == p1 :> {{1, 2, 3, 4}} @@ p2 :> {{5, 6, 7, 8, 9}}
(* A rewrite by the second partition may take events back.                 *)
Shrinking == p1 :> {{1, 2, 3, 4}} @@ p2 :> {{5, 6, 7}, {5, 6, 7, 8, 9}}
(* A rewrite has other bots in the same total, or takes the slice back.    *)
Revised == p1 :> {{1, 2, 4}, {1, 2, 3}} @@ p2 :> {{}, {5, 6, 7, 8, 9}}

Wiki == <<"a", "a", "a", "a",  "b", "b", "b", "c", "c">>
User == << 1,   1,   2,   2,    1,   1,   2,   3,   3 >>
MadeByBots == {1, 4, 5}
=============================================================================
