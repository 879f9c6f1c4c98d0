---------------------------- MODULE MCAggregator ----------------------------
(* Aggregator on small instances: see Arrival.cfg and the other cfgs.      *)
EXTENDS Aggregator

TwoMessages == 0 .. 1
ThreeMessages == 0 .. 2
FourMessages == 0 .. 3
OnlyArrival == {None}
EventStamps == {1, 2, 4, 8}
=============================================================================
