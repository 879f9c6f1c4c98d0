---------------------------- MODULE MCHistoryTab ----------------------------
(* HistoryTab with the numbers of the code, in seconds: see HistoryTab.cfg *)
(* and the violation OlderLoadWins.cfg.                                    *)
EXTENDS HistoryTab, TLC

RangeBuckets ==
    3600 :> 60 @@ 21600 :> 300 @@ 86400 :> 300 @@ 604800 :> 3600
        @@ 2592000 :> 86400 @@ 7776000 :> 86400

(* The numbers of the page fit those of the API.                           *)
ASSUME ConstantsFit == PageFitsApi
=============================================================================
