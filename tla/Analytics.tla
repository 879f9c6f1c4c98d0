----------------------------- MODULE Analytics -----------------------------
(***************************************************************************)
(* Which requests src/pipeline/analytics.py answers, and from which table  *)
(* of ClickHouse: the validation of the *_query() functions.  Ranges,      *)
(* buckets and retentions are lengths of time in one unit.                 *)
(***************************************************************************)
EXTENDS Naturals

CONSTANTS
    Ranges,           \* RANGES
    Buckets,          \* BUCKETS
    Day,              \* BUCKETS["1d"]
    MaxPoints,        \* MAX_POINTS
    RawRetention,     \* RAW_RETENTION
    MinuteRetention,  \* MINUTE_RETENTION
    MaxLimit          \* MAX_LIMIT

ASSUME LengthsAssumption ==
    /\ Ranges \subseteq Nat \ {0} /\ Buckets \subseteq Nat \ {0} /\ Day \in Buckets
    /\ {MaxPoints, RawRetention, MinuteRetention, MaxLimit} \subseteq Nat \ {0}

(* AnalyticsError, which run_cold_query() answers with 400. *)
Refused == "refused"
Tables == {"edits", "edits_1m", "edits_1d"}

(* timeline_query(): daily buckets are never held to the retention of the  *)
(* minutes.                                                                *)
TimelineTable(range, bucket) ==
    IF \/ range \notin Ranges \/ bucket \notin Buckets
       \/ bucket > range \/ range \div bucket > MaxPoints
    THEN Refused
    ELSE IF bucket >= Day THEN "edits_1d"
    ELSE IF range > MinuteRetention THEN Refused ELSE "edits_1m"

(* parse_limit() *)
LimitOK(limit) == limit \in 1 .. MaxLimit

(* top_wikis_query() *)
TopWikisTable(range, limit) ==
    IF range \in Ranges /\ range <= MinuteRetention /\ LimitOK(limit)
    THEN "edits_1m" ELSE Refused

(* Mutation of TopEditorsTable: the retention is that of the minutes.      *)
TopEditorsUnchecked(range, limit) ==
    IF range \in Ranges /\ range <= MinuteRetention /\ LimitOK(limit)
    THEN "edits" ELSE Refused

(* top_editors_query() *)
TopEditorsTable(range, limit) ==
    IF range \in Ranges /\ range <= RawRetention /\ LimitOK(limit)
    THEN "edits" ELSE Refused
=============================================================================
