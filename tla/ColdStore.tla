----------------------------- MODULE ColdStore -----------------------------
(***************************************************************************)
(* The cold path's store: ClickHouse consumes the topic into the tables of *)
(* src/clickhouse/init, and the queries of src/pipeline/analytics.py read  *)
(* them.                                                                   *)
(*                                                                         *)
(* The Kafka engine takes a block of messages, pushes it through the       *)
(* materialized views, table after table, and commits its offset last: a   *)
(* crash in between delivers the block again, over tables that may have it *)
(* already.  Merges of parts and expiry by TTL run whenever ClickHouse     *)
(* likes.  One partition and one wiki stand for all, offsets start at 1, a *)
(* row of a rollup is the sum of its unmerged states, and the dead letters *)
(* are watched for less than their 30 days.                                *)
(***************************************************************************)
EXTENDS Analytics, Integers, Sequences, FiniteSets, FiniteSetsExt

CONSTANTS
    UserOf,          \* the user of each message, by offset
    Users,           \* the users that are not NULL
    Poison,          \* the offsets of messages that do not parse
    Minute,          \* the interval of edits_1m
    RawTTL,          \* the TTL of edits
    MinuteTTL,       \* the TTL of edits_1m
    StaleAfter,      \* STALE_AFTER_SECONDS
    MaxClock,        \* bound on the clock
    LastEvent,       \* bound: when the last message is produced
    MaxCrashes       \* bound on the deliveries cut short

Offsets == DOMAIN UserOf
ASSUME MessagesAssumption ==
    /\ Len(UserOf) \in Nat /\ Offsets = 1 .. Len(UserOf)
    /\ Poison \subseteq Offsets
ASSUME TimesAssumption ==
    /\ {Minute, RawTTL, MinuteTTL} \subseteq Nat \ {0}
    /\ Day % Minute = 0
    /\ {StaleAfter, MaxClock, LastEvent, MaxCrashes} \subseteq Nat
(* "Retention, mirroring the TTLs in clickhouse/init" (analytics.py).      *)
ASSUME RetentionAssumption == RawRetention <= RawTTL /\ MinuteRetention <= MinuteTTL
(* STALE_AFTER_SECONDS is 30 (config.py), against days of 86400 seconds.   *)
ASSUME StaleAssumption == StaleAfter <= Day /\ StaleAfter < RawTTL

VARIABLES
    clock,
    log,        \* the topic: the broker's timestamp of each message
    committed,  \* the last offset committed by clickhouse-cold-path
    polled,     \* the last offset of the block in hand; committed without one
    filled,     \* the tables the block has reached
    raw,        \* edits: how many unmerged rows each message has
    minutes,    \* edits_1m, by the start of the minute
    days,       \* edits_1d, by the start of the day
    errors,     \* edits_errors: the messages in it
    furthest,   \* history: the last offset ever polled
    crashes     \* how many deliveries were cut short

tables == <<raw, minutes, days, errors>>
group == <<committed, polled, filled, furthest>>
vars == <<clock, log, group, tables, crashes>>

MinuteOf(t) == (t \div Minute) * Minute
DayOf(t) == (t \div Day) * Day
Minutes == {t \in 0 .. MaxClock : t = MinuteOf(t)}
Days == {t \in 0 .. MaxClock : t = DayOf(t)}
NoRow == [edits |-> 0, editors |-> {}]

Init ==
    /\ clock = 0
    /\ log = <<>>
    /\ committed = 0 /\ polled = 0 /\ filled = {} /\ furthest = 0
    /\ raw = [o \in Offsets |-> 0]
    /\ minutes = [m \in Minutes |-> NoRow]
    /\ days = [d \in Days |-> NoRow]
    /\ errors = {}
    /\ crashes = 0

-----------------------------------------------------------------------------
(* The broker and the clock *)

Tick ==
    /\ clock < MaxClock
    /\ clock' = clock + 1
    /\ UNCHANGED <<log, group, tables, crashes>>

(* A message carries the time of the producer's call; one without a time,  *)
(* for which edits_mv takes now(), is left out: Kafka stamps every message.*)
Produce ==
    /\ Len(log) < Len(UserOf)
    /\ clock <= LastEvent
    /\ log' = Append(log, clock)
    /\ UNCHANGED <<clock, group, tables, crashes>>

-----------------------------------------------------------------------------
(* The ingest: edits_queue and the views *)

Block == committed + 1 .. polled
Clean == Block \ Poison
EditorsOf(os) == {UserOf[o] : o \in os} \cap Users
InMinute(os, m) == {o \in os : MinuteOf(log[o]) = m}
InDay(os, d) == {o \in os : DayOf(log[o]) = d}

(* Mutation of Poll: without kafka_handle_error_mode a message that does   *)
(* not parse throws, and the consumer stays before it.                     *)
PollThrows ==
    /\ polled = committed
    /\ \E last \in committed + 1 .. Len(log) :
          /\ (committed + 1 .. last) \cap Poison = {}
          /\ polled' = last
          /\ furthest' = Max({furthest, last})
    /\ UNCHANGED <<clock, log, committed, filled, tables, crashes>>

Poll ==
    /\ polled = committed
    /\ \E last \in committed + 1 .. Len(log) :
          /\ polled' = last
          /\ furthest' = Max({furthest, last})
    /\ UNCHANGED <<clock, log, committed, filled, tables, crashes>>

(* The block reaches a table that it has not reached yet, after another.   *)
Reaches(table, after) ==
    /\ polled > committed
    /\ table \notin filled
    /\ after \subseteq filled
    /\ filled' = filled \cup {table}
    /\ UNCHANGED <<clock, log, committed, polled, furthest, crashes>>

(* edits_mv *)
InsertEdits ==
    /\ Reaches("edits", {})
    /\ raw' = [o \in Offsets |-> IF o \in Clean THEN raw[o] + 1 ELSE raw[o]]
    /\ UNCHANGED <<minutes, days, errors>>

AddedTo(row, os) ==
    [edits |-> row.edits + Cardinality(os), editors |-> row.editors \cup EditorsOf(os)]

(* edits_1m_mv *)
RollUpMinutes ==
    /\ Reaches("edits_1m", {"edits"})
    /\ minutes' = [m \in Minutes |-> AddedTo(minutes[m], InMinute(Clean, m))]
    /\ UNCHANGED <<raw, days, errors>>

(* Mutation of RollUpDays: the view sums the table, not the block.         *)
RollUpWholeDays ==
    /\ Reaches("edits_1d", {"edits_1m"})
    /\ days' = [d \in Days |->
         [edits   |-> days[d].edits
                        + MapThenSumSet(LAMBDA m : minutes[m].edits,
                                        {MinuteOf(log[o]) : o \in InDay(Clean, d)}),
          editors |-> days[d].editors \cup EditorsOf(InDay(Clean, d))]]
    /\ UNCHANGED <<raw, minutes, errors>>

(* edits_1d_mv, fed with what edits_1m_mv made of the block. *)
RollUpDays ==
    /\ Reaches("edits_1d", {"edits_1m"})
    /\ days' = [d \in Days |-> AddedTo(days[d], InDay(Clean, d))]
    /\ UNCHANGED <<raw, minutes, errors>>

(* edits_errors_mv *)
InsertErrors ==
    /\ Reaches("edits_errors", {})
    /\ errors' = errors \cup (Block \cap Poison)
    /\ UNCHANGED <<raw, minutes, days>>

(* Mutation of Commit: the offset after the block is skipped.              *)
CommitPastNext ==
    /\ filled = Tables \cup {"edits_errors"}
    /\ committed' = polled + 1
    /\ filled' = {}
    /\ UNCHANGED <<clock, log, polled, furthest, tables, crashes>>

Commit ==
    /\ filled = Tables \cup {"edits_errors"}
    /\ committed' = polled
    /\ filled' = {}
    /\ UNCHANGED <<clock, log, polled, furthest, tables, crashes>>

(* A crash, a failing insert or a rebalance: the block comes again.        *)
Crash ==
    /\ crashes < MaxCrashes
    /\ polled > committed
    /\ crashes' = crashes + 1
    /\ polled' = committed
    /\ filled' = {}
    /\ UNCHANGED <<clock, log, committed, furthest, tables>>

Ingest == Poll \/ InsertEdits \/ RollUpMinutes \/ RollUpDays \/ InsertErrors \/ Commit

-----------------------------------------------------------------------------
(* Merges in the background *)

(* ReplacingMergeTree: the rows of one message are one row again.          *)
MergeEdits(o) ==
    /\ raw[o] > 1
    /\ raw' = [raw EXCEPT ![o] = 1]
    /\ UNCHANGED <<clock, log, group, minutes, days, errors, crashes>>

RawExpired(o) == log[o] + RawTTL <= clock

ExpireEdits(o) ==
    /\ raw[o] > 0
    /\ RawExpired(o)
    /\ raw' = [raw EXCEPT ![o] = 0]
    /\ UNCHANGED <<clock, log, group, minutes, days, errors, crashes>>

MinuteExpired(m) == m + MinuteTTL <= clock

ExpireMinute(m) ==
    /\ minutes[m] # NoRow
    /\ MinuteExpired(m)
    /\ minutes' = [minutes EXCEPT ![m] = NoRow]
    /\ UNCHANGED <<clock, log, group, raw, days, errors, crashes>>

-----------------------------------------------------------------------------
Next ==
    \/ Tick
    \/ Produce
    \/ Poll
    \/ InsertEdits
    \/ RollUpMinutes
    \/ RollUpDays
    \/ InsertErrors
    \/ Commit
    \/ Crash
    \/ \E o \in Offsets : MergeEdits(o)
    \/ \E o \in Offsets : ExpireEdits(o)
    \/ \E m \in Minutes : ExpireMinute(m)

Spec == Init /\ [][Next]_vars

(* ClickHouse goes on consuming; nobody has to edit Wikipedia, and no row  *)
(* is sure to be merged or to be removed.                                  *)
FairSpec == Spec /\ WF_vars(Ingest)

-----------------------------------------------------------------------------
(* The queries *)

SumOf(rows, ts) == MapThenSumSet(LAMBDA t : rows[t].edits, ts)
UnionOf(rows, ts) == UNION {rows[t].editors : t \in ts}

(* The WHERE clauses of timeline_query() and top_wikis_query(). *)
MinutesBack(range) == {m \in Minutes : m >= clock - range}
DaysBack(range) == {d \in Days : d >= DayOf(clock - range)}

TimelineEdits(table, range) ==
    IF table = "edits_1m" THEN SumOf(minutes, MinutesBack(range))
                          ELSE SumOf(days, DaysBack(range))
TimelineEditors(table, range) ==
    IF table = "edits_1m" THEN UnionOf(minutes, MinutesBack(range))
                          ELSE UnionOf(days, DaysBack(range))

(* top_editors_query(): uniqExact(kafka_partition, kafka_offset).          *)
EditorEdits(user, range) ==
    Cardinality({o \in 1 .. Len(log) :
                    raw[o] > 0 /\ UserOf[o] = user /\ log[o] >= clock - range})

(* freshness_query() looks at the partitions of today and of yesterday;    *)
(* cold_path_state() judges the age.                                       *)
Health ==
    LET seen == {log[o] : o \in {i \in 1 .. Len(log) :
                    raw[i] > 0 /\ DayOf(log[i]) >= DayOf(clock) - Day}}
    IN  IF seen = {} THEN "empty"
        ELSE IF clock - Max(seen) <= StaleAfter THEN "ok" ELSE "stale"
-----------------------------------------------------------------------------
(* Properties *)

Row == [edits : Nat, editors : SUBSET Users]

TypeOK ==
    /\ clock \in 0 .. MaxClock
    /\ Len(log) <= Len(UserOf) /\ \A o \in 1 .. Len(log) : log[o] \in 0 .. clock
    /\ 0 <= committed /\ committed <= polled /\ polled <= furthest /\ furthest <= Len(log)
    /\ filled \subseteq Tables \cup {"edits_errors"}
    /\ raw \in [Offsets -> 0 .. MaxCrashes + 1]
    /\ minutes \in [Minutes -> Row] /\ days \in [Days -> Row]
    /\ errors \subseteq Poison
    /\ crashes \in 0 .. MaxCrashes

(* The messages that must be in the tables, and those that may be.         *)
Ingested == (1 .. committed) \ Poison
Taken == (1 .. furthest) \ Poison

(* A request is answered completely or refused: every message ingested and *)
(* younger than the range is counted, whatever has expired meanwhile and   *)
(* whatever block is half way through the views - by the minutes, those in *)
(* a minute that began within the range.  An editor's messages are counted *)
(* once each, however many rows they have for now.  The health check tells *)
(* a fresh table from a stale one on both sides of midnight.               *)
(* (analytics.py: "A request past these would silently return partial      *)
(* data, which is worse than a clear refusal"; "a Kafka coordinate         *)
(* identifies a message exactly once however many times it was inserted".) *)
AnswersAreComplete ==
    /\ \A range \in Ranges :
        LET recent == {o \in Ingested : log[o] > clock - range}
            whole == {o \in Ingested : MinuteOf(log[o]) > clock - range}
            maybe == {o \in Taken : log[o] >= clock - range}
            By(os, u) == Cardinality({o \in os : UserOf[o] = u})
        IN  /\ TopEditorsTable(range, MaxLimit) # Refused =>
                 \A u \in Users : EditorEdits(u, range) \in By(recent, u) .. By(maybe, u)
            /\ TopWikisTable(range, MaxLimit) # Refused =>
                 Cardinality(whole) <= TimelineEdits("edits_1m", range)
            /\ \A bucket \in Buckets :
                 LET table == TimelineTable(range, bucket)
                     due == IF table = "edits_1d" THEN recent ELSE whole
                 IN  table # Refused =>
                        /\ Cardinality(due) <= TimelineEdits(table, range)
                        /\ EditorsOf(due) \subseteq TimelineEditors(table, range)
    /\ (\E o \in Ingested : log[o] >= clock - StaleAfter) => Health = "ok"
    /\ Health = "ok" => \E o \in Taken : log[o] >= clock - StaleAfter

(* A rollup never misses a message that was ingested; it counts one again  *)
(* only for a delivery that was cut short, and never an editor (02_rollups *)
(* .sql: "Editor counts are unaffected").  A day has no more than the      *)
(* minutes it is chained to.                                               *)
Covers(row, least, most) ==
    /\ row.edits \in Cardinality(least) .. (crashes + 1) * Cardinality(most)
    /\ EditorsOf(least) \subseteq row.editors
    /\ row.editors \subseteq EditorsOf(most)
RollupsAgree ==
    /\ \A m \in Minutes :
        ~MinuteExpired(m) => Covers(minutes[m], InMinute(Ingested, m), InMinute(Taken, m))
    /\ \A d \in Days :
        LET of == {m \in Minutes : DayOf(m) = d} IN
        /\ Covers(days[d], InDay(Ingested, d), InDay(Taken, d))
        /\ (\A m \in of : ~MinuteExpired(m)) => days[d].edits <= SumOf(minutes, of)

(* Every message ends in the table that is meant for it and in no other,   *)
(* until the week is over: one that does not parse does not keep           *)
(* those behind it waiting (03_kafka_source.sql: "instead of an exception  *)
(* that stalls the whole consumer", "every message lands in exactly one of *)
(* the two tables").                                                       *)
Kept(o) ==
    /\ o <= Len(log)
    /\ IF o \in Poison THEN o \in errors /\ raw[o] = 0
                       ELSE raw[o] > 0 \/ RawExpired(o)
EveryMessageIsKept == \A o \in Offsets : (o <= Len(log)) ~> Kept(o)
=============================================================================
