------------------------------ MODULE RedisSink ------------------------------
(***************************************************************************)
(* The window history in Redis under several aggregators: each writes the  *)
(* windows of its own partition in batches (sink.py, RedisSink.write), in  *)
(* the order its own windows close, so a partition may run behind another, *)
(* and may write a window again after a restart.  Hashes expire TTL ticks  *)
(* after their last write.                                                 *)
(***************************************************************************)
EXTENDS RedisStore

CONSTANTS
    TTL,      \* WINDOW_TTL_SECONDS, in ticks of the clock below
    MaxClock  \* bound on the clock

ASSUME HistoryMaxAssumption == HistoryMax \in Nat \ {0}
ASSUME TTLAssumption == TTL \in Nat \ {0}
ASSUME MaxClockAssumption == MaxClock \in Nat
ASSUME StoredWindowsAssumption ==
    /\ StoredWindows \subseteq Int
    /\ \A v, w \in StoredWindows : v .. w \subseteq StoredWindows

VARIABLES
    store,    \* what Redis holds
    expires,  \* when the hash of each window is due to expire, 0 without one
    clock,    \* Redis's clock
    last,     \* the last write of each partition: its slice, by window
    listed    \* history: every window ever written

sinkVars == <<store, expires, clock, last, listed>>

SinkInit ==
    /\ store = EmptyStore
    /\ expires = [w \in StoredWindows |-> 0]
    /\ clock = 0
    /\ last = [w \in StoredWindows |-> NoHash]
    /\ listed = {}

(* Mutation of Batch: the window before the batch is written again.        *)
BatchFromBefore(p, from, to) == {<<p, w, clock>> : w \in from - 1 .. to}

(* A batch is a run of consecutive windows, as pop_closed returns them; a  *)
(* slice is told apart only by when it was written.                        *)
Batch(p, from, to) == {<<p, w, clock>> : w \in from .. to}

WriteBatch(p, from, to) ==
    /\ from <= to
    /\ store' = Write(store, Batch(p, from, to))
    /\ expires' = [w \in StoredWindows |->
                     IF store'.slices[w] = NoHash THEN 0
                     ELSE IF w \in from .. to THEN clock + TTL
                     ELSE expires[w]]
    /\ last' = [w \in StoredWindows |->
                  IF w \in from .. to THEN [last[w] EXCEPT ![p] = clock] ELSE last[w]]
    /\ listed' = listed \cup (from .. to)
    /\ UNCHANGED clock

Expire(w) ==
    /\ store.slices[w] # NoHash
    /\ expires[w] <= clock
    /\ store' = ExpireHash(store, w)
    /\ expires' = [expires EXCEPT ![w] = 0]
    /\ UNCHANGED <<clock, last, listed>>

Tick ==
    /\ clock < MaxClock
    /\ clock' = clock + 1
    /\ UNCHANGED <<store, expires, last, listed>>

SinkNext ==
    \/ \E p \in Writers, from, to \in StoredWindows : WriteBatch(p, from, to)
    \/ \E w \in StoredWindows : Expire(w)
    \/ Tick

SinkSpec == SinkInit /\ [][SinkNext]_sinkVars

-----------------------------------------------------------------------------
Live(w) == store.slices[w] # NoHash

SinkTypeOK ==
    /\ store.index \subseteq StoredWindows
    /\ store.slices \in [StoredWindows -> [Writers -> 0 .. MaxClock \cup {NoSlice}]]
    /\ expires \in [StoredWindows -> Nat]
    /\ clock \in 0 .. MaxClock
    /\ last \in [StoredWindows -> [Writers -> 0 .. MaxClock \cup {NoSlice}]]
    /\ listed \subseteq StoredWindows

(* The history is exactly the newest HistoryMax windows ever written, in   *)
(* whatever order the partitions wrote them, and no hash outlives its      *)
(* place in it: a hash off the index could neither be read nor be trimmed. *)
(* A write of a window older than the whole history, by a partition        *)
(* running behind, must leave nothing either.                              *)
HistoryIsNewest ==
    /\ store.index = {w \in listed : Cardinality({v \in listed : v > w}) < HistoryMax}
    /\ \A w \in StoredWindows : Live(w) => w \in store.index

(* A slice in Redis is the last one its own partition wrote for that       *)
(* window: no write, trim or expiry makes a partition's field show an      *)
(* older value or another partition's (sink.py: a replica only touches the *)
(* fields of its own partitions).  It is missing only because the hash     *)
(* expired or the window left the history.                                 *)
SlicesAreLastWritten ==
    \A w \in StoredWindows, p \in Writers :
        \/ store.slices[w][p] = last[w][p]
        \/ /\ store.slices[w][p] = NoSlice
           /\ w \in store.index => last[w][p] + TTL <= clock
=============================================================================
