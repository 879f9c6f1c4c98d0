# Verification of the streaming pipeline

TLA+ modules, TLC configurations and TLAPS proofs for the pipeline in `src/`:
Wikimedia's edit stream goes through Kafka into 5-second tumbling windows, the
windows into Redis, and from there over a WebSocket to a live chart; ClickHouse
keeps a cold copy. What the project promises is about delivery (`docs/DESIGN.md`
sections 1 to 5), and that is where this development starts; the cold store, its
queries and the two tabs of the page follow.

To run: `tlc -config Arrival.cfg MCAggregator` checks one instance,
`tlapm AggregatorProofs.tla` checks one module's proofs. `PROJECT.json` lists the
runs, a mutation of the code that breaks each property, the source lines of every
definition, the hazards and the theorems.

## 1. Inventory of the system

| Component | State it keeps | Operations | Talks to |
|---|---|---|---|
| `consumer/window.py` WindowManager | `_emitted_through`, `_max_ts`, open windows | `add`, `pop_closed`, `_drop_before` | called by the aggregator, one manager per partition |
| `consumer/offsets.py` OffsetTracker | per partition and window, the highest offset | `record`, `release_partition` (`forget` has no caller) | called by the aggregator |
| `consumer/sink.py` RedisSink | Redis: sorted set `wiki:history`, one hash per window with a field per partition | `write`: one Lua script, upsert then trim | Redis |
| `consumer/aggregator.py` Aggregator | managers, tracker, consumer position | `run` (poll, add), `_flush` (close, write, commit), `_shutdown` | Kafka (poll, commit), Redis |
| several aggregators | partition ownership, kept by Kafka's group coordinator | join, rebalance, eviction, crash | Kafka, one shared Redis history |
| `api/server.py` hot path | per WebSocket: `last_sent` | `read_history`, `read_latest`, push loop | Redis (read only), the page |
| `merge.py` | none | `merge_partials`, `history_point` | called by the reads of `server.py` |
| `api/static/index.html` live tab | chart points | `connect`, `onmessage`, `pushPoint` | the WebSocket |
| `analytics.py` ColdPath | `_client`, shared by all requests | `rows`, `_connect`, `_reset` | ClickHouse; called by `run_cold_query` and `cold_path_state` |
| `analytics.py` queries | none | validation of range, bucket and retention; SQL text | ColdPath |
| `index.html` history tab | view, chosen range, timer, what is drawn | `loadHistory`, `showView` | the analytics endpoints |
| `producer/produce.py` | running flag, producer's buffer, counters | `stream_events`, reconnect, drain | Wikimedia SSE, Kafka |
| `clickhouse/init/*.sql` | raw table, two rollups, dead letters | Kafka engine, materialized views, TTLs | Kafka; read by the analytics queries |
| config, metrics, gateway, observability, scripts | nothing the program reads back | | |

What is hard, and what makes each part correct:

* **Aggregator.** Redis and Kafka are written in two steps and the process may
  die between any two, or see a call fail that took effect. Correct means: no
  offset is committed while its message is in memory alone; no message is
  skipped; a window written again does not change.
* **WindowManager.** Closing, late arrival, back-filling and the cap on catch-up
  meet at window boundaries, and the clock may step either way. Correct means:
  every event ends in exactly one place and no window is emitted twice.
* **OffsetTracker.** It releases the *highest* offset of the closed windows,
  which is only right if later windows hold later offsets.
* **RedisSink.** Partitions write the same history out of step, and it is trimmed
  under them. Correct means: a slice is the last one its partition wrote, and
  index and hashes agree.
* **Group.** No code runs when a partition is revoked. Correct means: whoever
  commits, no unwritten message is passed.
* **Hot path.** The index and the hashes it names are read at different times, a
  window gains slices after it was sent and may lose some, its hash may expire while
  the index still names it, connections break. Correct means: the chart runs forward,
  shows no more of a window than its hash says unless the window itself has lost
  something, and ends at the newest total.
* **Producer.** Sending is asynchronous, so losses show up elsewhere and later; two
  different reconnections look alike, and a stop must be heard by a loop that
  looks at the flag between events only. Correct means: no event twice, one wiki's
  events in order, every event counted as sent accounted for, and a stop ends.
* **Merge.** A window's summary is put together from slices that were cut down one
  by one. Correct means: the merged counters are those of all the events, whichever
  slices are there.
* **ColdPath.** Concurrent requests check, install and close one client across
  awaits. Correct means: a request is refused only because of an outage.
* **ClickHouse and the queries.** A block of messages passes through the tables one
  by one and comes again when that is cut short; rows expire at different ages in
  different tables. Correct means: a request is answered completely or refused, the
  rollups miss nothing, and a message that does not parse holds nothing up.
* **History tab.** Loads start on a click, on a timer and on a change of address,
  overlap, fail and are answered in any order. Correct means: what is drawn belongs
  to the button that is pressed, and the tab recovers by itself.

`PROJECT.json` lists 40 hazards of this kind, each at its line.

## 2. Modules

| Module | Models | State and actions |
|---|---|---|
| `Windowing` | `window.py` | operators on the manager's record: `Add`, `Closes`, `Popped`, `Dropped`, `PopClosed` |
| `WindowManager` | one manager under any caller | `AddEvent` is `add()`, `Pop` is `pop_closed()` with any clock reading |
| `Offsets` | `offsets.py` | operators `Record`, `SafeOffset`, `Released` |
| `RedisStore` | the Lua script | operators `Upsert`, `Trim`, and `Write`, the whole script |
| `RedisSink` | several writers of one history | `WriteBatch`, and Redis's expiry |
| `Aggregator` | one process owning all partitions | see below |
| `CommitAfterWrite` | abstract: what the committed offset promises | `Append`, `Settle`, `Commit` |
| `AggregatorGroup` | several processes in one consumer group | `Rebalance`, `Evict`, `Iterate`, `Write`, `Commit`, `CommitFenced` |
| `Merge` | what a window's summary keeps, and `merge.py` | operators `Snapshots`, `MergePartials`, `HistoryPoint` |
| `LiveView` | `ws()`, its reads, and the chart | `WriteWindows` and `Expire` of Redis; `Connect`, `ReadIndex`, `SendHistory`, `SendLatest`; `Receive`, `Drop` |
| `ColdPath` | the shared ClickHouse client | one action between two awaits |
| `Analytics` | which requests `analytics.py` answers, and from which table | operators `TimelineTable`, `TopWikisTable`, `TopEditorsTable` |
| `ColdStore` | the tables and views of `clickhouse/init`, and the answers of the queries | `Poll`, `InsertEdits`, `RollUpMinutes`, `RollUpDays`, `InsertErrors`, `Commit`, `Crash`; merges and expiry |
| `HistoryTab` | the History tab | `Click`, `OpenHistory`, `OpenLive`, `TimerFires`; `Draw`, `Fail`, `Discard` |
| `Producer` | `produce.py` and the Kafka client under it | `Connect`, `SseError`, `Reconnect`; `Send`, `SendRaises`, `Replace`; `Stop`, `Leave`, `Drain` |
| `MC*` | | the small sets and symmetries of the runs |
| `SetProofs`, `WindowingProofs` | lemmas on folds, sums and the newest of a set, and on the operators of `Windowing` | section 5 |
| `WindowManagerProofs`, `AggregatorProofs`, `AggregatorGroupProofs`, `LiveViewProofs`, `ColdStoreProofs` | what is proved about each | section 5 |
| `ClientProofs` | what is proved about `Producer`, `RedisSink`, `ColdPath` and `HistoryTab` | section 5 |

`Aggregator` composes `Windowing` (EXTENDS), `Offsets` and `RedisStore`
(INSTANCE), and so does `AggregatorGroup`; `RedisSink` extends `RedisStore`, and
`LiveView` extends `RedisStore` and `Merge`: it reads what the script wrote and merges
it. `ColdStore` and `HistoryTab` extend `Analytics` from its two sides, the tables that
answer a request and the page that makes it. `ClientProofs` extends four modules that
share no state, which is why `RedisSink`, `ColdPath` and `HistoryTab` have names of
their own for the parts of a specification (`SinkSpec`, `ColdSpec`, `TabSpec`,
`SinkTypeOK` and so on). The main loop of `Aggregator` is cut where the outside world can be
seen or where the process can die with a visible difference:

| Code | Action |
|---|---|
| `poll()` and `arrival = time.time()` | `Poll`: any run of messages after the position |
| body of the inner `for` (`event_timestamp`, `manager.add`, `offsets.record`) | `AddMessage` |
| `_flush` up to `if not entries: return` | `FlushNothing`, or `Flush` when something closes |
| `sink.write(entries)` | `Write`; `WriteFails` when it raises, whether or not the script ran |
| `release_partition`, `build_commit`, `consumer.commit` | `Commit`; `CommitFails`, any part of it taken |
| `SIGKILL`; `stop()` and `_shutdown()`; restart and `make_consumer()` | `Crash`; `Shutdown`; `Start` |

Abstractions, all of them deliberate:

* Time counts in ticks and window `w` covers `[w*Size, (w+1)*Size)`, so the code's
  `start` is `w*Size` and `start - size` is `w-1`. A window's content is the bag
  of the messages added to it; every counter of the summary is a function of it.
* In `Aggregator` the wall clock only moves forward; a clock that steps back is
  examined in `WindowManager`, where `pop_closed` gets any reading.
* Kafka, the consumer library and the group coordinator are external: a log and a
  committed offset per partition; partitions move between members that are
  inside `poll()`; a member evicted while busy notices at its next commit; a
  commit of a current member is accepted for any partition; a partition that a
  member gains starts at the committed offset, one it keeps goes on where it was.
* `AggregatorGroup` is in arrival mode and takes everything between `poll()` and
  the write as one step (`Iterate`): all of it is local to the member. A poll
  reads the clock once, so a run of messages is added in one operation.
* In `LiveView` any partition may write any run of windows at any time, for the first
  time or again, with any of the contents a slice of its may have: more, less or the
  same, as after a replay or a rebalance (section 6). A hash may expire at any time
  while the index goes on naming it; the clock of the time to live is in `RedisSink`. A
  flush of several partitions is several writes. A slice is the set of the events that
  it counts, from which everything in a summary follows; there is one connection. A
  point of the chart is the window with its totals, which is what `history_point` keeps.
  In `Merge`, `edit_types` is counted as `edits_per_wiki` is; rates and the order of the
  output are left out.
* `ColdStore` has one partition and one wiki. A block goes through the tables in
  any order that the chain of views allows; that ClickHouse commits last and may
  deliver a block again is how the code in `src/` uses it ("at-least-once"), and so
  are merges and expiry, at any time once they are due. A message carries the
  time of the producer's call; the `now64` that stands in for a message without one
  (`03_kafka_source.sql:59`) is left out. Dead letters are watched for less than the 30 days
  they live.
* In `HistoryTab` the address names one of the page's ranges or is ignored. An address
  typed by hand with the name of a property that every JavaScript object has
  (`#history/constructor`) would pass the test of `HISTORY_RANGES[range]` and be
  refused by the API; it is left out. The three requests of a load are one outcome, as for
  `Promise.all`; the banner `failed` stands for a 503 and for no answer at all.
* In `ColdPath` an outage breaks any of the open connections, and the failure is
  noticed any time later (the query timeout is seconds long). A client nobody
  refers to is garbage and its name is used again.
* `Producer` follows the events of one wiki, which have one key and so one
  partition. The Kafka client is external: the buffer of one client arrives in
  order and without duplicates (`acks="all"`, `enable_idempotence`), and of a client
  that was replaced, or whose process is gone, each event may arrive at any time
  or never (`orphans`). A start without Kafka ends the process and changes nothing;
  `ensure_topic` is left out.
* Metrics, logging and formatting are left out, except the counters of `Producer`
  that account for losses.

The history variables (`seen`, `written`, `dropped`, `reduced`, `fed`, `emission`,
`times`, `sawDown`, ...) are marked as such where they are declared; no guard reads them,
except `sawDown` in `ColdPath`, which says whether a connection may fail.

## 3. What the runs check

| Run | Instance | Question it answers |
|---|---|---|
| `WindowManager` | 2 messages, each added at most twice, 6 windows, gap cap 2, clock free in 0..10 | Conservation of events, one summary per window, nothing open behind the scan, and holes only where a resynchronisation makes them (`GapFree`) |
| `RedisSink` | 2 partitions, 3 windows, history of 2, TTL 2 of 3 ticks | What is unexpired is the newest history, index and hashes agree on it, and every slice in it is its partition's last |
| `Arrival` | 2 partitions with 2 messages each, 7 ticks, gap cap 1, history of 1, 2 deaths | Offsets are withheld, nothing is skipped or late, slices are final, `CommitAfterWrite` is implemented |
| `ArrivalNoStall` | 1 partition, 3 messages, gap cap 6 (never reached), 9 ticks, 1 death, fairness | Without a stall everything committed was written, and every message is written in the end |
| `EventInOrder` | event mode, 4 messages with stamps 1, 2, 4, 8 in order, 2 deaths | Replay puts each message into its own window again: slices are final, each message counts in one window |
| `Group` | 2 members, 1 partition, 2 messages, 5 ticks, 2 faults | No unwritten message is committed, and no owner starts past one |
| `LiveView` | 2 partitions, 3 windows, history of 2, chart of 2, 2 flushes of any run of windows, slices that shrink when they are written again, expiry, 1 lost connection, fairness | The chart runs forward, shows no more than a window that has lost nothing, and ends at the newest total; the merged counters are exact |
| `ColdPath` | 2 requests and a health check, 4 clients, 1 outage | Without an outage nobody is refused, and nobody starts on a client being closed |
| `ColdStore` | 3 messages, the second unusable, 1 delivery cut short, minutes of 2 and days of 4 ticks, TTLs 4 and 6, clock to 7, fairness | Accepted requests are answered completely, rollups miss nothing and count again only what was delivered again, every message is kept where it belongs |
| `HistoryTab` | the code's six ranges in seconds, 3 loads at a time, outages, fairness | What is shown belongs to the pressed button, nothing the API refuses is asked for, and the tab recovers |
| `Producer` | 4 events of one wiki, one of them unusable, 2 faults, fairness | No event is produced twice, order holds while Kafka does, sent events are accounted for, and a stop drains and ends |
| `StragglerCommitted` | section 6 | a violation |

Why these bounds are enough to be interesting: in `Arrival` two windows fill and close
within the ticks, a stall of two windows exceeds the gap cap, a trim removes a window,
and there is time for a crash, a replay and a second crash; the two partitions close in
the same flush or in different ones, and a failing commit may take one and not the
other. `EventInOrder` has stamps in one window, in adjacent windows and beyond the gap
cap. In `Group`, a partition can leave a member in the middle of a window and come back,
with an eviction and a crash on top. In `LiveView`, two flushes are enough to merge the
slices of two partitions that are up to two windows apart, or to write a window again
with less, with a trim in between; the history is trimmed when three windows are
written, and a reconnection overflows the chart. Its slices share editors, and one has
more of them than `TopEditors` keeps. `LiveRewrites.cfg`, which is not listed, checks
the last three properties with three flushes of two windows and a history of 1, and it
passes: there, a window may be trimmed and written once more, a merged one may shrink,
and a rewrite may leave the total as it was. `ColdStore` has the smallest lengths that
keep the code's order of intervals, retentions and ranges: a message may fall on either
side of a minute and of midnight, expire from the raw table while the rollups still have
it, and a minute may expire while a range still reaches into it; a block of one, two or
three messages may be cut short at any table. The last message is produced at tick 4,
the start of the second day. In `HistoryTab` three loads can overlap as A, B, A.
`WindowManager` has room for a resynchronisation followed by a full run of windows. In
`Producer`, the three usable events can be in the log, in an abandoned buffer and in the
current one at once, after two reconnections of either kind. The other invariants of a
module hold in its runs by the same argument; each property has a mutation of a mapped
definition in `PROJECT.json` that breaks it on the same instance.

Deadlock is checked except in `WindowManager`, `RedisSink`, `ColdStore` and
`Producer`: in the first three the caller, the clock or the messages are bounded
(`MaxAdds`, `MaxClock`), and when the bound is used up the system really stops; the
producer stops when it is told to. In the other modules polling, connecting,
requesting or loading can always go on.

## 4. Fairness

* `Aggregator!FairSpec`: weak fairness of `Tick` (time passes), `Start`
  (`docker-compose.yml` restarts the service: `restart: unless-stopped`) and the loop
  (nothing in it waits without a timeout), and strong fairness of a poll that
  returns something: polls recur, and one that could fetch does not come back
  empty for ever. Crashes and failing calls are bounded by `MaxRestarts`; without
  that bound a process that always crashes settles nothing, in the code too.
  `EveryMessageIsSettled` excuses messages in a window that ends after the last
  modelled tick.
* `LiveView!FairSpec`: weak fairness of `Connect` (the page reconnects after two
  seconds), of the handler's next step and of delivery. Writing, expiry and
  drops are not fair. `NewestIsShown` has a premise of its own: from some time on, the
  newest window of the index keeps its hash. In the code this is a pause in writing that
  is longer than a turn of the push loop (`WS_PUSH_INTERVAL`, one second) and shorter
  than the time to live of the newest hash (20 minutes by default); after that the hash
  is gone, the chart keeps what it has, and a page that connects then draws nothing. It
  promises the total and not the bots, because the handler compares window and total.
* `Producer!FairSpec`: weak fairness of the program's own steps, restart included; of
  `Delivered` (Kafka answers; when it does not for good, that is `SendError`); and of
  `Timeout`, an `SseError` on a silent stream (`requests.get(..., timeout=30)`).
  Faults are bounded, and nobody restarts what was stopped.
* `ColdStore!FairSpec`: weak fairness of the ingest as a whole: ClickHouse goes on
  consuming (it is restarted like the other services). Merges, expiry, production and
  crashes are unfair; crashes are bounded by `MaxCrashes`.
* `HistoryTab!FairTabSpec`: weak fairness of the timer (`setInterval`) and of each answer
  (a request ends, one way or another). The reader and the outages are unfair;
  `ChosenIsShown` speaks of a reader who stays and a store that stays up.
* `ColdPath!FairColdSpec` (used in section 6 only): ClickHouse comes back, callers
  keep asking, every await ends (`CLICKHOUSE_QUERY_TIMEOUT`).

## 5. What is proved

For every value of the constants that satisfies the named assumptions: any number
of partitions, messages, members, requests, events or loads, any window size, grace,
gap cap, history length, chart length, time to live, retention, and any number of
crashes. Every safety property that a run checks is a theorem here, some of them under
the hypotheses in the last column.

| Theorem (module) | States | Under |
|---|---|---|
| `ManagerTypeCorrect`, `ManagerConserves`, `ManagerEmitsOnce`, `ManagerLooksAhead`, `ManagerGapFree` (`WindowManagerProofs`) | `TypeOK`, `Conservation`, `EmittedAtMostOnce`, `OpenAheadOfEmitted`, `GapFree` | |
| `AggregatorTypeCorrect` (`AggregatorProofs`) | `TypeOK` | |
| `OffsetsWithheld`, `ArrivalNeverLate`, `ArrivalSlicesAreFinal` | `WithheldUntilWritten`, `NeverLate`, `SlicesAreFinal` | arrival mode |
| `MessagesNotSkipped`, `AggregatorImplementsCommitAfterWrite` | `NothingSkipped`, the refinement | arrival mode, `InitialCommit = 0` |
| `ArrivalCommittedWasWritten` | `CommittedWasWritten` | the same, `MaxGap >= Win(MaxTime)` |
| `EventCountedInOneWindow` | `CountedInOneWindow` | event mode, every message stamped |
| `InOrderSlicesAreFinal`, `InOrderOffsetsWithheld`, `InOrderNotSkipped`, `InOrderImplementsCommitAfterWrite` | `SlicesAreFinal`, `WithheldUntilWritten`, `NothingSkipped`, the refinement | the same, `Disorder = 0`, `InitialCommit = 0` |
| `GroupTypeCorrect`, `GroupNeverSkips`, `GroupOwnerAccounts` (`AggregatorGroupProofs`) | `TypeOK`, `CommittedIsSettled`, `OwnerAccountsForAll` | |
| `RedisTypeCorrect`, `RedisHistoryIsNewest`, `RedisSlicesAreLastWritten` (`ClientProofs`) | `SinkTypeOK`, `HistoryIsNewest`, `SlicesAreLastWritten` | |
| `ColdPathTypeCorrect`, `ColdPathNoRefusal` (`ClientProofs`) | `ColdTypeOK`, `NoOutageNoRefusal` | |
| `ProducerTypeCorrect`, `ProducerSendsOnce`, `ProducerKeepsOrder`, `ProducerAccountsForSent` (`ClientProofs`) | `TypeOK`, `NotTwice`, `OrderWithoutFaults`, `SentIsAccounted` | |
| `TabShowsChosen` (`ClientProofs`) | `ShownIsChosen` | |
| `TabTypeCorrect` | `TabTypeOK`, which has no refusal in it | `PageFitsApi` |
| `LiveTypeCorrect`, `LiveForward`, `LiveNeverMore`, `LiveMergeExact` (`LiveViewProofs`) | `TypeOK`, `ForwardWhileConnected`, `NeverMoreThanWritten`, `MergeIsExact` | |
| `StoreTypeCorrect`, `StoreRollupsAgree`, `StoreAnswersComplete` (`ColdStoreProofs`) | `TypeOK`, `RollupsAgree`, `AnswersAreComplete` | |

The hypotheses are what the code's configuration, or the order of the messages, decides.
Section 6 shows what fails without them: offsets withheld needs arrival mode or messages
in order (`StragglerCommitted`), nothing skipped a first commit (`FreshGroupSkips`),
nothing lost a gap cap out of reach (`StallLosesOpenWindows`), slices that stay as they
are messages in order (`ReplayShrinksSlice`). Of the four `InOrder` properties the runs
check the slices in event mode (`EventInOrder`) and the other three in arrival mode
(`Arrival`). In these theorems, `InitialCommit = 0` makes the start of the log the start
of a window; a group without a commit starts at the end of the log, perhaps within a
window, and whether its slices are final and its offsets withheld is neither proved nor
known to fail.
"Every message stamped" is `Stamps \subseteq 1 .. MaxTime`: a message without a
timestamp, or with the timestamp 0, is given the time of the poll. `PageFitsApi` says of
the page's ranges, buckets and list lengths that the API accepts them; it is a statement
about constants, and TLC evaluates it for the code's own (`ConstantsFit` in
`MCHistoryTab`).

Some assumptions on constants are there for the proofs, and TLC evaluates each of them
in the runs. `RedisSink` assumes that `StoredWindows` has no holes, since a batch is a
run of consecutive windows. `LiveView` assumes that there are finitely many partitions
and events (`WritersAssumption`), that an event is in one partition, and that no slice
looks like an absent one (`ContentsAssumption`): with an event in two slices the merged
totals would count it twice. `ColdStore` assumes that the interval after which
`/healthz` calls a table stale is shorter than the raw table's time to live
(`StaleAssumption`: 30 seconds against 7 days); otherwise the newest row could expire
before the table counts as stale.

### The aggregator

Each layer is an inductive invariant with one lemma per action.

1. `TInv` adds to `TypeOK` that recorded offsets are below the position, that
   commits stay within the log, and that a dead process keeps nothing. Without the
   last, `Start` would not restore the shape of the tracker.
2. `BInv`. `WithheldUntilWritten` is not inductive: committing the closed windows
   could release a message of an open one. It cannot where a later window holds later
   offsets. `OpenAboveReleasable` says so: a message in an open window is above every
   offset recorded for an earlier window, and its window is above `_emitted_through`.
   Adding a message preserves it when the message is not late and belongs to no earlier
   window than the memory has already (`AddsInOrder`), in either mode. In arrival mode
   that holds by `AInv`: nothing in memory is of a later window than the clock's
   (`MemoryNotAhead`), which is never closed (`NeverLate`). For events in order it
   follows from `OInv` (`EventsInOrder`).
3. `SInv` accounts for every message below the position (in memory, or settled) and for
   every message below the commit (settled), and orders the tracker
   (`PendingOrdered`), so that commits move forward. It too asks only `AddsInOrder` of
   the messages, so that what it gives holds in both modes. The refinement maps `end` to
   the length of the log and `settled` to `written \cup dropped`; `Write` and `Flush`
   are `Settle`, `Commit` and `CommitFails` are `Commit`, the rest stutters. With
   `NothingDropped` beside it (no flush resynchronises, as no more windows exist than
   the cap allows), what is settled was written.
4. `FInv`, arrival mode: what Redis shows lies behind the clock and behind every
   manager (`ShownBehind`), and what is being written is not there yet
   (`ClosingIsNew`). A process that starts again counts in the window of its own
   clock, which is later than all that was written: it cannot rewrite one.
5. `EInv`, event mode: wherever a message is counted, in memory, on its way or in
   Redis, it is in the window of its stamp. A replay can count it only there.
6. `OInv`, event mode in order. Here a replay does write windows again, and they must
   come out the same. The committed offset never falls within a window
   (`CommitsWholeWindows`): a commit releases the highest recorded offset of the closed
   windows, the message behind it is in the log already and is of a window still open.
   The tracker must be complete for that (`PendingIsComplete`: where a window has a
   recorded offset, every later one has its last), also after offsets were released or a
   gap discarded windows. A new manager therefore begins at the start of a window
   (`BeginsAtWindow`), its open windows lack only what is still to be read
   (`OpenIsSoFar`), and what closes or is shown is the whole window and will stay
   whole (`ClosingIsWhole`, `ShownIsWhole`: a later message is in the log).

### The other components

* **Group.** `CommittedIsSettled` has to hold for the commits of a member that
  lost the partition long ago, so no fact about owners can carry it.
  `RecordsAccounted` does: what a member has recorded under a window covers only
  messages that are settled, in its own memory in a window closing no later, or on
  their way to Redis. It is local to the member, so rebalances and evictions leave
  it alone; with `OpenIsCurrent` it survives closing, and a commit settles nothing
  that it does not hold. `OwnerAccountsForAll` is inductive beside it: a partition
  changes hands at the committed offset, below which all is settled.
* **RedisSink.** The script trims after each batch, and has forgotten what it
  trimmed: `HistoryIsNewest` needs that the newest of (the newest of all so far and
  the batch) are the newest of all (`NewestOfUnion`, on cardinalities of finite
  sets). `LastFits` ties a partition's last write to the expiry of its hash: an
  earlier partition's time to live never takes a later partition's slice.
* **ColdPath.** Before the first outage `AllIsWell`: whatever a request queries is
  open, because a connection that replaces the shared client closes nobody's.
* **Producer.** A sent event is in at most one of log, buffer and the buffers of
  former clients (`InOnePlace`), and whatever waits on the stream is newer than all
  that was sent (`StreamIsFresh`): a new connection or client cannot send it twice.
  Until a fault there is one buffer and it follows the log (`UntilAFault`).
* **WindowManager.** `GapFree` speaks of the windows since the origin; that these
  are windows at all is `OriginFits`.
* **HistoryTab.** `ShownIsChosen` taken case by case is inductive. An answer for
  another range is thrown away; the case that needs care is a load that is thrown
  away while the note says "loading": another one of the chosen range must be left.

* **LiveView.** `NeverMoreThanWritten` is about windows that have lost nothing: a
  rewrite with less and an expiry take back what was drawn, and the chart is corrected
  for the newest window only. `SentAreKnown` speaks of every point on its way (`link`)
  or drawn: its window has lost something (`reduced`), or is in Redis with at least
  these counts, or was trimmed, and then `HistoryMax` newer windows are in the index,
  which no later write undoes: a trimmed window cannot come back with less.
  `NewestOfUnion` carries that over a write. `Forward`: the messages on
  the way run forward and begin no earlier than the chart ends, or a drop of the
  connection is owed to the chart for the one step back that they may bring. A window
  found in the index is never newer than the next one read, because the newest index
  entry only moves forward. `MergeIsExact` needs no history: it holds of every hash
  (`EveryMergeIsFaithful`), by adding up over slices that share no event; an editor a
  slice does not list has no more there than the last one it lists.
* **ColdStore.** `Done(table)` is what a table has been given: all that is committed,
  and the current block once its insert is through. `RawsKept`, `MinutesKept` and
  `DaysKept` bound each row from both sides: it has at least the messages it was given
  and that are not due to expire, and no more than these once, plus all of them once
  for every delivery cut short. None is inductive without the other end of the chain:
  `edits_1d` is filled from `edits_1m`, so `Chained` says that a day, with what it is
  still to be given (`Pending`), has no more than its minutes. The answers follow by
  arithmetic on where minutes and days begin, and sums over the rows in range.

`WindowingProofs` holds the lemmas on the operators of `Windowing`, shared by the
proofs of the manager, the aggregator and the group.

`SetProofs` is about what the modules compute with the folds of the community modules:
`MapThenSumSet` over a finite set, `FoldLeft` over a message. Those operators are defined
by `CHOOSE` of a function that satisfies a recursion, so each lemma first shows that one
exists (`FoldExists`, `AddsExists`) and that all agree (`AddsUnique`). The induction
theorems of the library take a predicate as a parameter, which the provers cannot
instantiate; `NatInduct` and `SetInduct` speak of a set of numbers, or of parts of a
set, instead, and rest on the well-foundedness of `<`.

### Only model-checked

Everything temporal under fairness: `EveryMessageIsSettled`, `NewestIsShown`,
`EveryMessageIsKept`, `ChosenIsShown`, `StopDrains`. `ENABLED` and fairness are out of
TLAPS's reach. Of `WithheldUntilWritten` and `NothingSkipped` the theorems cover arrival
mode, and event mode with messages in order; in event mode with stragglers the first is
refuted (section 6), and the second is neither proved nor listed as a run.

## 6. Where the code and its documentation disagree

Checked by a run that ends in a violation:

| Run | What happens | Against |
|---|---|---|
| `StragglerCommitted` | Event mode: a message of a window still open can have a lower offset than one of the closing window; `release_partition` passes it, and a crash loses it | `tests/test_offsets.py:4` |

Further disagreements. These definitions are in the modules with their quotations,
and TLC refutes each with the file named; they are not part of the listed runs. Where a
file names several, TLC stops at the first: leave one at a time.

| Configuration | Property | What happens |
|---|---|---|
| `StallLosesOpenWindows` | `CommittedWasWritten` | A stall of more than `max_gap_windows` discards the open windows, and their offsets are committed with the next one; `README.md:286` says the demos (the first pauses for 18 windows) lose nothing |
| `QuietPartitionLosesItsLastWindow` | `CommittedWasWritten` | Event mode: the gap is measured on the partition's own watermark, so a quiet partition's last window is dropped when the next event comes |
| `ReplayCountsTwice` | `CountedInOneWindow` | Arrival mode: a crash between write and commit counts messages again, in a later window |
| `FreshGroupSkips` | `NothingSkipped` | A group that crashes before its first commit starts again at the end of the log |
| `StragglerBeforeOrigin` | `StragglersKept` | The window before the first event counts as emitted, grace period or not |
| `ReplayShrinksSlice` | `SlicesNeverShrink` | Event mode: a replay from the committed offset rewrites a window without its earlier messages |
| `GroupFormerOwner` | `OnlyOwnersCommit`, `OnlyOwnersWrite` | A former owner goes on committing and writing for the partition |
| the same | `NoDoubleCount` | A partition that comes back finds its old manager, and replayed messages count twice |
| the same | `SlicesNeverShrink` | After a rebalance the former owner flushes the window it had open and overwrites the new owner's complete slice; `docs/DESIGN.md` section 6 (3): "leaks memory rather than corrupting data" |
| `TopEditorsCutPerSlice` | `TopEditorsExact` | An editor just below the cut in every slice is missing from the merged top editors. Slices are per partition, so this happens with one aggregator too; `merge.py`: "With one aggregator (the default) there is a single slice and the result is exact" |
| `ReconnectDrawsTwice` | `NoWindowTwice` | After a reconnection the whole history is appended to the points already drawn; `index.html:208` says "Replace, don't append" |
| `PushSkipsWindows` | `NoHole`, `CorrectionsArrive` | The push loop only reads the newest window; of that one, it does not send a rewrite that leaves the total as it was (`server.py:315`) |
| `ColdPathOverlap` | `RefusedOnlyWhenDown` | `_reset` closes the client installed by now, not the one that failed: a healthy request gets a 503, against `analytics.py:67` |
| the same | `SelfHealing` | Two overlapping requests keep closing each other's new client; one caller alone recovers (`ColdPathOneCaller`, which passes) |
| `OlderLoadWins` | `NeverAged` | Two loads of one range, by the timer and by a click: the older answer may replace the newer. The check at `index.html:395` compares ranges, not loads |

Two remarks on the producer, both visible in the guards of `Producer`'s properties.
`OrderWithoutFaults` needs its premise: when `send` has raised, a new client is made
while the old one's buffer may still arrive, so one wiki's events can change places,
against `produce.py:4`. And the event in hand when `send` raises is in no counter,
against "the only place that loss becomes visible" (`_on_send_error`):
`SentIsAccounted` speaks of the events for which `send` returned.

What survives all of these is what sections 3 and 5 state: in a group, no
unwritten message is ever committed (`CommittedIsSettled`), and one aggregator in
arrival mode, or with messages in order, neither skips a message nor commits ahead of
Redis.

## 7. Not modelled, and the plan

Left to do, in this order:

1. A refinement of `CommitAfterWrite` by `AggregatorGroup`, with commits that may
   move back.
2. Several WebSocket connections and a second page in `LiveView`: they share nothing
   but Redis, which only the sink writes.

Left out for good: configuration (its values are the CONSTANTS), metrics (no code
reads them), the gateway, dashboards, alerts, deployment files and scripts (no
state), the formatting of summaries. `/healthz`, `/api/latest` and `/api/history` do the
same reads as the WebSocket handler, once; the verdict of `/healthz` on the age of the
newest window is a comparison with the clock. The lists of the analytics queries are
modelled without their order, and `OffsetTracker.forget` has no caller.
