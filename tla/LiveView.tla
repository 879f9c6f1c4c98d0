------------------------------ MODULE LiveView ------------------------------
(***************************************************************************)
(* The live tab: the read path of src/pipeline/api/server.py and the chart *)
(* of src/pipeline/api/static/index.html, reading the windows that the     *)
(* aggregators write, each partition in its own time, into RedisStore: the *)
(* next ones, and after a replay or a rebalance some of them again, with   *)
(* other contents (sink.py, "Idempotency").  Redis drops a hash that has   *)
(* not been written for its time to live; the index keeps the window.      *)
(*                                                                         *)
(* A slice is the set of the events it counts; of what Merge makes of a    *)
(* window, a point of the chart shows the total and the bots.  The handler *)
(* of the WebSocket suspends at every await, so Redis changes between the  *)
(* read of the index and the read of the hashes it names; the pipeline of  *)
(* HGETALLs is one MULTI/EXEC.                                             *)
(***************************************************************************)
EXTENDS RedisStore, Merge, Sequences, SequencesExt

CONSTANTS
    Contents,  \* what a slice of each partition may hold: sets of events
    MaxPoints, \* MAX_POINTS of the page
    MaxWrites, \* bound: how often the aggregators flush
    MaxDrops   \* bound: how often the connection breaks

ASSUME WindowsAssumption == StoredWindows \subseteq Nat
ASSUME WritersAssumption == IsFiniteSet(Writers) /\ IsFiniteSet(DOMAIN UserOf)
(* A message of the topic is in one partition. *)
ASSUME ContentsAssumption ==
    /\ DOMAIN Contents = Writers
    /\ \A p \in Writers : NoSlice \notin Contents[p] /\ UNION Contents[p] \subseteq DOMAIN UserOf
    /\ \A p, q \in Writers : p # q => (UNION Contents[p]) \cap (UNION Contents[q]) = {}
ASSUME HistoryMaxAssumption == HistoryMax \in Nat \ {0}
ASSUME MaxPointsAssumption == MaxPoints \in Nat \ {0}
ASSUME BoundsAssumption == MaxWrites \in Nat /\ MaxDrops \in Nat

VARIABLES
    store,    \* Redis
    writes,   \* how often the aggregators have flushed
    reduced,  \* history: the windows that lost something they had shown
    server,   \* where the handler of the connection is
    members,  \* the windows it took from the index
    lastSent, \* last_sent, the fingerprint
    link,     \* the messages on their way: each is the points it carries
    chart,    \* stamps and data of the chart
    drops     \* how often the connection broke

redis == <<store, writes, reduced>>
session == <<server, members, lastSent>>
vars == <<redis, session, link, chart, drops>>

Nothing == <<>>
Servers == {"closed", "history", "fetch history", "latest", "fetch latest"}

Init ==
    /\ store = EmptyStore
    /\ writes = 0
    /\ reduced = {}
    /\ server = "closed"
    /\ members = {}
    /\ lastSent = Nothing
    /\ link = <<>>
    /\ chart = <<>>
    /\ drops = 0

-----------------------------------------------------------------------------
(* Redis *)

Live(w) == store.slices[w] # NoHash

(* A rewrite that leaves out an event of the slice that is there.          *)
Reduces(old, new) == old # NoSlice /\ ~(old \subseteq new)

(* One aggregator flushes a run of windows of its partition: those that    *)
(* closed since, or, when it replays or was the owner before, any earlier  *)
(* ones, with what it counted in them this time.                           *)
WriteWindows(p, from, to) ==
    LET batch == from .. to IN
    /\ writes < MaxWrites
    /\ from <= to
    /\ batch \subseteq StoredWindows
    /\ \E slices \in [batch -> Contents[p]] :
          /\ store' = Write(store, {<<p, w, slices[w]>> : w \in batch})
          /\ reduced' = reduced \cup
                {w \in batch : Reduces(store.slices[w][p], slices[w])}
    /\ writes' = writes + 1
    /\ UNCHANGED <<session, link, chart, drops>>

(* A hash runs out of its time to live; RedisSink says when.  The index    *)
(* goes on naming the window.                                              *)
Expire(w) ==
    /\ Live(w)
    /\ store' = ExpireHash(store, w)
    /\ reduced' = reduced \cup {w}
    /\ UNCHANGED <<writes, session, link, chart, drops>>

-----------------------------------------------------------------------------
(* The API *)

Slices(w) == {p \in Writers : store.slices[w][p] # NoSlice}

(* A point of the chart: both reads draw no more than this of a window.    *)
Point(w) ==
    LET sums == HistoryPoint([p \in Slices(w) |-> Totals(store.slices[w][p])])
    IN  <<w, sums.total, sums.bots>>

(* (data["window_start"], data["total_edits"]) *)
Fingerprint(point) == <<point[1], point[2]>>

(* Mutation of Newest: zrange from the wrong end.                          *)
Oldest(n) == {w \in store.index : Cardinality({v \in store.index : v < w}) < n}

Newest(n) == {w \in store.index : Cardinality({v \in store.index : v > w}) < n}

(* The page opens the socket; ws() accepts it.                             *)
Connect ==
    /\ server = "closed"
    /\ server' = "history"
    /\ lastSent' = Nothing
    /\ UNCHANGED <<redis, members, link, chart, drops>>

(* The zrange of read_history() or of read_latest(). *)
ReadIndex ==
    /\ server \in {"history", "latest"}
    /\ members' = Newest(IF server = "history" THEN HistoryMax ELSE 1)
    /\ server' = IF server = "history" THEN "fetch history" ELSE "fetch latest"
    /\ UNCHANGED <<redis, lastSent, link, chart, drops>>

(* Oldest first. *)
Ascending(windows) ==
    CHOOSE f \in [1 .. Cardinality(windows) -> windows] :
        \A i, j \in DOMAIN f : i < j => f[i] < f[j]

(* The rest of read_history(): a window whose hash is gone is skipped.     *)
SendHistory ==
    LET found == Ascending({w \in members : Live(w)}) IN
    /\ server = "fetch history"
    /\ link' = Append(link, [i \in DOMAIN found |-> Point(found[i])])
    /\ server' = "latest"
    /\ members' = {}
    /\ UNCHANGED <<redis, lastSent, chart, drops>>

(* Mutation of SendLatest: the fingerprint is the window alone.            *)
SendLatestOnce ==
    LET found == {w \in members : Live(w)}
        point == Point(CHOOSE w \in found : TRUE)
        changed == found # {} /\ (lastSent = Nothing \/ point[1] # lastSent[1])
    IN  /\ server = "fetch latest"
        /\ link' = IF changed THEN Append(link, <<point>>) ELSE link
        /\ lastSent' = IF changed THEN Fingerprint(point) ELSE lastSent
        /\ server' = "latest"
        /\ members' = {}
        /\ UNCHANGED <<redis, chart, drops>>

(* The rest of read_latest() and of the turn of the loop in ws().          *)
SendLatest ==
    LET found == {w \in members : Live(w)}
        point == Point(CHOOSE w \in found : TRUE)
        changed == found # {} /\ Fingerprint(point) # lastSent
    IN  /\ server = "fetch latest"
        /\ link' = IF changed THEN Append(link, <<point>>) ELSE link
        /\ lastSent' = IF changed THEN Fingerprint(point) ELSE lastSent
        /\ server' = "latest"
        /\ members' = {}
        /\ UNCHANGED <<redis, chart, drops>>

(* The connection breaks, and what was on its way is lost.                 *)
Drop ==
    /\ server # "closed"
    /\ drops < MaxDrops
    /\ drops' = drops + 1
    /\ server' = "closed"
    /\ members' = {}
    /\ lastSent' = Nothing
    /\ link' = <<>>
    /\ UNCHANGED <<redis, chart>>

-----------------------------------------------------------------------------
(* The page *)

(* Mutations of PushPoint: nothing makes room, or a correction is added to *)
(* what is drawn.                                                          *)
PushPointGrows(points, p) ==
    IF points # <<>> /\ Last(points)[1] = p[1]
    THEN ReplaceAt(points, Len(points), p)
    ELSE Append(points, p)
PushPointAdds(points, p) ==
    IF points # <<>> /\ Last(points)[1] = p[1]
    THEN ReplaceAt(points, Len(points), <<p[1], Last(points)[2] + p[2], p[3]>>)
    ELSE IF Len(points) = MaxPoints THEN Append(Tail(points), p) ELSE Append(points, p)

(* pushPoint(): the last point is replaced when its window comes again,    *)
(* and the oldest makes room when the chart is full.                       *)
PushPoint(points, p) ==
    IF points # <<>> /\ Last(points)[1] = p[1]
    THEN ReplaceAt(points, Len(points), p)
    ELSE IF Len(points) = MaxPoints THEN Append(Tail(points), p) ELSE Append(points, p)

(* onmessage *)
Receive ==
    /\ link # <<>>
    /\ chart' = FoldLeft(PushPoint, chart, Head(link))
    /\ link' = Tail(link)
    /\ UNCHANGED <<redis, session, drops>>

-----------------------------------------------------------------------------
Serve == ReadIndex \/ SendHistory \/ SendLatest

Next ==
    \/ \E p \in Writers, from, to \in StoredWindows : WriteWindows(p, from, to)
    \/ \E w \in StoredWindows : Expire(w)
    \/ Connect
    \/ ReadIndex
    \/ SendHistory
    \/ SendLatest
    \/ Drop
    \/ Receive

Spec == Init /\ [][Next]_vars

(* The page reconnects, the handler goes on and a message that is not lost *)
(* arrives; nobody has to write, no hash has to expire and no connection   *)
(* has to break.                                                           *)
FairSpec == Spec /\ WF_vars(Connect) /\ WF_vars(Serve) /\ WF_vars(Receive)
-----------------------------------------------------------------------------
(* Properties *)

Points == StoredWindows \X Nat \X Nat
Latest == CHOOSE w \in store.index : \A v \in store.index : v <= w

TypeOK ==
    /\ store.index \subseteq StoredWindows
    /\ \A w \in StoredWindows, p \in Writers :
          store.slices[w][p] \in Contents[p] \cup {NoSlice}
    /\ writes \in 0 .. MaxWrites
    /\ reduced \subseteq StoredWindows
    /\ server \in Servers
    /\ members \subseteq StoredWindows
    /\ lastSent \in (StoredWindows \X Nat) \cup {Nothing}
    /\ \A i \in 1 .. Len(link) : \A j \in 1 .. Len(link[i]) : link[i][j] \in Points
    /\ \A i \in 1 .. Len(chart) : chart[i] \in Points
    /\ Len(chart) <= MaxPoints
    /\ drops \in 0 .. MaxDrops

(* The chart runs forward in time as long as the connection lasts, however *)
(* writes, rewrites, trims and expiry fall between the two reads of a      *)
(* request and between the history and the first push: only a reconnection *)
(* takes it back.                                                          *)
StepsBack == {i \in 1 .. Len(chart) - 1 : chart[i + 1][1] <= chart[i][1]}
ForwardWhileConnected == Cardinality(StepsBack) <= drops

(* What the chart shows of a window that is in Redis is never more than    *)
(* its hash says, unless the window itself has lost something: two reads   *)
(* of a window are not mixed, a slice is not added twice, and a window     *)
(* that was trimmed does not come back with some of its slices.  A rewrite *)
(* with less, and a write after the hash expired, do take back what was    *)
(* drawn.                                                                  *)
NeverMoreThanWritten ==
    \A i \in 1 .. Len(chart) :
        LET w == chart[i][1]
            point == Point(w)
        IN  Live(w) /\ w \notin reduced => chart[i][2] <= point[2] /\ chart[i][3] <= point[3]

(* The hashes a window may have, and the ways its slices may have been     *)
(* summarised; the least count a summary lists when its list is cut off.   *)
Hashes == {h \in [Writers -> {NoSlice} \cup UNION Range(Contents)] :
              \A p \in Writers : h[p] \in {NoSlice} \cup Contents[p]}
There(h) == {p \in Writers : h[p] # NoSlice}
Events(h) == UNION {h[p] : p \in There(h)}
Summarised(h) ==
    {f \in [There(h) -> UNION {Snapshots(h[p]) : p \in There(h)}] :
        \A p \in There(h) : f[p] \in Snapshots(h[p])}
Cut(summary) ==
    IF Cardinality(DOMAIN summary.editors) < TopEditors
    THEN 0 ELSE Min(Range(summary.editors))

FaithfullyMerged ==
    {h \in Hashes : \A slices \in Summarised(h) :
        LET merged == MergePartials(slices)
            short(u) == Tally(Events(h), UserOf)[u] - merged.editors[u]
        IN  /\ merged.counts = Totals(Events(h))
            /\ merged.wikis = Tally(Events(h), WikiOf)
            /\ \A u \in DOMAIN merged.editors :
                  short(u) \in 0 .. MapThenSumSet(LAMBDA p : Cut(slices[p]),
                      {p \in There(h) : u \notin DOMAIN slices[p].editors})}

(* What merging the slices gives, whichever of them are there yet, is what *)
(* one summary of all their events would have said: totals, bots and wikis *)
(* exactly, in the full record as in the chart's.  No editor is credited   *)
(* with too much, and with too little only by what the cut of the slices   *)
(* that do not list him can hide (merge.py: "What merges exactly, and what *)
(* does not").                                                             *)
MergeIsExact ==
    \A w \in StoredWindows : store.slices[w] \in FaithfullyMerged

(* The chart catches up: when writing pauses for longer than a turn of the *)
(* loop and shorter than the time to live of the newest hash, the newest   *)
(* window is drawn with its total, after corrections that add or take      *)
(* away, and after reconnections (server.py, "the client needs that        *)
(* correction").  Of the bots it says nothing: a rewrite that leaves the   *)
(* total as it was is not sent.                                            *)
NewestIsShown ==
    <>[](store.index # {} /\ Live(Latest))
        => <>[](/\ store.index # {} /\ chart # <<>>
                /\ Fingerprint(Last(chart)) = Fingerprint(Point(Latest)))

(* "A window can be revised after we first draw it [...] Replace, don't    *)
(* append" (index.html): no window is drawn twice.                         *)
NoWindowTwice ==
    \A i, j \in 1 .. Len(chart) : chart[i][1] = chart[j][1] => i = j

(* "a dashboard should show a flat line during a quiet period, not a hole" *)
(* (window.py): consecutive points are of consecutive windows.             *)
NoHole ==
    \A i \in 1 .. Len(chart) - 1 : chart[i + 1][1] <= chart[i][1] + 1

(* "a window can gain a partition's slice after we first read it, and the  *)
(* client needs that correction" (server.py): in the end every point still *)
(* in the history has the window's total.                                  *)
CorrectionsArrive ==
    <>[](\A i \in 1 .. Len(chart) :
            Live(chart[i][1]) => chart[i] = Point(chart[i][1]))

(* "With one aggregator (the default) there is a single slice and the      *)
(* result is exact" (merge.py, of top_editors): one aggregator writes a    *)
(* slice for each partition it owns.                                       *)
TopEditorsExact ==
    \A w \in StoredWindows : \A slices \in Summarised(store.slices[w]) :
        Live(w) => MergePartials(slices).editors
                      \in MostCommon(Tally(Events(store.slices[w]), UserOf))
=============================================================================
