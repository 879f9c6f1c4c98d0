----------------------------- MODULE Aggregator -----------------------------
(***************************************************************************)
(* One aggregator (src/pipeline/consumer/aggregator.py) that owns every    *)
(* partition of the topic, the default deployment: it polls Kafka, routes  *)
(* each message into its partition's tumbling window, writes the windows   *)
(* that have closed to Redis and only then commits the offsets that went   *)
(* into them.  The process may die between any two steps and is restarted  *)
(* by its supervisor.                                                      *)
(*                                                                         *)
(* Kafka is modelled as the code uses it: a log per partition, the         *)
(* committed offset of the group, and poll(), which returns any run of     *)
(* messages that follows the position.                                     *)
(***************************************************************************)
EXTENDS Windowing, Sequences, FiniteSets

CONSTANTS
    Partitions,     \* the partitions of the topic
    Stamps,         \* the payload timestamps producers use; None is a message without
    Disorder,       \* bound: how far a payload timestamp may lag behind an earlier one
    TimeSource,     \* WINDOW_TIME_SOURCE: "arrival" or "event"
    HistoryMax,     \* HISTORY_MAX
    InitialCommit,  \* the group's committed offset at the start: 0, or None
    MaxNow,         \* bound on the wall clock
    MaxRestarts     \* bound on how often the process dies or is stopped

ASSUME MessagesAssumption == Messages \subseteq Nat
ASSUME StampsAssumption == Stamps \subseteq (0 .. MaxTime) \cup {None}
ASSUME DisorderAssumption == Disorder \in Nat
ASSUME TimeSourceAssumption == TimeSource \in {"arrival", "event"}
ASSUME InitialCommitAssumption == InitialCommit \in {0, None}
ASSUME MaxNowAssumption == MaxNow \in 0 .. MaxTime
ASSUME MaxRestartsAssumption == MaxRestarts \in Nat

Tracker == INSTANCE Offsets WITH PendingWindows <- Windows, NoOffset <- None
Redis == INSTANCE RedisStore
            WITH StoredWindows <- Windows, Writers <- Partitions, NoSlice <- None

VARIABLES
    now,        \* the wall clock
    log,        \* Kafka: the messages of each partition, told apart by offset
    committed,  \* Kafka: the group's committed offset of each partition
    store,      \* Redis
    pc,         \* where the main loop is, "down" when there is no process
    arrival,    \* the time read after the last poll
    pos,        \* the offset to be added next
    fetched,    \* the offset after the last one poll() returned
    mgr,        \* _managers: a fresh record is a manager not created yet
    pending,    \* the OffsetTracker
    closing,    \* the summaries on their way to Redis
    restarts,   \* how often the process ended
    seen,       \* history: the offsets ever added
    written,    \* history: the offsets counted in a slice that reached Redis
    dropped     \* history: the offsets discarded as late

memory == <<arrival, pos, fetched, mgr, pending, closing>>
history == <<seen, written, dropped>>
vars == <<now, log, committed, store, pc, memory, restarts, history>>

NoClosing == [windows |-> {}, slices |-> [w \in Windows |-> NoEvents]]
PCs == {"down", "poll", "add", "write", "commit"}

Init ==
    /\ now = 0
    /\ log = [p \in Partitions |-> <<>>]
    /\ committed = [p \in Partitions |-> InitialCommit]
    /\ store = Redis!EmptyStore
    /\ pc = "down"
    /\ arrival = 0
    /\ pos = [p \in Partitions |-> 0]
    /\ fetched = [p \in Partitions |-> 0]
    /\ mgr = [p \in Partitions |-> NewManager]
    /\ pending = [p \in Partitions |-> Tracker!NoPending]
    /\ closing = [p \in Partitions |-> NoClosing]
    /\ restarts = 0
    /\ seen = [p \in Partitions |-> {}]
    /\ written = [p \in Partitions |-> {}]
    /\ dropped = [p \in Partitions |-> {}]

-----------------------------------------------------------------------------
(* The world *)

Tick ==
    /\ now < MaxNow
    /\ now' = now + 1
    /\ UNCHANGED <<log, committed, store, pc, memory, restarts, history>>

InOrder(p, stamp) ==
    \A i \in 1 .. Len(log[p]) :
        log[p][i] # None /\ stamp # None => log[p][i] - Disorder <= stamp

Produce(p) ==
    /\ Len(log[p]) \in Messages
    /\ \E stamp \in Stamps :
         /\ InOrder(p, stamp)
         /\ log' = [log EXCEPT ![p] = Append(@, stamp)]
    /\ UNCHANGED <<now, committed, store, pc, memory, restarts, history>>

(* Mutations of StartPosition: the committed offset is taken for the last  *)
(* one processed, or is ignored.                                           *)
StartAfterCommitted(p) == IF committed[p] = None THEN Len(log[p]) ELSE committed[p] + 1
StartAtEnd(p) == Len(log[p])

(* make_consumer and Aggregator.__init__: the position of a partition is   *)
(* the committed offset, or the end of the log when there is none          *)
(* (auto_offset_reset="latest").                                           *)
StartPosition(p) == IF committed[p] = None THEN Len(log[p]) ELSE committed[p]

Start ==
    /\ pc = "down"
    /\ pc' = "poll"
    /\ arrival' = now
    /\ pos' = [p \in Partitions |-> StartPosition(p)]
    /\ fetched' = pos'
    /\ UNCHANGED <<now, log, committed, store, mgr, pending, closing, restarts, history>>

(* The process ends: all that it knew is gone. *)
Die ==
    /\ pc' = "down"
    /\ restarts < MaxRestarts
    /\ restarts' = restarts + 1
    /\ arrival' = 0
    /\ pos' = [p \in Partitions |-> 0]
    /\ fetched' = [p \in Partitions |-> 0]
    /\ mgr' = [p \in Partitions |-> NewManager]
    /\ pending' = [p \in Partitions |-> Tracker!NoPending]
    /\ closing' = [p \in Partitions |-> NoClosing]

Crash ==
    /\ pc # "down"
    /\ Die
    /\ UNCHANGED <<now, log, committed, store, history>>

(* stop() and _shutdown(): the loop ends after the iteration in progress,  *)
(* and the open windows are discarded, not flushed.                        *)
Shutdown ==
    /\ pc = "poll"
    /\ Die
    /\ UNCHANGED <<now, log, committed, store, history>>

-----------------------------------------------------------------------------
(* The main loop: run() *)

Poll ==
    /\ pc = "poll"
    /\ arrival' = now
    /\ \E upto \in [Partitions -> UNION {pos[p] .. Len(log[p]) : p \in Partitions}] :
         /\ \A p \in Partitions : upto[p] \in pos[p] .. Len(log[p])
         /\ fetched' = upto
    /\ pc' = "add"
    /\ UNCHANGED <<now, log, committed, store, pos, mgr, pending, closing, restarts, history>>

(* event_timestamp() *)
Timestamp(stamp) ==
    IF TimeSource = "event" /\ stamp # None /\ stamp > 0 THEN stamp ELSE arrival

(* One turn of the inner loop: a message that is not late is recorded      *)
(* under the window it was added to.                                       *)
AddMessage(p) ==
    LET offset == pos[p]
        ts == Timestamp(log[p][offset + 1])
        late == IsLate(mgr[p], ts)
    IN  /\ pc = "add"
        /\ offset < fetched[p]
        /\ mgr' = [mgr EXCEPT ![p] = Add(@, offset, ts)]
        /\ pending' = [pending EXCEPT ![p] =
                         IF late THEN @ ELSE Tracker!Record(@, offset, Win(ts))]
        /\ pos' = [pos EXCEPT ![p] = offset + 1]
        /\ seen' = [seen EXCEPT ![p] = @ \cup {offset}]
        /\ dropped' = [dropped EXCEPT ![p] = IF late THEN @ \cup {offset} ELSE @]
        /\ UNCHANGED <<now, log, committed, store, pc, arrival, fetched, closing,
                       restarts, written>>

-----------------------------------------------------------------------------
(* _flush() *)

AllAdded == \A p \in Partitions : pos[p] = fetched[p]

(* Mutation of Clock: windows close by the watermark in both modes.        *)
ClockIsWatermark(p) == mgr[p].maxTs

(* _clock() *)
Clock(p) == IF TimeSource = "arrival" THEN arrival ELSE mgr[p].maxTs

ClosesNow(p) == Clock(p) # None /\ Closes(mgr[p], Clock(p))

FlushNothing ==
    /\ pc = "add"
    /\ AllAdded
    /\ \A p \in Partitions : ~ClosesNow(p)
    /\ pc' = "poll"
    /\ UNCHANGED <<now, log, committed, store, memory, restarts, history>>

Counted(bags) == {o \in Messages : \E w \in Windows : bags[w][o] > 0}

Flush ==
    /\ pc = "add"
    /\ AllAdded
    /\ \E p \in Partitions : ClosesNow(p)
    /\ pc' = "write"
    /\ mgr' = [p \in Partitions |->
                 IF ClosesNow(p) THEN PopClosed(mgr[p], Clock(p)) ELSE mgr[p]]
    /\ closing' = [p \in Partitions |->
                     IF ClosesNow(p)
                     THEN [windows |-> Popped(mgr[p], Clock(p)),
                           slices  |-> Summaries(mgr[p], Clock(p))]
                     ELSE NoClosing]
    /\ dropped' = [p \in Partitions |->
                     IF ClosesNow(p)
                     THEN dropped[p] \cup Counted(Dropped(mgr[p], Clock(p)))
                     ELSE dropped[p]]
    /\ UNCHANGED <<now, log, committed, store, arrival, pos, fetched, pending,
                   restarts, seen, written>>

Entries == UNION {{<<p, w, closing[p].slices[w]>> : w \in closing[p].windows} :
                  p \in Partitions}

SliceReachesRedis ==
    /\ store' = Redis!Write(store, Entries)
    /\ written' = [p \in Partitions |-> written[p] \cup Counted(closing[p].slices)]

(* Mutation of Write: a failing call is logged and not raised.             *)
WriteNotRaised ==
    /\ pc = "write"
    /\ SliceReachesRedis \/ UNCHANGED <<store, written>>
    /\ pc' = "commit"
    /\ UNCHANGED <<now, log, committed, memory, restarts, seen, dropped>>

Write ==
    /\ pc = "write"
    /\ SliceReachesRedis
    /\ pc' = "commit"
    /\ UNCHANGED <<now, log, committed, memory, restarts, seen, dropped>>

(* The call to Redis raises, and the process ends; the script may have run *)
(* all the same.                                                           *)
WriteFails ==
    /\ pc = "write"
    /\ SliceReachesRedis \/ UNCHANGED <<store, written>>
    /\ Die
    /\ UNCHANGED <<now, log, committed, seen, dropped>>

(* Mutation of Release: the consumer's position is committed.              *)
ReleasePosition(p) == IF closing[p].windows = {} THEN None ELSE pos[p]

(* released_through: the window of the last summary of each partition that *)
(* has one, which is what pop_closed left in _emitted_through.             *)
Release(p) ==
    IF closing[p].windows = {}
    THEN None
    ELSE Tracker!SafeOffset(pending[p], mgr[p].emitted)

CommitFor(done) ==
    [p \in Partitions |->
        IF p \in done /\ Release(p) # None THEN Release(p) ELSE committed[p]]

Commit ==
    /\ pc = "commit"
    /\ committed' = CommitFor(Partitions)
    /\ pending' = [p \in Partitions |->
                     IF closing[p].windows = {}
                     THEN pending[p]
                     ELSE Tracker!Released(pending[p], mgr[p].emitted)]
    /\ closing' = [p \in Partitions |-> NoClosing]
    /\ pc' = "poll"
    /\ UNCHANGED <<now, log, store, arrival, pos, fetched, mgr, restarts, history>>

(* consumer.commit() raises, and the process ends; the broker may have     *)
(* taken the offsets of any of the partitions.                             *)
CommitFails ==
    /\ pc = "commit"
    /\ \E p \in Partitions : Release(p) # None
    /\ \E done \in SUBSET Partitions : committed' = CommitFor(done)
    /\ Die
    /\ UNCHANGED <<now, log, store, history>>

-----------------------------------------------------------------------------
Loop == Poll \/ (\E p \in Partitions : AddMessage(p)) \/ FlushNothing \/ Flush
        \/ Write \/ Commit

Next ==
    \/ Tick
    \/ \E p \in Partitions : Produce(p)
    \/ Start
    \/ Poll
    \/ \E p \in Partitions : AddMessage(p)
    \/ FlushNothing
    \/ Flush
    \/ Write
    \/ WriteFails
    \/ Commit
    \/ CommitFails
    \/ Crash
    \/ Shutdown

Spec == Init /\ [][Next]_vars

(* The supervisor restarts the process (docker-compose.yml), the loop does *)
(* not stop by itself, time passes, and a poll that could return messages  *)
(* cannot come back empty-handed for ever.                                 *)
PollSome == Poll /\ fetched' # pos

FairSpec ==
    /\ Spec
    /\ WF_vars(Tick)
    /\ WF_vars(Start)
    /\ WF_vars(Loop)
    /\ SF_vars(PollSome)
-----------------------------------------------------------------------------
(* Properties *)

TypeOK ==
    /\ now \in 0 .. MaxNow
    /\ log \in [Partitions -> Seq(Stamps)]
    /\ \A p \in Partitions : 0 .. Len(log[p]) - 1 \subseteq Messages
    /\ committed \in [Partitions -> Nat \cup {None}]
    /\ store.index \subseteq Int
    /\ store.slices \in [Windows -> [Partitions -> Bags \cup {None}]]
    /\ pc \in PCs
    /\ arrival \in 0 .. now
    /\ pos \in [Partitions -> Nat]
    /\ fetched \in [Partitions -> Nat]
    /\ \A p \in Partitions : pos[p] <= fetched[p] /\ fetched[p] <= Len(log[p])
    /\ mgr \in [Partitions -> Managers]
    /\ pending \in [Partitions -> Tracker!Pending]
    /\ closing \in [Partitions -> [windows : SUBSET Int, slices : [Windows -> Bags]]]
    /\ restarts \in 0 .. MaxRestarts
    /\ seen \in [Partitions -> SUBSET Messages]
    /\ written \in [Partitions -> SUBSET Messages]
    /\ dropped \in [Partitions -> SUBSET Messages]

(* The offsets counted so far only in memory: in a window still open, or   *)
(* in a summary that has not reached Redis.                                *)
Unwritten(p) == Counted(mgr[p].windows)
                \cup (IF pc = "write" THEN Counted(closing[p].slices) ELSE {})

(* An offset is committed only once the window its message contributed to  *)
(* has been written: while a message is in memory alone, the committed     *)
(* offset has not passed it, so a crash replays it (tests/test_offsets.py, *)
(* offsets.py).                                                            *)
WithheldUntilWritten ==
    \A p \in Partitions : \A o \in Unwritten(p) :
        committed[p] # None => committed[p] <= o

(* A message the aggregator has taken from Kafka is never skipped: if the  *)
(* position has passed it, it is in memory, in Redis, or counted as late,  *)
(* whatever crashes and failed calls came between (docs/DESIGN.md section  *)
(* 1, "A crash therefore replays every message whose window was still      *)
(* open").                                                                 *)
NothingSkipped ==
    pc # "down" =>
        \A p \in Partitions : \A o \in seen[p] :
            o < pos[p] => o \in Unwritten(p) \cup written[p] \cup dropped[p]

(* What is committed was written: no message below the committed offset    *)
(* was discarded instead of counted.                                       *)
CommittedWasWritten ==
    \A p \in Partitions : \A o \in seen[p] :
        committed[p] # None /\ o < committed[p] => o \in written[p]

(* A message is counted in one window of the history only, however often   *)
(* it is replayed ("effectively-once window output", aggregator.py).       *)
CountedInOneWindow ==
    \A p \in Partitions, o \in Messages :
        Cardinality({w \in Windows : /\ store.slices[w][p] # None
                                     /\ store.slices[w][p][o] > 0}) <= 1

(* No message is discarded: the grace period is long enough for every      *)
(* straggler that lags by at most Disorder (DESIGN.md section 2, "Grace    *)
(* period").                                                               *)
StragglersKept == \A p \in Partitions : dropped[p] = {}

(* A slice in Redis is final: what a dashboard has shown for a window and  *)
(* partition does not change afterwards, not even across restarts.         *)
SlicesAreFinal ==
    [][\A w \in Windows, p \in Partitions :
          store.slices[w][p] # None => store'.slices[w][p] \in {store.slices[w][p], None}]_vars

(* A slice that is written again is at least as complete as the one it     *)
(* replaces (sink.py: re-emitting a window after a replay replaces it with *)
(* the same, or a more complete, slice).                                   *)
SlicesNeverShrink ==
    [][\A w \in Windows, p \in Partitions :
          store.slices[w][p] # None /\ store'.slices[w][p] # None =>
              \A o \in Messages : store.slices[w][p][o] <= store'.slices[w][p][o]]_vars

(* In arrival mode the window of a message that is being added is still    *)
(* open: a message is never late, however the polls and the flushes fall.  *)
NeverLate ==
    \A p \in Partitions : mgr[p].emitted # None => mgr[p].emitted < Win(arrival)

(* Committed offsets advance over settled messages only, as the abstract   *)
(* specification has it.                                                   *)
Abstract == INSTANCE CommitAfterWrite
              WITH end <- [p \in Partitions |-> Len(log[p])],
                   settled <- [p \in Partitions |-> written[p] \cup dropped[p]]
ImplementsCommitAfterWrite == Abstract!Spec

(* Every message that reaches Kafka is written, or counted as late, in     *)
(* spite of crashes and failing calls, as long as its window ends within   *)
(* the modelled time; none stays for ever in Kafka, in an open window or   *)
(* in a summary that failed to be written.                                 *)
EndsBeyondHorizon(w) == (w + 1) * Size + Grace > MaxNow
Settled(p, o) ==
    \/ o \in written[p] \cup dropped[p]
    \/ \E w \in Windows : mgr[p].windows[w][o] > 0 /\ EndsBeyondHorizon(w)
EveryMessageIsSettled ==
    \A p \in Partitions, o \in Messages : o < Len(log[p]) ~> []Settled(p, o)
=============================================================================
