--------------------------- MODULE AggregatorGroup ---------------------------
(***************************************************************************)
(* Several aggregators that share the consumer group, in arrival mode      *)
(* (docs/DESIGN.md section 4).  Each keeps a WindowManager and pending     *)
(* offsets per partition it was ever assigned: no code runs when a         *)
(* partition is revoked (OffsetTracker.forget() is never called), so the   *)
(* former owner goes on closing, writing and committing the windows it had *)
(* open.                                                                   *)
(*                                                                         *)
(* The group is modelled as the consumer library behaves: partitions move  *)
(* only while the members concerned are inside poll(); a member that is    *)
(* stalled elsewhere may be evicted, and its next commit raises; a commit  *)
(* of a current member is taken whatever partition it names; a partition   *)
(* a member gains starts at the committed offset.                          *)
(***************************************************************************)
EXTENDS Windowing, FiniteSets, FiniteSetsExt

CONSTANTS
    Members,     \* the aggregator processes
    Partitions,  \* the partitions of the topic
    HistoryMax,  \* HISTORY_MAX
    MaxNow,      \* bound on the wall clock
    MaxFaults    \* bound on how often members die or are evicted

ASSUME MessagesAssumption == Messages \subseteq Nat
ASSUME MaxNowAssumption == MaxNow \in 0 .. MaxTime
ASSUME MaxFaultsAssumption == MaxFaults \in Nat
ASSUME MembersAssumption == None \notin Members

Tracker == INSTANCE Offsets WITH PendingWindows <- Windows, NoOffset <- None
Redis == INSTANCE RedisStore
            WITH StoredWindows <- Windows, Writers <- Partitions, NoSlice <- None

VARIABLES
    now,        \* the wall clock
    end,        \* Kafka: the end of each partition's log
    committed,  \* Kafka: the group's committed offset of each partition
    owner,      \* Kafka: the member each partition is assigned to, or None
    joined,     \* Kafka: the members of the current generation
    store,      \* Redis
    pc,         \* where each member's loop is, "down" when there is no process
    pos,        \* the position of each partition's owner
    mgr,        \* _managers of each member
    pending,    \* the OffsetTracker of each member
    closing,    \* the summaries each member is about to write
    faults,     \* how often a member died or was evicted
    written,    \* history: the offsets counted in a slice that reached Redis
    dropped     \* history: the offsets discarded as late

kafka == <<end, committed, owner, joined, pos>>
memory == <<mgr, pending, closing>>
vars == <<now, kafka, store, pc, memory, faults, written, dropped>>

NoClosing == [windows |-> {}, slices |-> [w \in Windows |-> NoEvents]]
Fresh(x) == [p \in Partitions |-> x]

Init ==
    /\ now = 0
    /\ end = Fresh(0)
    /\ committed = Fresh(0)
    /\ owner = Fresh(None)
    /\ joined = {}
    /\ store = Redis!EmptyStore
    /\ pc = [m \in Members |-> "down"]
    /\ pos = Fresh(0)
    /\ mgr = [m \in Members |-> Fresh(NewManager)]
    /\ pending = [m \in Members |-> Fresh(Tracker!NoPending)]
    /\ closing = [m \in Members |-> Fresh(NoClosing)]
    /\ faults = 0
    /\ written = Fresh({})
    /\ dropped = Fresh({})

-----------------------------------------------------------------------------
(* The world *)

Tick ==
    /\ now < MaxNow
    /\ now' = now + 1
    /\ UNCHANGED <<kafka, store, pc, memory, faults, written, dropped>>

Produce(p) ==
    /\ end[p] \in Messages
    /\ end' = [end EXCEPT ![p] = @ + 1]
    /\ UNCHANGED <<now, committed, owner, joined, pos, store, pc, memory, faults,
                   written, dropped>>

Start(m) ==
    /\ pc[m] = "down"
    /\ pc' = [pc EXCEPT ![m] = "poll"]
    /\ UNCHANGED <<now, kafka, store, memory, faults, written, dropped>>

(* The coordinator forgets m: its partitions are nobody's.                 *)
Leaves(m) ==
    /\ joined' = joined \ {m}
    /\ owner' = [p \in Partitions |-> IF owner[p] = m THEN None ELSE owner[p]]

(* The members in poll() join a new generation; all those of the current   *)
(* one must be there.  What a member keeps, it reads on where it was.      *)
Rebalance ==
    \E group \in SUBSET {m \in Members : pc[m] = "poll"} \ {{}} :
    \E assigned \in [Partitions -> group] :
        /\ joined \subseteq group
        /\ group # joined \/ \E p \in Partitions : owner[p] = None
        /\ joined' = group
        /\ owner' = assigned
        /\ pos' = [p \in Partitions |->
                     IF assigned[p] = owner[p] THEN pos[p] ELSE committed[p]]
        /\ UNCHANGED <<now, end, committed, store, pc, memory, faults, written, dropped>>

(* A member that is not heard of in time is evicted without knowing it.    *)
Evict(m) ==
    /\ m \in joined
    /\ faults < MaxFaults
    /\ faults' = faults + 1
    /\ Leaves(m)
    /\ UNCHANGED <<now, end, committed, pos, store, pc, memory, written, dropped>>

Die(m) ==
    /\ pc' = [pc EXCEPT ![m] = "down"]
    /\ mgr' = [mgr EXCEPT ![m] = Fresh(NewManager)]
    /\ pending' = [pending EXCEPT ![m] = Fresh(Tracker!NoPending)]
    /\ closing' = [closing EXCEPT ![m] = Fresh(NoClosing)]
    /\ Leaves(m)

Crash(m) ==
    /\ pc[m] # "down"
    /\ faults < MaxFaults
    /\ faults' = faults + 1
    /\ Die(m)
    /\ UNCHANGED <<now, end, committed, pos, store, written, dropped>>

-----------------------------------------------------------------------------
(* One turn of run() up to the write.  All of it is local to the member,   *)
(* so it is one step.                                                      *)

(* Mutation of AddRun: the message that creates the manager is not counted.*)
AddRunAfterFirst(manager, run, ts) ==
    IF run = {} THEN manager
    ELSE IF manager.emitted = None
    THEN [manager EXCEPT !.maxTs = Watermark(manager, ts), !.emitted = Origin(manager, ts)]
    ELSE [manager EXCEPT !.maxTs = Watermark(manager, ts),
                         !.windows[Win(ts)] = [m \in Messages |->
                            @[m] + (IF m \in run THEN 1 ELSE 0)]]

(* add() and record() for a run of messages with the same timestamp.       *)
AddRun(manager, run, ts) ==
    LET counted == [m \in Messages |-> IF m \in run THEN 1 ELSE 0]
        more(bag) == [m \in Messages |-> bag[m] + counted[m]]
    IN  IF run = {} THEN manager
        ELSE IF IsLate(manager, ts)
        THEN [manager EXCEPT !.maxTs = Watermark(manager, ts), !.late[Win(ts)] = more(@)]
        ELSE [manager EXCEPT !.maxTs = Watermark(manager, ts),
                             !.emitted = Origin(manager, ts),
                             !.windows[Win(ts)] = more(@)]

RecordRun(manager, offsets, run, ts) ==
    IF run = {} \/ IsLate(manager, ts) THEN offsets
    ELSE Tracker!Record(offsets, Max(run), Win(ts))

Counted(bags) == {o \in Messages : \E w \in Windows : bags[w][o] > 0}

(* upto is where poll() leaves the position of each partition; the flush   *)
(* goes through all the managers, those of revoked partitions included.    *)
Iterate(m) ==
    \E upto \in [Partitions -> UNION {pos[p] .. end[p] : p \in Partitions}] :
    LET Run(p) == pos[p] .. upto[p] - 1
        added  == [p \in Partitions |-> AddRun(mgr[m][p], Run(p), now)]
        closes == {p \in Partitions : Closes(added[p], now)}
    IN  /\ pc[m] = "poll"
        /\ m \in joined
        /\ \A p \in Partitions :
              upto[p] \in pos[p] .. (IF owner[p] = m THEN end[p] ELSE pos[p])
        /\ pos' = upto
        /\ pending' = [pending EXCEPT ![m] = [p \in Partitions |->
                          RecordRun(mgr[m][p], @[p], Run(p), now)]]
        /\ mgr' = [mgr EXCEPT ![m] = [p \in Partitions |->
                      IF p \in closes THEN PopClosed(added[p], now) ELSE added[p]]]
        /\ closing' = [closing EXCEPT ![m] = [p \in Partitions |->
                          IF p \in closes
                          THEN [windows |-> Popped(added[p], now),
                                slices  |-> Summaries(added[p], now)]
                          ELSE NoClosing]]
        /\ dropped' = [p \in Partitions |->
                          dropped[p]
                          \cup (IF IsLate(mgr[m][p], now) THEN Run(p) ELSE {})
                          \cup (IF p \in closes THEN Counted(Dropped(added[p], now)) ELSE {})]
        /\ pc' = [pc EXCEPT ![m] = IF closes = {} THEN "poll" ELSE "write"]
        /\ UNCHANGED <<now, end, committed, owner, joined, store, faults, written>>

-----------------------------------------------------------------------------
(* The rest of _flush() *)

Entries(m) == UNION {{<<p, w, closing[m][p].slices[w]>> : w \in closing[m][p].windows} :
                     p \in Partitions}

Write(m) ==
    /\ pc[m] = "write"
    /\ store' = Redis!Write(store, Entries(m))
    /\ written' = [p \in Partitions |-> written[p] \cup Counted(closing[m][p].slices)]
    /\ pc' = [pc EXCEPT ![m] = "commit"]
    /\ UNCHANGED <<now, kafka, memory, faults, dropped>>

Release(m, p) ==
    IF closing[m][p].windows = {}
    THEN None
    ELSE Tracker!SafeOffset(pending[m][p], mgr[m][p].emitted)

HasCommit(m) == \E p \in Partitions : Release(m, p) # None

(* Without anything to commit, commit() is not called.                     *)
Commit(m) ==
    /\ pc[m] = "commit"
    /\ m \in joined \/ ~HasCommit(m)
    /\ committed' = [p \in Partitions |->
                       IF Release(m, p) # None THEN Release(m, p) ELSE committed[p]]
    /\ pending' = [pending EXCEPT ![m] = [p \in Partitions |->
                      IF closing[m][p].windows = {}
                      THEN @[p]
                      ELSE Tracker!Released(@[p], mgr[m][p].emitted)]]
    /\ closing' = [closing EXCEPT ![m] = Fresh(NoClosing)]
    /\ pc' = [pc EXCEPT ![m] = "poll"]
    /\ UNCHANGED <<now, end, owner, joined, pos, store, mgr, faults, written, dropped>>

(* The commit of an evicted member raises, and the process ends.           *)
CommitFenced(m) ==
    /\ pc[m] = "commit"
    /\ m \notin joined
    /\ HasCommit(m)
    /\ Die(m)
    /\ UNCHANGED <<now, end, committed, pos, store, faults, written, dropped>>

-----------------------------------------------------------------------------
Next ==
    \/ Tick
    \/ \E p \in Partitions : Produce(p)
    \/ \E m \in Members : Start(m)
    \/ Rebalance
    \/ \E m \in Members : Evict(m)
    \/ \E m \in Members : Crash(m)
    \/ \E m \in Members : Iterate(m)
    \/ \E m \in Members : Write(m)
    \/ \E m \in Members : Commit(m)
    \/ \E m \in Members : CommitFenced(m)

Spec == Init /\ [][Next]_vars
-----------------------------------------------------------------------------
(* Properties *)

TypeOK ==
    /\ now \in 0 .. MaxNow
    /\ end \in [Partitions -> Nat]
    /\ \A p \in Partitions : 0 .. end[p] - 1 \subseteq Messages
    /\ committed \in [Partitions -> Nat]
    /\ owner \in [Partitions -> joined \cup {None}]
    /\ joined \subseteq Members
    /\ store.slices \in [Windows -> [Partitions -> Bags \cup {None}]]
    /\ pc \in [Members -> {"down", "poll", "write", "commit"}]
    /\ pos \in [Partitions -> Nat]
    /\ \A p \in Partitions : pos[p] <= end[p]
    /\ mgr \in [Members -> [Partitions -> Managers]]
    /\ pending \in [Members -> [Partitions -> Tracker!Pending]]
    /\ closing \in [Members -> [Partitions -> [windows : SUBSET Int,
                                               slices  : [Windows -> Bags]]]]
    /\ faults \in 0 .. MaxFaults
    /\ written \in [Partitions -> SUBSET Messages]
    /\ dropped \in [Partitions -> SUBSET Messages]

Settled(p) == written[p] \cup dropped[p]

Unwritten(m, p) == Counted(mgr[m][p].windows)
                   \cup (IF pc[m] = "write" THEN Counted(closing[m][p].slices) ELSE {})

(* The committed offset never passes a message that no aggregator has      *)
(* written, whichever of them commits and however partitions move: a       *)
(* former owner's late commit, or one that moves the offset back, does not *)
(* lose messages of the new owner.                                         *)
CommittedIsSettled ==
    \A p \in Partitions, o \in Messages : o < committed[p] => o \in Settled(p)

(* The owner of a partition answers for every message below its position:  *)
(* it has it in memory, or some aggregator has written it.  A partition    *)
(* that changes hands in the middle of a window leaves none behind.        *)
OwnerAccountsForAll ==
    \A p \in Partitions, o \in Messages :
        owner[p] # None /\ o < pos[p] => o \in Settled(p) \cup Unwritten(owner[p], p)

(* "After a rebalance we must not commit offsets for a partition we lost"  *)
(* (tests/test_offsets.py); DESIGN.md section 6, "Nothing is committed for *)
(* them".                                                                  *)
OnlyOwnersCommit ==
    [][\A m \in Members, p \in Partitions :
          Commit(m) /\ committed'[p] # committed[p] => owner[p] = m]_vars

(* "a replica can only ever touch fields for partitions it owns" (sink.py).*)
OnlyOwnersWrite ==
    [][\A m \in Members, p \in Partitions :
          Write(m) /\ closing[m][p].windows # {} => owner[p] = m]_vars

(* "Replayed messages must not double-count" (DESIGN.md section 1): a      *)
(* slice counts no message twice.                                          *)
NoDoubleCount ==
    \A w \in Windows, p \in Partitions, o \in Messages :
        store.slices[w][p] # None => store.slices[w][p][o] <= 1

(* A slice that is written again holds what it held: the state a rebalance *)
(* leaves behind "leaks memory rather than corrupting data" (DESIGN.md     *)
(* section 6).                                                             *)
SlicesNeverShrink ==
    [][\A w \in Windows, p \in Partitions :
          store.slices[w][p] # None /\ store'.slices[w][p] # None =>
              \A o \in Messages : store.slices[w][p][o] <= store'.slices[w][p][o]]_vars
=============================================================================
