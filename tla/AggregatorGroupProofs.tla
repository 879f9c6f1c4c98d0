------------------------ MODULE AggregatorGroupProofs ------------------------
(***************************************************************************)
(* Proofs about the consumer group, for any number of members, partitions  *)
(* and messages, and any number of evictions, crashes and rebalances.      *)
(***************************************************************************)
EXTENDS AggregatorGroup, WindowingProofs

-----------------------------------------------------------------------------
(* Lemmas about what is local to a member                                  *)

(* release_partition() returns the offset after one that is recorded for a *)
(* window that is done.                                                    *)
LEMMA SafeOffsetIsRecorded ==
    ASSUME NEW pend \in Tracker!Pending, NEW b \in Nat, NEW through,
           \A w \in Windows : pend[w] < b,
           Tracker!SafeOffset(pend, through) # None
    PROVE  \E w \in Tracker!Done(pend, through) :
              /\ pend[w] \in Nat
              /\ Tracker!SafeOffset(pend, through) = pend[w] + 1
<1> DEFINE done == Tracker!Done(pend, through)
           S == {pend[w] : w \in done}
<1>1. done # {} /\ done \subseteq Windows
  BY DEF Tracker!SafeOffset, Tracker!Done
<1>2. S \subseteq Nat /\ S # {} /\ \A x \in S : x < b
  BY <1>1 DEF Tracker!Done, Tracker!Pending
<1>3. \E x \in S : \A y \in S : y <= x
  <2> HIDE DEF S
  <2> QED BY <1>2, GreatestExists
<1>4. Tracker!Highest(pend, through) \in S
  BY <1>3 DEF Tracker!Highest
<1> QED BY <1>1, <1>2, <1>4 DEF Tracker!SafeOffset

LEMMA ReleasedFacts ==
    ASSUME NEW pend \in Tracker!Pending, NEW through
    PROVE  /\ Tracker!Released(pend, through) \in Tracker!Pending
           /\ \A u \in Windows : Tracker!Released(pend, through)[u] \in {-1, pend[u]}
BY DEF Tracker!Released, Tracker!Pending

LEMMA NoPendingType == Tracker!NoPending \in Tracker!Pending
BY DEF Tracker!NoPending, Tracker!Pending

LEMMA CountedType == \A bags : Counted(bags) \subseteq Messages
BY DEF Counted

(* A run of messages is a stretch of the log; its last offset is the one   *)
(* that is recorded.                                                       *)
LEMMA RunFacts ==
    ASSUME NEW from \in Nat, NEW last \in Int, from .. last # {}
    PROVE  Max(from .. last) = last /\ last \in Nat /\ from <= last
<1>1. from <= last
  OBVIOUS
<1>2. last \in from .. last /\ \A y \in from .. last : last >= y
  BY <1>1
<1>3. \A x \in from .. last : (\A y \in from .. last : x >= y) => x = last
  BY <1>1
<1> QED BY <1>1, <1>2, <1>3 DEF Max

LEMMA AddRunFacts ==
    ASSUME NEW manager \in Managers, NEW run, NEW ts \in 0 .. MaxTime
    PROVE  /\ AddRun(manager, run, ts) \in Managers
           /\ \A w \in Windows, o \in Messages :
                AddRun(manager, run, ts).windows[w][o] > 0 <=>
                   \/ manager.windows[w][o] > 0
                   \/ o \in run /\ w = Win(ts) /\ ~IsLate(manager, ts)
           /\ AddRun(manager, run, ts).emitted
                = IF run = {} THEN manager.emitted ELSE Origin(manager, ts)
<1> DEFINE v == Win(ts)
           more(bag) == [m \in Messages |->
                            bag[m] + [n \in Messages |-> IF n \in run THEN 1 ELSE 0][m]]
<1>1. v \in Windows /\ v \in Int
  BY WinFacts, MaxTimeAssumption
<1>2. Watermark(manager, ts) \in Nat
  BY MaxTimeAssumption DEF Watermark, Managers
<1>3. \A bag \in Bags :
         /\ more(bag) \in Bags
         /\ \A o \in Messages : more(bag)[o] = IF o \in run THEN bag[o] + 1 ELSE bag[o]
  BY DEF Bags
<1>4. CASE run = {}
  BY <1>4 DEF AddRun
<1>5. CASE run # {} /\ IsLate(manager, ts)
  <2>1. manager.emitted # None
    BY <1>5 DEF IsLate
  <2>2. AddRun(manager, run, ts) =
          [manager EXCEPT !.maxTs = Watermark(manager, ts), !.late[v] = more(@)]
    BY <1>5 DEF AddRun
  <2> HIDE DEF v, more
  <2>3. [manager.late EXCEPT ![v] = more(@)] \in [Windows -> Bags]
    BY <1>1, <1>3 DEF Managers
  <2>4. /\ AddRun(manager, run, ts) \in Managers
        /\ AddRun(manager, run, ts).windows = manager.windows
        /\ AddRun(manager, run, ts).emitted = manager.emitted
    BY <1>2, <2>2, <2>3 DEF Managers
  <2> QED BY <1>5, <2>1, <2>4 DEF Origin
<1>6. CASE run # {} /\ ~IsLate(manager, ts)
  <2>1. AddRun(manager, run, ts) =
          [manager EXCEPT !.maxTs = Watermark(manager, ts),
                          !.emitted = Origin(manager, ts),
                          !.windows[v] = more(@)]
    BY <1>6 DEF AddRun
  <2>2. Origin(manager, ts) \in Int \cup {None}
    BY <1>1 DEF Origin, Managers
  <2>3. \A o \in Messages : more(manager.windows[v])[o] > 0 <=>
             manager.windows[v][o] > 0 \/ o \in run
    <3>1. manager.windows[v] \in Bags
      BY <1>1 DEF Managers
    <3> HIDE DEF v, more
    <3> QED BY <1>3, <3>1 DEF Bags
  <2>4. v = Win(ts)
    OBVIOUS
  <2> HIDE DEF v, more
  <2>5. [manager.windows EXCEPT ![v] = more(@)] \in [Windows -> Bags]
    BY <1>1, <1>3 DEF Managers
  <2>6. /\ AddRun(manager, run, ts) \in Managers
        /\ AddRun(manager, run, ts).windows = [manager.windows EXCEPT ![v] = more(@)]
        /\ AddRun(manager, run, ts).emitted = Origin(manager, ts)
    BY <1>2, <2>1, <2>2, <2>5 DEF Managers
  <2>7. \A w \in Windows : AddRun(manager, run, ts).windows[w] =
             IF w = v THEN more(manager.windows[v]) ELSE manager.windows[w]
    BY <1>1, <2>6 DEF Managers
  <2> QED BY <1>6, <2>3, <2>4, <2>6, <2>7
<1> QED BY <1>4, <1>5, <1>6

(* What is recorded for a run is its last offset, and for its window only. *)
LEMMA RecordRunFacts ==
    ASSUME NEW manager \in Managers, NEW offsets \in Tracker!Pending,
           NEW from \in Nat, NEW last \in Int, NEW ts \in 0 .. MaxTime
    PROVE  /\ RecordRun(manager, offsets, from .. last, ts) \in Tracker!Pending
           /\ \A w \in Windows :
                \/ RecordRun(manager, offsets, from .. last, ts)[w] = offsets[w]
                \/ /\ RecordRun(manager, offsets, from .. last, ts)[w] = last
                   /\ from <= last /\ w = Win(ts) /\ ~IsLate(manager, ts)
<1> DEFINE run == from .. last
<1>1. Win(ts) \in Windows
  BY WinFacts, MaxTimeAssumption
<1>2. CASE run = {} \/ IsLate(manager, ts)
  BY <1>2 DEF RecordRun
<1>3. CASE run # {} /\ ~IsLate(manager, ts)
  <2>1. Max(run) = last /\ last \in Nat /\ from <= last
    BY <1>3, RunFacts
  <2>2. RecordRun(manager, offsets, run, ts) = Tracker!Record(offsets, last, Win(ts))
    BY <1>3, <2>1 DEF RecordRun
  <2> QED BY <1>1, <1>3, <2>1, <2>2 DEF Tracker!Record, Tracker!Pending
<1> QED BY <1>2, <1>3

(* pop_closed() leaves nothing in a window it goes past: what was there is *)
(* in a summary, or is discarded.                                          *)
LEMMA PopClosedFacts ==
    ASSUME NEW manager \in Managers, NEW clock \in Int, Closes(manager, clock)
    PROVE  /\ PopClosed(manager, clock).emitted = NewestClosed(clock)
           /\ NewestClosed(clock) \in Int
           /\ \A w \in Windows, o \in Messages :
                PopClosed(manager, clock).windows[w][o] > 0 =>
                   manager.windows[w][o] > 0 /\ NewestClosed(clock) < w
           /\ \A w \in Windows, o \in Messages :
                manager.windows[w][o] > 0 =>
                   \/ PopClosed(manager, clock).windows[w][o] > 0
                   \/ o \in Counted(Summaries(manager, clock))
                   \/ o \in Counted(Dropped(manager, clock))
<1>1. /\ Resume(manager, clock) \in Int
      /\ NewestClosed(clock) \in Int
  BY ResumeBounds
<1>2. /\ PopClosed(manager, clock).emitted = NewestClosed(clock)
      /\ PopClosed(manager, clock).windows =
           [w \in Windows |-> IF w <= NewestClosed(clock) THEN NoEvents
                                                         ELSE manager.windows[w]]
  BY DEF PopClosed, Managers
<1>3. \A o \in Messages : ~(NoEvents[o] > 0)
  BY DEF NoEvents
<1>4. ASSUME NEW w \in Windows, NEW o \in Messages,
             PopClosed(manager, clock).windows[w][o] > 0
      PROVE  manager.windows[w][o] > 0 /\ NewestClosed(clock) < w
  BY <1>1, <1>2, <1>3, <1>4, WindowsAreNat
<1>5. ASSUME NEW w \in Windows, NEW o \in Messages, manager.windows[w][o] > 0
      PROVE  \/ PopClosed(manager, clock).windows[w][o] > 0
             \/ o \in Counted(Summaries(manager, clock))
             \/ o \in Counted(Dropped(manager, clock))
  <2>1. CASE w > NewestClosed(clock)
    BY <1>1, <1>2, <1>5, <2>1, WindowsAreNat
  <2>2. CASE w <= Resume(manager, clock)
    BY <1>5, <2>2 DEF Dropped, Counted
  <2>3. CASE w > Resume(manager, clock) /\ w <= NewestClosed(clock)
    <3>1. w \in Popped(manager, clock)
      BY <1>1, <2>3, WindowsAreNat DEF Popped
    <3> QED BY <1>5, <3>1 DEF Summaries, Counted
  <2> QED BY <1>1, <2>1, <2>2, <2>3, WindowsAreNat
<1> QED BY <1>1, <1>2, <1>4, <1>5

-----------------------------------------------------------------------------
(* Type correctness                                                        *)

(* What TypeOK rests on: neither a record nor a commit is beyond the log.  *)
InLog ==
    \A p \in Partitions :
        /\ committed[p] <= end[p]
        /\ \A m \in Members, w \in Windows : pending[m][p][w] < end[p]

TInv == TypeOK /\ InLog

Closings == [windows : SUBSET Int, slices : [Windows -> Bags]]

LEMMA NoClosingType == NoClosing \in Closings
BY NoEventsType DEF NoClosing, Closings

LEMMA NowType == TypeOK => now \in 0 .. MaxTime /\ now \in Int /\ Win(now) \in Windows
BY MaxNowAssumption, MaxTimeAssumption, WinFacts DEF TypeOK

(* What one turn of a member's loop takes of a partition, and the manager  *)
(* it makes of it.                                                         *)
Took(p) == pos[p] .. pos'[p] - 1
Added(m, p) == AddRun(mgr[m][p], Took(p), now)

LEMMA IterateFacts ==
    ASSUME TypeOK, NEW m \in Members, Iterate(m)
    PROVE  /\ pc[m] = "poll" /\ m \in joined
           /\ pc' \in {[pc EXCEPT ![m] = "poll"], [pc EXCEPT ![m] = "write"]}
           /\ (\E p \in Partitions : Closes(Added(m, p), now)) => pc'[m] = "write"
           /\ UNCHANGED <<now, end, committed, owner, joined, store, faults, written>>
           /\ pos' \in [Partitions -> Nat]
           /\ \A p \in Partitions :
                /\ pos[p] <= pos'[p] /\ pos'[p] <= end[p]
                /\ owner[p] # m => pos'[p] = pos[p]
                /\ dropped'[p] =
                     dropped[p]
                     \cup (IF IsLate(mgr[m][p], now) THEN Took(p) ELSE {})
                     \cup (IF Closes(Added(m, p), now)
                           THEN Counted(Dropped(Added(m, p), now)) ELSE {})
           /\ dropped' = [p \in Partitions |-> dropped'[p]]
           /\ pending' = [pending EXCEPT ![m] = [p \in Partitions |->
                            RecordRun(mgr[m][p], pending[m][p], Took(p), now)]]
           /\ mgr' = [mgr EXCEPT ![m] = [p \in Partitions |->
                        IF Closes(Added(m, p), now)
                        THEN PopClosed(Added(m, p), now) ELSE Added(m, p)]]
           /\ closing' = [closing EXCEPT ![m] = [p \in Partitions |->
                            IF Closes(Added(m, p), now)
                            THEN [windows |-> Popped(Added(m, p), now),
                                  slices  |-> Summaries(Added(m, p), now)]
                            ELSE NoClosing]]
<1> DEFINE Run(upto, p) == pos[p] .. upto[p] - 1
           added(upto) == [p \in Partitions |-> AddRun(mgr[m][p], Run(upto, p), now)]
           closes(upto) == {p \in Partitions : Closes(added(upto)[p], now)}
<1>1. PICK upto \in [Partitions -> UNION {pos[p] .. end[p] : p \in Partitions}] :
        /\ pc[m] = "poll" /\ m \in joined
        /\ \A p \in Partitions :
              upto[p] \in pos[p] .. (IF owner[p] = m THEN end[p] ELSE pos[p])
        /\ pos' = upto
        /\ pending' = [pending EXCEPT ![m] = [p \in Partitions |->
                          RecordRun(mgr[m][p], @[p], Run(upto, p), now)]]
        /\ mgr' = [mgr EXCEPT ![m] = [p \in Partitions |->
                      IF p \in closes(upto) THEN PopClosed(added(upto)[p], now) ELSE added(upto)[p]]]
        /\ closing' = [closing EXCEPT ![m] = [p \in Partitions |->
                          IF p \in closes(upto)
                          THEN [windows |-> Popped(added(upto)[p], now),
                                slices  |-> Summaries(added(upto)[p], now)]
                          ELSE NoClosing]]
        /\ dropped' = [p \in Partitions |->
                          dropped[p]
                          \cup (IF IsLate(mgr[m][p], now) THEN Run(upto, p) ELSE {})
                          \cup (IF p \in closes(upto)
                                THEN Counted(Dropped(added(upto)[p], now)) ELSE {})]
        /\ pc' = [pc EXCEPT ![m] = IF closes(upto) = {} THEN "poll" ELSE "write"]
        /\ UNCHANGED <<now, end, committed, owner, joined, store, faults, written>>
  BY Zenon DEF Iterate
<1>2. \A p \in Partitions : Run(upto, p) = Took(p) /\ added(upto)[p] = Added(m, p)
  BY <1>1 DEF Took, Added
<1>3. \A p \in Partitions : p \in closes(upto) <=> Closes(Added(m, p), now)
  BY <1>2
<1> HIDE DEF Run, added, closes
<1>4. \A p \in Partitions :
         /\ pos[p] \in Nat /\ end[p] \in Nat /\ pos[p] <= end[p]
         /\ pos'[p] \in pos[p] .. (IF owner[p] = m THEN end[p] ELSE pos[p])
  BY <1>1 DEF TypeOK
<1>5. /\ \A p \in Partitions : /\ pos[p] <= pos'[p] /\ pos'[p] <= end[p]
                               /\ owner[p] # m => pos'[p] = pos[p]
      /\ pos' \in [Partitions -> Nat]
  BY <1>1, <1>4
<1>6. /\ pc' \in {[pc EXCEPT ![m] = "poll"], [pc EXCEPT ![m] = "write"]}
      /\ (\E p \in Partitions : Closes(Added(m, p), now)) => pc'[m] = "write"
  <2>1. (\E p \in Partitions : Closes(Added(m, p), now)) => closes(upto) # {}
    BY <1>3
  <2> QED BY <1>1, <2>1 DEF TypeOK
<1>7. pending' = [pending EXCEPT ![m] = [p \in Partitions |->
                    RecordRun(mgr[m][p], pending[m][p], Took(p), now)]]
  BY <1>1, <1>2, Zenon
<1>8. mgr' = [mgr EXCEPT ![m] = [p \in Partitions |->
                IF Closes(Added(m, p), now)
                THEN PopClosed(Added(m, p), now) ELSE Added(m, p)]]
  BY <1>1, <1>2, <1>3
<1>9. closing' = [closing EXCEPT ![m] = [p \in Partitions |->
                    IF Closes(Added(m, p), now)
                    THEN [windows |-> Popped(Added(m, p), now),
                          slices  |-> Summaries(Added(m, p), now)]
                    ELSE NoClosing]]
  BY <1>1, <1>2, <1>3
<1>10. dropped' = [p \in Partitions |->
                     dropped[p]
                     \cup (IF IsLate(mgr[m][p], now) THEN Took(p) ELSE {})
                     \cup (IF Closes(Added(m, p), now)
                           THEN Counted(Dropped(Added(m, p), now)) ELSE {})]
  BY <1>1, <1>2, <1>3
<1>11. /\ dropped' = [p \in Partitions |-> dropped'[p]]
       /\ \A p \in Partitions :
            dropped'[p] =
              dropped[p]
              \cup (IF IsLate(mgr[m][p], now) THEN Took(p) ELSE {})
              \cup (IF Closes(Added(m, p), now)
                    THEN Counted(Dropped(Added(m, p), now)) ELSE {})
  BY <1>10, Zenon
<1> QED BY <1>1, <1>5, <1>6, <1>7, <1>8, <1>9, <1>11

LEMMA InitTInv == Init => TInv
<1> SUFFICES ASSUME Init PROVE TInv
  OBVIOUS
<1>1. /\ now \in 0 .. MaxNow /\ faults \in 0 .. MaxFaults
      /\ \A p \in Partitions : end[p] = 0
  BY MaxNowAssumption, MaxTimeAssumption, MaxFaultsAssumption DEF Init, Fresh
<1>2. store.slices \in [Windows -> [Partitions -> Bags \cup {None}]]
  BY DEF Init, Redis!EmptyStore, Redis!NoHash
<1>3. /\ mgr \in [Members -> [Partitions -> Managers]]
      /\ pending \in [Members -> [Partitions -> Tracker!Pending]]
      /\ closing \in [Members -> [Partitions -> Closings]]
  BY NewManagerType, NoPendingType, NoClosingType DEF Init, Fresh
<1>4. /\ owner \in [Partitions -> joined \cup {None}] /\ joined \subseteq Members
      /\ end \in [Partitions -> Nat] /\ committed \in [Partitions -> Nat]
      /\ pos \in [Partitions -> Nat] /\ \A p \in Partitions : pos[p] <= end[p]
      /\ pc \in [Members -> {"down", "poll", "write", "commit"}]
      /\ written \in [Partitions -> SUBSET Messages]
      /\ dropped \in [Partitions -> SUBSET Messages]
      /\ \A p \in Partitions : committed[p] <= end[p]
  BY DEF Init, Fresh
<1>5. \A p \in Partitions : 0 .. end[p] - 1 \subseteq Messages
  BY <1>1
<1>6. \A p \in Partitions, m \in Members, w \in Windows : pending[m][p][w] < end[p]
  BY <1>1 DEF Init, Fresh, Tracker!NoPending
<1> QED BY <1>1, <1>2, <1>3, <1>4, <1>5, <1>6 DEF TInv, TypeOK, InLog, Closings

LEMMA TickTInv == TInv /\ Tick => TInv'
<1> SUFFICES ASSUME TInv, Tick PROVE TInv'
  OBVIOUS
<1>1. now' \in 0 .. MaxNow
  BY MaxNowAssumption, MaxTimeAssumption DEF Tick, TInv, TypeOK
<1> QED BY <1>1 DEF Tick, TInv, TypeOK, InLog, kafka, memory

LEMMA ProduceTInv == TInv /\ (\E p \in Partitions : Produce(p)) => TInv'
<1> SUFFICES ASSUME TInv, NEW p \in Partitions, Produce(p) PROVE TInv'
  OBVIOUS
<1>1. /\ UNCHANGED <<now, committed, owner, joined, pos, store, pc, mgr, pending, closing,
                     faults, written, dropped>>
      /\ end[p] \in Messages
      /\ end' = [end EXCEPT ![p] = @ + 1]
  BY DEF Produce, memory
<1>2. /\ end \in [Partitions -> Nat]
      /\ end' \in [Partitions -> Nat]
      /\ \A q \in Partitions : end'[q] = IF q = p THEN end[q] + 1 ELSE end[q]
  BY <1>1 DEF TInv, TypeOK
<1>3. \A q \in Partitions : 0 .. end'[q] - 1 \subseteq Messages
  <2> SUFFICES ASSUME NEW q \in Partitions, NEW o \in 0 .. end'[q] - 1
               PROVE  o \in Messages
    OBVIOUS
  <2>1. 0 .. end[q] - 1 \subseteq Messages
    BY DEF TInv, TypeOK
  <2>2. o \in 0 .. end[q] - 1 \/ (q = p /\ o = end[q])
    BY <1>2
  <2> QED BY <1>1, <2>1, <2>2
<1>4. \A q \in Partitions :
         /\ pos[q] <= end'[q] /\ committed[q] <= end'[q]
         /\ \A m \in Members, w \in Windows : pending[m][q][w] < end'[q]
  <2> SUFFICES ASSUME NEW q \in Partitions
               PROVE  /\ pos[q] <= end'[q] /\ committed[q] <= end'[q]
                      /\ \A m \in Members, w \in Windows : pending[m][q][w] < end'[q]
    OBVIOUS
  <2>1. /\ pos[q] \in Nat /\ committed[q] \in Nat
        /\ pos[q] <= end[q] /\ committed[q] <= end[q]
    BY DEF TInv, TypeOK, InLog
  <2>2. \A m \in Members, w \in Windows :
           pending[m][q][w] \in Int /\ pending[m][q][w] < end[q]
    BY DEF TInv, TypeOK, InLog, Tracker!Pending
  <2> QED BY <1>2, <2>1, <2>2
<1> QED BY <1>1, <1>2, <1>3, <1>4 DEF TInv, TypeOK, InLog

LEMMA StartTInv == TInv /\ (\E m \in Members : Start(m)) => TInv'
BY DEF Start, TInv, TypeOK, InLog, kafka, memory

LEMMA RebalanceTInv == TInv /\ Rebalance => TInv'
<1> SUFFICES ASSUME TInv, Rebalance PROVE TInv'
  OBVIOUS
<1>1. PICK group \in SUBSET {m \in Members : pc[m] = "poll"} \ {{}} :
      \E assigned \in [Partitions -> group] :
        /\ joined' = group
        /\ owner' = assigned
        /\ pos' = [p \in Partitions |->
                     IF assigned[p] = owner[p] THEN pos[p] ELSE committed[p]]
        /\ UNCHANGED <<now, end, committed, store, pc, memory, faults, written, dropped>>
  BY DEF Rebalance
<1>2. /\ joined' \subseteq Members
      /\ owner' \in [Partitions -> joined' \cup {None}]
  BY <1>1
<1>3. /\ pos' \in [Partitions -> Nat]
      /\ \A p \in Partitions : pos'[p] <= end[p]
  BY <1>1 DEF TInv, TypeOK, InLog
<1> QED BY <1>1, <1>2, <1>3 DEF TInv, TypeOK, InLog, memory

LEMMA LeavesType ==
    ASSUME TypeOK, NEW m \in Members, Leaves(m)
    PROVE  /\ joined' \subseteq Members
           /\ owner' \in [Partitions -> joined' \cup {None}]
BY MembersAssumption DEF Leaves, TypeOK

LEMMA EvictTInv == TInv /\ (\E m \in Members : Evict(m)) => TInv'
<1> SUFFICES ASSUME TInv, NEW m \in Members, Evict(m) PROVE TInv'
  OBVIOUS
<1>1. joined' \subseteq Members /\ owner' \in [Partitions -> joined' \cup {None}]
  BY LeavesType DEF Evict, TInv
<1>2. faults' \in 0 .. MaxFaults
  BY MaxFaultsAssumption DEF Evict, TInv, TypeOK
<1> QED BY <1>1, <1>2 DEF Evict, TInv, TypeOK, InLog, memory

(* A member that ends, by a crash or by a refused commit.                  *)
LEMMA DieTInv ==
    ASSUME TInv, NEW m \in Members, Die(m), faults' \in 0 .. MaxFaults,
           UNCHANGED <<now, end, committed, pos, store, written, dropped>>
    PROVE  TInv'
<1>1. joined' \subseteq Members /\ owner' \in [Partitions -> joined' \cup {None}]
  BY LeavesType DEF Die, TInv
<1>2. /\ pc' \in [Members -> {"down", "poll", "write", "commit"}]
      /\ mgr' \in [Members -> [Partitions -> Managers]]
      /\ pending' \in [Members -> [Partitions -> Tracker!Pending]]
      /\ closing' \in [Members -> [Partitions -> Closings]]
  BY NewManagerType, NoPendingType, NoClosingType DEF Die, TInv, TypeOK, Fresh, Closings
<1>3. \A p \in Partitions, n \in Members, w \in Windows : pending'[n][p][w] < end[p]
  <2> SUFFICES ASSUME NEW p \in Partitions, NEW n \in Members, NEW w \in Windows
               PROVE  pending'[n][p][w] < end[p]
    OBVIOUS
  <2>1. end[p] \in Nat /\ pending[n][p][w] < end[p]
    BY DEF TInv, TypeOK, InLog
  <2>2. pending'[n][p][w] \in {-1, pending[n][p][w]}
    BY DEF Die, TInv, TypeOK, Fresh, Tracker!NoPending
  <2> QED BY <2>1, <2>2
<1> QED BY <1>1, <1>2, <1>3 DEF TInv, TypeOK, InLog, Closings

LEMMA EndTInv == TInv /\ (\E m \in Members : Crash(m) \/ CommitFenced(m)) => TInv'
<1> SUFFICES ASSUME TInv, NEW m \in Members, Crash(m) \/ CommitFenced(m) PROVE TInv'
  OBVIOUS
<1>1. /\ Die(m)
      /\ UNCHANGED <<now, end, committed, pos, store, written, dropped>>
      /\ faults' \in 0 .. MaxFaults
  BY MaxFaultsAssumption DEF Crash, CommitFenced, TInv, TypeOK
<1> QED BY <1>1, DieTInv

LEMMA IterateTInv == TInv /\ (\E m \in Members : Iterate(m)) => TInv'
<1> SUFFICES ASSUME TInv, NEW m \in Members, Iterate(m) PROVE TInv'
  OBVIOUS
<1>t. TypeOK /\ now \in 0 .. MaxTime /\ now \in Int
  BY NowType DEF TInv
<1>1. /\ UNCHANGED <<now, end, committed, owner, joined, store, faults, written>>
      /\ pos' \in [Partitions -> Nat]
      /\ pc' \in {[pc EXCEPT ![m] = "poll"], [pc EXCEPT ![m] = "write"]}
      /\ \A p \in Partitions : pos[p] <= pos'[p] /\ pos'[p] <= end[p]
  BY <1>t, IterateFacts
<1>2. \A p \in Partitions :
         /\ pos[p] \in Nat /\ pos'[p] \in Nat /\ end[p] \in Nat
         /\ 0 .. end[p] - 1 \subseteq Messages
         /\ mgr[m][p] \in Managers /\ pending[m][p] \in Tracker!Pending
  BY <1>1 DEF TInv, TypeOK
<1>3. pc' \in [Members -> {"down", "poll", "write", "commit"}]
  BY <1>1 DEF TInv, TypeOK
<1>4. \A p \in Partitions : Took(p) \subseteq Messages
  <2> SUFFICES ASSUME NEW p \in Partitions, NEW o \in Took(p) PROVE o \in Messages
    OBVIOUS
  <2>1. o \in 0 .. end[p] - 1
    BY <1>1, <1>2 DEF Took
  <2> QED BY <1>2, <2>1
<1>5. \A p \in Partitions : Added(m, p) \in Managers
  BY <1>t, <1>2, AddRunFacts DEF Added
<1>6. mgr' \in [Members -> [Partitions -> Managers]]
  <2> DEFINE new == [p \in Partitions |->
                        IF Closes(Added(m, p), now)
                        THEN PopClosed(Added(m, p), now) ELSE Added(m, p)]
  <2>1. new \in [Partitions -> Managers]
    BY <1>t, <1>5, PopClosedType
  <2>2. mgr' = [mgr EXCEPT ![m] = new]
    BY <1>t, IterateFacts
  <2> HIDE DEF new
  <2> QED BY <2>1, <2>2 DEF TInv, TypeOK
<1>7. closing' \in [Members -> [Partitions -> Closings]]
  <2> DEFINE new == [p \in Partitions |->
                        IF Closes(Added(m, p), now)
                        THEN [windows |-> Popped(Added(m, p), now),
                              slices  |-> Summaries(Added(m, p), now)]
                        ELSE NoClosing]
  <2>1. \A p \in Partitions : Closes(Added(m, p), now) =>
           /\ Popped(Added(m, p), now) \subseteq Int
           /\ Summaries(Added(m, p), now) \in [Windows -> Bags]
    BY <1>t, <1>5, ResumeBounds, SummariesType DEF Popped
  <2>2. new \in [Partitions -> Closings]
    BY <2>1, NoClosingType DEF Closings
  <2>3. closing' = [closing EXCEPT ![m] = new]
    BY <1>t, IterateFacts
  <2> HIDE DEF new
  <2> QED BY <2>2, <2>3 DEF TInv, TypeOK, Closings
<1>8. /\ pending' \in [Members -> [Partitions -> Tracker!Pending]]
      /\ \A p \in Partitions, n \in Members, w \in Windows : pending'[n][p][w] < end[p]
  <2> DEFINE new == [p \in Partitions |->
                        RecordRun(mgr[m][p], pending[m][p], Took(p), now)]
  <2>1. ASSUME NEW p \in Partitions
        PROVE  /\ new[p] \in Tracker!Pending
               /\ \A w \in Windows : new[p][w] < end[p]
    <3>0. new[p] = RecordRun(mgr[m][p], pending[m][p], pos[p] .. pos'[p] - 1, now)
      BY DEF Took
    <3>1. /\ new[p] \in Tracker!Pending
          /\ \A w \in Windows : new[p][w] = pending[m][p][w] \/ new[p][w] = pos'[p] - 1
      <4> HIDE DEF new
      <4>1. /\ mgr[m][p] \in Managers /\ pending[m][p] \in Tracker!Pending
            /\ pos[p] \in Nat /\ pos'[p] - 1 \in Int
        BY <1>2
      <4> QED BY <1>t, <3>0, <4>1, RecordRunFacts
    <3>2. \A w \in Windows : pending[m][p][w] < end[p]
      BY DEF TInv, InLog
    <3>3. pos'[p] - 1 < end[p]
      BY <1>1, <1>2
    <3> HIDE DEF new
    <3> QED BY <3>1, <3>2, <3>3
  <2>2. new \in [Partitions -> Tracker!Pending]
    BY <2>1
  <2>3. pending' = [pending EXCEPT ![m] = new]
    BY <1>t, IterateFacts
  <2>4. pending \in [Members -> [Partitions -> Tracker!Pending]]
    BY DEF TInv, TypeOK
  <2> HIDE DEF new
  <2>5. pending' \in [Members -> [Partitions -> Tracker!Pending]]
    BY <2>2, <2>3, <2>4
  <2>6. \A n \in Members : pending'[n] = IF n = m THEN new ELSE pending[n]
    BY <2>3, <2>4
  <2> QED BY <2>1, <2>5, <2>6 DEF TInv, InLog
<1>9. dropped' \in [Partitions -> SUBSET Messages]
  <2>1. \A p \in Partitions : dropped'[p] \subseteq Messages
    <3> SUFFICES ASSUME NEW p \in Partitions PROVE dropped'[p] \subseteq Messages
      OBVIOUS
    <3>1. dropped[p] \subseteq Messages
      BY DEF TInv, TypeOK
    <3>2. dropped'[p] =
            dropped[p]
            \cup (IF IsLate(mgr[m][p], now) THEN Took(p) ELSE {})
            \cup (IF Closes(Added(m, p), now)
                  THEN Counted(Dropped(Added(m, p), now)) ELSE {})
      BY <1>t, IterateFacts
    <3> QED BY <1>4, <3>1, <3>2, CountedType
  <2>2. dropped' = [p \in Partitions |-> dropped'[p]]
    BY <1>t, IterateFacts
  <2> QED BY <2>1, <2>2
<1> QED BY <1>1, <1>3, <1>6, <1>7, <1>8, <1>9 DEF TInv, TypeOK, InLog, Closings

LEMMA WriteType ==
    ASSUME TypeOK, NEW m \in Members
    PROVE  Redis!Write(store, Entries(m)).slices
             \in [Windows -> [Partitions -> Bags \cup {None}]]
<1> DEFINE up == Redis!Upsert(store, Entries(m))
<1>1. /\ store.slices \in [Windows -> [Partitions -> Bags \cup {None}]]
      /\ closing[m] \in [Partitions -> [windows : SUBSET Int, slices : [Windows -> Bags]]]
  BY DEF TypeOK
<1>2. \A e \in Entries(m) : e[2] \in Windows => e[3] \in Bags
  BY <1>1 DEF Entries
<1>3. up.slices \in [Windows -> [Partitions -> Bags \cup {None}]]
  <2>1. ASSUME NEW w \in Windows, NEW p \in Partitions, Redis!Entry(Entries(m), w, p) # {}
        PROVE  (CHOOSE e \in Redis!Entry(Entries(m), w, p) : TRUE)[3] \in Bags
    <3> DEFINE e == CHOOSE e \in Redis!Entry(Entries(m), w, p) : TRUE
    <3>1. e \in Redis!Entry(Entries(m), w, p)
      BY <2>1
    <3>2. e \in Entries(m) /\ e[2] = w
      BY <3>1 DEF Redis!Entry
    <3> QED BY <1>2, <3>2
  <2> QED BY <1>1, <2>1 DEF Redis!Upsert
<1>4. Redis!NoHash \in [Partitions -> Bags \cup {None}]
  BY DEF Redis!NoHash
<1>5. Redis!Trim(up).slices \in [Windows -> [Partitions -> Bags \cup {None}]]
  <2> HIDE DEF up
  <2> QED BY <1>3, <1>4 DEF Redis!Trim
<1> QED BY <1>5 DEF Redis!Write

LEMMA WriteTInv == TInv /\ (\E m \in Members : Write(m)) => TInv'
<1> SUFFICES ASSUME TInv, NEW m \in Members, Write(m) PROVE TInv'
  OBVIOUS
<1>1. UNCHANGED <<now, end, committed, owner, joined, pos, mgr, pending, closing,
                  faults, dropped>>
  BY DEF Write, kafka, memory
<1>2. store'.slices \in [Windows -> [Partitions -> Bags \cup {None}]]
  BY WriteType DEF Write, TInv
<1>3. written' \in [Partitions -> SUBSET Messages]
  BY CountedType DEF Write, TInv, TypeOK
<1>4. pc' \in [Members -> {"down", "poll", "write", "commit"}]
  BY DEF Write, TInv, TypeOK
<1> QED BY <1>1, <1>2, <1>3, <1>4 DEF TInv, TypeOK, InLog

(* What a member commits is the offset after one it recorded for a window  *)
(* that it has closed.                                                     *)
LEMMA ReleaseFacts ==
    ASSUME TInv, NEW m \in Members, NEW p \in Partitions, Release(m, p) # None
    PROVE  \E w \in Windows :
              /\ w <= mgr[m][p].emitted
              /\ pending[m][p][w] \in Nat
              /\ pending[m][p][w] < end[p]
              /\ Release(m, p) = pending[m][p][w] + 1
<1>1. /\ pending[m][p] \in Tracker!Pending /\ end[p] \in Nat
      /\ \A w \in Windows : pending[m][p][w] < end[p]
  BY DEF TInv, TypeOK, InLog
<1>2. /\ Release(m, p) = Tracker!SafeOffset(pending[m][p], mgr[m][p].emitted)
      /\ Tracker!SafeOffset(pending[m][p], mgr[m][p].emitted) # None
  BY DEF Release
<1>3. \E w \in Tracker!Done(pending[m][p], mgr[m][p].emitted) :
         /\ pending[m][p][w] \in Nat
         /\ Tracker!SafeOffset(pending[m][p], mgr[m][p].emitted) = pending[m][p][w] + 1
  BY <1>1, <1>2, SafeOffsetIsRecorded
<1> QED BY <1>1, <1>2, <1>3 DEF Tracker!Done

LEMMA CommitTInv == TInv /\ (\E m \in Members : Commit(m)) => TInv'
<1> SUFFICES ASSUME TInv, NEW m \in Members, Commit(m) PROVE TInv'
  OBVIOUS
<1>1. UNCHANGED <<now, end, owner, joined, pos, store, mgr, faults, written, dropped>>
  BY DEF Commit
<1>2. /\ committed' \in [Partitions -> Nat]
      /\ \A p \in Partitions : committed'[p] <= end[p]
  <2>1. \A p \in Partitions : Release(m, p) # None =>
           Release(m, p) \in Nat /\ Release(m, p) <= end[p]
    <3> SUFFICES ASSUME NEW p \in Partitions, Release(m, p) # None
                 PROVE  Release(m, p) \in Nat /\ Release(m, p) <= end[p]
      OBVIOUS
    <3>1. \E w \in Windows : /\ pending[m][p][w] \in Nat
                             /\ pending[m][p][w] < end[p]
                             /\ Release(m, p) = pending[m][p][w] + 1
      BY ReleaseFacts
    <3>2. end[p] \in Nat
      BY DEF TInv, TypeOK
    <3> QED BY <3>1, <3>2
  <2>2. committed' = [p \in Partitions |->
                        IF Release(m, p) # None THEN Release(m, p) ELSE committed[p]]
    BY DEF Commit
  <2>3. \A p \in Partitions : committed[p] \in Nat /\ committed[p] <= end[p]
    BY DEF TInv, TypeOK, InLog
  <2> QED BY <2>1, <2>2, <2>3
<1>3. /\ pending' \in [Members -> [Partitions -> Tracker!Pending]]
      /\ \A p \in Partitions, n \in Members, w \in Windows : pending'[n][p][w] < end[p]
  <2>1. pending \in [Members -> [Partitions -> Tracker!Pending]]
    BY DEF TInv, TypeOK
  <2> DEFINE new == [p \in Partitions |->
                       IF closing[m][p].windows = {}
                       THEN pending[m][p]
                       ELSE Tracker!Released(pending[m][p], mgr[m][p].emitted)]
  <2>2. pending' = [pending EXCEPT ![m] = new]
    BY <2>1 DEF Commit
  <2>3. \A p \in Partitions :
           /\ new[p] \in Tracker!Pending
           /\ \A w \in Windows : new[p][w] \in {-1, pending[m][p][w]}
    BY <2>1, ReleasedFacts
  <2>4. new \in [Partitions -> Tracker!Pending]
    BY <2>3
  <2> HIDE DEF new
  <2>5. pending' \in [Members -> [Partitions -> Tracker!Pending]]
    BY <2>1, <2>2, <2>4
  <2>6. \A n \in Members : pending'[n] = IF n = m THEN new ELSE pending[n]
    BY <2>1, <2>2
  <2>7. ASSUME NEW p \in Partitions, NEW n \in Members, NEW w \in Windows
        PROVE  pending'[n][p][w] < end[p]
    <3>1. end[p] \in Nat /\ pending[n][p][w] < end[p]
      BY DEF TInv, TypeOK, InLog
    <3> QED BY <2>3, <2>6, <3>1
  <2> QED BY <2>5, <2>7
<1>4. closing' \in [Members -> [Partitions -> Closings]]
  BY NoClosingType DEF Commit, TInv, TypeOK, Fresh, Closings
<1>5. pc' \in [Members -> {"down", "poll", "write", "commit"}]
  BY DEF Commit, TInv, TypeOK
<1> QED BY <1>1, <1>2, <1>3, <1>4, <1>5 DEF TInv, TypeOK, InLog, Closings

LEMMA NextTInv == TInv /\ [Next]_vars => TInv'
<1> SUFFICES ASSUME TInv, [Next]_vars PROVE TInv'
  OBVIOUS
<1>1. CASE UNCHANGED vars
  BY <1>1 DEF vars, kafka, memory, TInv, TypeOK, InLog
<1> QED BY <1>1, TickTInv, ProduceTInv, StartTInv, RebalanceTInv, EvictTInv, EndTInv,
           IterateTInv, WriteTInv, CommitTInv DEF Next

LEMMA TInvInvariant == Spec => []TInv
BY InitTInv, NextTInv, PTL DEF Spec

(* Every variable of every member keeps its shape, and no partition is     *)
(* assigned to a process outside the current generation, however often     *)
(* members are evicted, end and come back.                                 *)
THEOREM GroupTypeCorrect == Spec => []TypeOK
<1>1. TInv => TypeOK
  BY DEF TInv
<1> QED BY <1>1, TInvInvariant, PTL

-----------------------------------------------------------------------------
(* Nothing is skipped                                                      *)

(* Member m has message o in window w of partition p.                      *)
Open(m, p, w, o) == mgr[m][p].windows[w][o] > 0

(* What is in memory is newer than what the manager has emitted, and not   *)
(* of the future: a window that is closed is empty.                        *)
OpenIsCurrent ==
    \A m \in Members, p \in Partitions, w \in Windows, o \in Messages :
        Open(m, p, w, o) =>
            /\ w <= Win(now)
            /\ mgr[m][p].emitted # None /\ mgr[m][p].emitted < w

Writing(m, p, o) == pc[m] = "write" /\ o \in Counted(closing[m][p].slices)

(* Closing window w would settle o: it is settled already, or on its way   *)
(* to Redis, or in memory in a window that is closed no later than w.      *)
Accounted(m, p, w, o) ==
    \/ o \in Settled(p)
    \/ \E v \in Windows : v <= w /\ Open(m, p, v, o)
    \/ Writing(m, p, o)

(* What a member would commit for a window covers nothing that is not      *)
(* settled when the window is, whether or not the member still owns the    *)
(* partition: the fact that makes a former owner's commit harmless.        *)
RecordsAccounted ==
    \A m \in Members, p \in Partitions, w \in Windows, o \in Messages :
        o <= pending[m][p][w] => Accounted(m, p, w, o)

IInv ==
    /\ TInv
    /\ OpenIsCurrent
    /\ RecordsAccounted
    /\ CommittedIsSettled
    /\ OwnerAccountsForAll

LEMMA UnwrittenIs ==
    \A m, p, o : o \in Messages =>
        (o \in Unwritten(m, p) <=> (\E w \in Windows : Open(m, p, w, o)) \/ Writing(m, p, o))
BY DEF Unwritten, Counted, Open, Writing

LEMMA InitIInv == Init => IInv
<1> SUFFICES ASSUME Init PROVE IInv
  OBVIOUS
<1>1. \A m \in Members, p \in Partitions, w \in Windows, o \in Messages : ~Open(m, p, w, o)
  BY DEF Init, Fresh, NewManager, NoEvents, Open
<1>2. \A m \in Members, p \in Partitions, w \in Windows : pending[m][p][w] = -1
  BY DEF Init, Fresh, Tracker!NoPending
<1>3. RecordsAccounted
  <2>1. \A m \in Members, p \in Partitions, w \in Windows, o \in Messages :
           ~(o <= pending[m][p][w])
    <3> SUFFICES ASSUME NEW m \in Members, NEW p \in Partitions, NEW w \in Windows,
                        NEW o \in Messages
                 PROVE  ~(o <= pending[m][p][w])
      OBVIOUS
    <3>1. pending[m][p][w] = -1 /\ o \in Nat
      BY <1>2, MessagesAssumption
    <3> QED BY <3>1
  <2> QED BY <2>1 DEF RecordsAccounted
<1>4. OpenIsCurrent
  BY <1>1 DEF OpenIsCurrent
<1>5. CommittedIsSettled
  BY MessagesAssumption DEF Init, Fresh, CommittedIsSettled
<1>6. OwnerAccountsForAll
  BY DEF Init, Fresh, OwnerAccountsForAll
<1> QED BY <1>3, <1>4, <1>5, <1>6, InitTInv DEF IInv

(* Steps that leave the members alone but for their place in the loop, and *)
(* take nothing back.                                                      *)
LEMMA MembersKept ==
    ASSUME OpenIsCurrent, RecordsAccounted, TypeOK, now <= now', now' \in Int,
           UNCHANGED mgr, UNCHANGED pending,
           \A p \in Partitions : Settled(p) \subseteq Settled(p)',
           \A m \in Members, p \in Partitions, o \in Messages :
              Writing(m, p, o) => Writing(m, p, o)' \/ o \in Settled(p)'
    PROVE  OpenIsCurrent' /\ RecordsAccounted'
<1>1. \A m, p, w, o : Open(m, p, w, o)' <=> Open(m, p, w, o)
  BY DEF Open
<1>2. OpenIsCurrent'
  <2>1. Win(now) \in Int /\ Win(now') \in Int /\ Win(now) <= Win(now')
    BY NowType, WinFacts
  <2>2. \A w \in Windows : w \in Int /\ (w <= Win(now) => w <= Win(now'))
    BY <2>1, WindowsAreNat
  <2> QED BY <1>1, <2>2 DEF OpenIsCurrent
<1>3. RecordsAccounted'
  <2> SUFFICES ASSUME NEW m \in Members, NEW p \in Partitions, NEW w \in Windows,
                      NEW o \in Messages, o <= pending'[m][p][w]
               PROVE  Accounted(m, p, w, o)'
    BY DEF RecordsAccounted
  <2>1. Accounted(m, p, w, o)
    BY DEF RecordsAccounted
  <2> QED BY <1>1, <2>1 DEF Accounted
<1> QED BY <1>2, <1>3

LEMMA TickIInv == IInv /\ Tick => IInv'
<1> SUFFICES ASSUME IInv, Tick PROVE IInv'
  OBVIOUS
<1>1. UNCHANGED <<end, committed, owner, joined, pos, store, pc, mgr, pending, closing,
                  faults, written, dropped>>
  BY DEF Tick, kafka, memory
<1>2. now' \in Int /\ now <= now'
  BY NowType DEF Tick, IInv, TInv
<1>3. OpenIsCurrent' /\ RecordsAccounted'
  BY <1>1, <1>2, MembersKept DEF IInv, TInv, Settled, Writing
<1>4. CommittedIsSettled' /\ OwnerAccountsForAll'
  BY <1>1 DEF IInv, CommittedIsSettled, OwnerAccountsForAll, Settled, Unwritten
<1> QED BY <1>3, <1>4, TickTInv DEF IInv

LEMMA ProduceIInv == IInv /\ (\E p \in Partitions : Produce(p)) => IInv'
<1> SUFFICES ASSUME IInv, NEW p \in Partitions, Produce(p) PROVE IInv'
  OBVIOUS
<1>1. UNCHANGED <<now, committed, owner, joined, pos, store, pc, mgr, pending, closing,
                  faults, written, dropped>>
  BY DEF Produce, memory
<1>2. now' \in Int /\ now <= now'
  BY <1>1, NowType DEF IInv, TInv
<1>3. OpenIsCurrent' /\ RecordsAccounted'
  BY <1>1, <1>2, MembersKept DEF IInv, TInv, Settled, Writing
<1>4. CommittedIsSettled' /\ OwnerAccountsForAll'
  BY <1>1 DEF IInv, CommittedIsSettled, OwnerAccountsForAll, Settled, Unwritten
<1> QED BY <1>3, <1>4, ProduceTInv DEF IInv

LEMMA StartIInv == IInv /\ (\E m \in Members : Start(m)) => IInv'
<1> SUFFICES ASSUME IInv, NEW m \in Members, Start(m) PROVE IInv'
  OBVIOUS
<1>1. UNCHANGED <<now, end, committed, owner, joined, pos, store, mgr, pending, closing,
                  faults, written, dropped>>
  BY DEF Start, kafka, memory
<1>2. \A n \in Members : pc'[n] = "write" <=> pc[n] = "write"
  BY DEF Start, IInv, TInv, TypeOK
<1>3. now' \in Int /\ now <= now'
  BY <1>1, NowType DEF IInv, TInv
<1>4. OpenIsCurrent' /\ RecordsAccounted'
  BY <1>1, <1>2, <1>3, MembersKept DEF IInv, TInv, Settled, Writing
<1>5. OwnerAccountsForAll'
  <2>1. \A p \in Partitions : owner[p] # None => owner[p] \in Members
    BY DEF IInv, TInv, TypeOK
  <2> QED BY <1>1, <1>2, <2>1 DEF IInv, OwnerAccountsForAll, Settled, Unwritten
<1>6. CommittedIsSettled'
  BY <1>1 DEF IInv, CommittedIsSettled, Settled
<1> QED BY <1>4, <1>5, <1>6, StartTInv DEF IInv

(* A partition a member gains starts at the committed offset, below which  *)
(* all is settled; one it keeps is where it was.                           *)
LEMMA RebalanceIInv == IInv /\ Rebalance => IInv'
<1> SUFFICES ASSUME IInv, Rebalance PROVE IInv'
  OBVIOUS
<1>1. /\ pos' = [p \in Partitions |->
                     IF owner'[p] = owner[p] THEN pos[p] ELSE committed[p]]
      /\ UNCHANGED <<now, end, committed, store, pc, memory, faults, written, dropped>>
  BY DEF Rebalance
<1>2. UNCHANGED <<now, end, committed, store, pc, mgr, pending, closing, faults,
                  written, dropped>>
  BY <1>1 DEF memory
<1>3. now' \in Int /\ now <= now'
  BY <1>2, NowType DEF IInv, TInv
<1>4. OpenIsCurrent' /\ RecordsAccounted'
  BY <1>2, <1>3, MembersKept DEF IInv, TInv, Settled, Writing
<1>5. OwnerAccountsForAll'
  <2>1. ASSUME NEW p \in Partitions
        PROVE  pos'[p] = committed[p] \/ (owner'[p] = owner[p] /\ pos'[p] = pos[p])
    <3>1. pos'[p] = IF owner'[p] = owner[p] THEN pos[p] ELSE committed[p]
      BY <1>1
    <3> QED BY <3>1
  <2>2. ASSUME NEW p \in Partitions, NEW o \in Messages, owner'[p] # None, o < pos'[p]
        PROVE  o \in (Settled(p) \cup Unwritten(owner[p], p))'
    <3>1. CASE pos'[p] = committed[p]
      BY <1>2, <2>2, <3>1 DEF IInv, CommittedIsSettled, Settled
    <3>2. CASE owner'[p] = owner[p] /\ pos'[p] = pos[p]
      BY <1>2, <2>2, <3>2 DEF IInv, OwnerAccountsForAll, Settled, Unwritten
    <3> QED BY <2>1, <3>1, <3>2
  <2> QED BY <2>2 DEF OwnerAccountsForAll
<1>6. CommittedIsSettled'
  BY <1>2 DEF IInv, CommittedIsSettled, Settled
<1> QED BY <1>4, <1>5, <1>6, RebalanceTInv DEF IInv

LEMMA EvictIInv == IInv /\ (\E m \in Members : Evict(m)) => IInv'
<1> SUFFICES ASSUME IInv, NEW m \in Members, Evict(m) PROVE IInv'
  OBVIOUS
<1>1. UNCHANGED <<now, end, committed, pos, store, pc, mgr, pending, closing, written, dropped>>
  BY DEF Evict, memory
<1>2. now' \in Int /\ now <= now'
  BY <1>1, NowType DEF IInv, TInv
<1>3. OpenIsCurrent' /\ RecordsAccounted'
  BY <1>1, <1>2, MembersKept DEF IInv, TInv, Settled, Writing
<1>4. \A p \in Partitions : owner'[p] # None => owner'[p] = owner[p]
  BY DEF Evict, Leaves
<1>5. CommittedIsSettled' /\ OwnerAccountsForAll'
  BY <1>1, <1>4 DEF IInv, CommittedIsSettled, OwnerAccountsForAll, Settled, Unwritten
<1> QED BY <1>3, <1>5, EvictTInv DEF IInv

LEMMA WriteIInv == IInv /\ (\E m \in Members : Write(m)) => IInv'
<1> SUFFICES ASSUME IInv, NEW m \in Members, Write(m) PROVE IInv'
  OBVIOUS
<1>1. UNCHANGED <<now, end, committed, owner, joined, pos, mgr, pending, closing,
                  faults, dropped>>
  BY DEF Write, kafka, memory
<1>2. \A p \in Partitions :
         /\ Settled(p) \subseteq Settled(p)'
         /\ Counted(closing[m][p].slices) \subseteq Settled(p)'
  BY DEF Write, Settled, IInv, TInv, TypeOK
<1>3. \A n \in Members : n # m => pc'[n] = pc[n]
  BY DEF Write, IInv, TInv, TypeOK
<1>4. \A n \in Members, p \in Partitions, o \in Messages :
         Writing(n, p, o) => Writing(n, p, o)' \/ o \in Settled(p)'
  BY <1>1, <1>2, <1>3 DEF Writing
<1>5. now' \in Int /\ now <= now'
  BY <1>1, NowType DEF IInv, TInv
<1>6. OpenIsCurrent' /\ RecordsAccounted'
  BY <1>1, <1>2, <1>4, <1>5, MembersKept DEF IInv, TInv
<1>7. OwnerAccountsForAll'
  <2> SUFFICES ASSUME NEW p \in Partitions, NEW o \in Messages, owner[p] # None, o < pos[p]
               PROVE  o \in Settled(p)' \/ o \in Unwritten(owner[p], p)'
    BY <1>1 DEF OwnerAccountsForAll
  <2>1. owner[p] \in Members
    BY DEF IInv, TInv, TypeOK
  <2>2. o \in Settled(p) \/ (\E w \in Windows : Open(owner[p], p, w, o)) \/ Writing(owner[p], p, o)
    <3>1. o \in Settled(p) \/ o \in Unwritten(owner[p], p)
      BY DEF IInv, OwnerAccountsForAll
    <3> QED BY <3>1, UnwrittenIs
  <2>3. \A w \in Windows : Open(owner[p], p, w, o) => o \in Counted(mgr[owner[p]][p].windows)
    BY DEF Open, Counted
  <2>4. CASE Writing(owner[p], p, o)
    <3>1. Writing(owner[p], p, o)' \/ o \in Settled(p)'
      BY <1>1, <1>2, <1>3, <2>1, <2>4 DEF Writing
    <3> QED BY <1>1, <3>1 DEF Unwritten, Writing
  <2> QED BY <1>1, <1>2, <2>2, <2>3, <2>4 DEF Unwritten
<1>8. CommittedIsSettled'
  BY <1>1, <1>2 DEF IInv, CommittedIsSettled
<1> QED BY <1>6, <1>7, <1>8, WriteTInv DEF IInv

(* A member that ends takes nothing with it that it was answerable for: it *)
(* owns nothing, and it has recorded nothing.                              *)
LEMMA DieIInv ==
    ASSUME IInv, NEW m \in Members, Die(m), TInv',
           UNCHANGED <<now, end, committed, pos, store, written, dropped>>
    PROVE  IInv'
<1>1. /\ mgr \in [Members -> [Partitions -> Managers]]
      /\ pending \in [Members -> [Partitions -> Tracker!Pending]]
      /\ closing \in [Members -> [Partitions -> Closings]]
      /\ pc \in [Members -> {"down", "poll", "write", "commit"}]
      /\ owner \in [Partitions -> joined \cup {None}] /\ joined \subseteq Members
  BY DEF IInv, TInv, TypeOK, Closings
<1>2. \A n \in Members : n # m =>
         /\ mgr'[n] = mgr[n] /\ pending'[n] = pending[n]
         /\ closing'[n] = closing[n] /\ pc'[n] = pc[n]
  BY <1>1 DEF Die
<1>3. \A p \in Partitions, w \in Windows, o \in Messages : ~Open(m, p, w, o)'
  BY <1>1 DEF Die, Fresh, NewManager, NoEvents, Open
<1>4. \A p \in Partitions, w \in Windows : pending'[m][p][w] = -1
  BY <1>1 DEF Die, Fresh, Tracker!NoPending
<1>5. \A p \in Partitions : owner'[p] # None => owner'[p] = owner[p] /\ owner'[p] # m
  BY <1>1, MembersAssumption DEF Die, Leaves
<1>6. OpenIsCurrent'
  BY <1>2, <1>3 DEF IInv, OpenIsCurrent, Open
<1>7. RecordsAccounted'
  <2> SUFFICES ASSUME NEW n \in Members, NEW p \in Partitions, NEW w \in Windows,
                      NEW o \in Messages, o <= pending'[n][p][w]
               PROVE  Accounted(n, p, w, o)'
    BY DEF RecordsAccounted
  <2>1. n # m
    <3> SUFFICES ASSUME n = m PROVE FALSE
      OBVIOUS
    <3>1. pending'[n][p][w] = -1 /\ o \in Nat
      BY <1>4, MessagesAssumption
    <3> QED BY <3>1
  <2>2. Accounted(n, p, w, o)
    BY <1>2, <2>1 DEF IInv, RecordsAccounted
  <2> QED BY <1>2, <2>1, <2>2 DEF Accounted, Settled, Open, Writing
<1>8. CommittedIsSettled'
  BY DEF IInv, CommittedIsSettled, Settled
<1>9. OwnerAccountsForAll'
  <2> SUFFICES ASSUME NEW p \in Partitions, NEW o \in Messages, owner'[p] # None, o < pos[p]
               PROVE  (o \in Settled(p) \cup Unwritten(owner[p], p))'
    BY DEF OwnerAccountsForAll
  <2>1. owner'[p] = owner[p] /\ owner[p] \in Members /\ owner[p] # m
    BY <1>1, <1>5
  <2>2. o \in Settled(p) \cup Unwritten(owner[p], p)
    BY <2>1 DEF IInv, OwnerAccountsForAll
  <2>3. Unwritten(owner[p], p)' = Unwritten(owner[p], p)
    BY <1>2, <2>1 DEF Unwritten
  <2> QED BY <2>2, <2>3 DEF Settled
<1> QED BY <1>6, <1>7, <1>8, <1>9 DEF IInv

LEMMA EndIInv == IInv /\ (\E m \in Members : Crash(m) \/ CommitFenced(m)) => IInv'
<1> SUFFICES ASSUME IInv, NEW m \in Members, Crash(m) \/ CommitFenced(m) PROVE IInv'
  OBVIOUS
<1>1. /\ Die(m)
      /\ UNCHANGED <<now, end, committed, pos, store, written, dropped>>
  BY DEF Crash, CommitFenced
<1>2. TInv'
  BY EndTInv DEF IInv
<1> QED BY <1>1, <1>2, DieIInv

LEMMA CommitIInv == IInv /\ (\E m \in Members : Commit(m)) => IInv'
<1> SUFFICES ASSUME IInv, NEW m \in Members, Commit(m) PROVE IInv'
  OBVIOUS
<1>1. UNCHANGED <<now, end, owner, joined, pos, store, mgr, faults, written, dropped>>
  BY DEF Commit
<1>2. /\ mgr \in [Members -> [Partitions -> Managers]]
      /\ pending \in [Members -> [Partitions -> Tracker!Pending]]
      /\ closing \in [Members -> [Partitions -> Closings]]
      /\ pc \in [Members -> {"down", "poll", "write", "commit"}]
      /\ owner \in [Partitions -> joined \cup {None}] /\ joined \subseteq Members
  BY DEF IInv, TInv, TypeOK, Closings
<1>3. pc[m] = "commit" /\ pc'[m] = "poll"
  BY <1>2 DEF Commit
<1>4. \A n \in Members : n # m =>
         pending'[n] = pending[n] /\ closing'[n] = closing[n] /\ pc'[n] = pc[n]
  BY <1>2 DEF Commit
<1>5. \A p \in Partitions, w \in Windows : pending'[m][p][w] \in {-1, pending[m][p][w]}
  <2> SUFFICES ASSUME NEW p \in Partitions, NEW w \in Windows
               PROVE  pending'[m][p][w] \in {-1, pending[m][p][w]}
    OBVIOUS
  <2>1. pending'[m][p] = IF closing[m][p].windows = {}
                         THEN pending[m][p]
                         ELSE Tracker!Released(pending[m][p], mgr[m][p].emitted)
    BY <1>2 DEF Commit
  <2>2. pending[m][p] \in Tracker!Pending
    BY <1>2
  <2> QED BY <2>1, <2>2, ReleasedFacts
<1>6. \A n \in Members, p \in Partitions, o \in Messages :
         Writing(n, p, o)' <=> Writing(n, p, o)
  BY <1>3, <1>4 DEF Writing
<1>7. OpenIsCurrent'
  BY <1>1 DEF IInv, OpenIsCurrent, Open
<1>8. RecordsAccounted'
  <2> SUFFICES ASSUME NEW n \in Members, NEW p \in Partitions, NEW w \in Windows,
                      NEW o \in Messages, o <= pending'[n][p][w]
               PROVE  Accounted(n, p, w, o)'
    BY DEF RecordsAccounted
  <2>1. o <= pending[n][p][w]
    <3>1. CASE n = m
      <4>1. o \in Nat
        BY MessagesAssumption
      <4> QED BY <1>5, <3>1, <4>1
    <3>2. CASE n # m
      BY <1>4, <3>2
    <3> QED BY <3>1, <3>2
  <2>2. Accounted(n, p, w, o)
    BY <2>1 DEF IInv, RecordsAccounted
  <2> QED BY <1>1, <1>6, <2>2 DEF Accounted, Settled, Open
<1>9. CommittedIsSettled'
  <2> SUFFICES ASSUME NEW p \in Partitions, NEW o \in Messages, o < committed'[p]
               PROVE  o \in Settled(p)
    BY <1>1 DEF CommittedIsSettled, Settled
  <2>1. committed'[p] = IF Release(m, p) # None THEN Release(m, p) ELSE committed[p]
    BY DEF Commit
  <2>2. CASE Release(m, p) = None
    BY <2>1, <2>2 DEF IInv, CommittedIsSettled
  <2>3. CASE Release(m, p) # None
    <3>1. PICK w \in Windows : /\ w <= mgr[m][p].emitted
                              /\ pending[m][p][w] \in Nat
                              /\ Release(m, p) = pending[m][p][w] + 1
      BY <2>3, ReleaseFacts DEF IInv
    <3>2. o <= pending[m][p][w]
      <4>1. o \in Nat
        BY MessagesAssumption
      <4> QED BY <2>1, <2>3, <3>1, <4>1
    <3>3. Accounted(m, p, w, o)
      BY <3>2 DEF IInv, RecordsAccounted
    <3>4. ASSUME NEW v \in Windows, v <= w, Open(m, p, v, o) PROVE FALSE
      <4>1. mgr[m][p].emitted # None /\ mgr[m][p].emitted < v
        BY <3>4 DEF IInv, OpenIsCurrent
      <4>2. mgr[m][p].emitted \in Int
        BY <1>2, <4>1 DEF Managers
      <4>3. v \in Int /\ w \in Int
        BY WindowsAreNat
      <4> QED BY <3>1, <3>4, <4>1, <4>2, <4>3
    <3> QED BY <1>3, <3>3, <3>4 DEF Accounted, Writing
  <2> QED BY <2>2, <2>3
<1>10. OwnerAccountsForAll'
  <2> SUFFICES ASSUME NEW p \in Partitions, NEW o \in Messages, owner[p] # None, o < pos[p]
               PROVE  o \in Settled(p) \/ o \in Unwritten(owner[p], p)'
    BY <1>1 DEF OwnerAccountsForAll, Settled
  <2>1. owner[p] \in Members
    BY <1>2
  <2>2. o \in Settled(p) \/ o \in Unwritten(owner[p], p)
    BY DEF IInv, OwnerAccountsForAll
  <2>3. Unwritten(owner[p], p)' = Unwritten(owner[p], p)
    BY <1>1, <1>3, <1>4, <2>1 DEF Unwritten
  <2> QED BY <2>2, <2>3
<1> QED BY <1>7, <1>8, <1>9, <1>10, CommitTInv DEF IInv

(* One turn of the loop: every message that was in memory, or was taken,   *)
(* is still in memory, or in a summary to write, or discarded.             *)
LEMMA IterateEffect ==
    ASSUME IInv, NEW m \in Members, Iterate(m), NEW p \in Partitions, NEW o \in Messages
    PROVE  /\ \A w \in Windows : Open(m, p, w, o)' =>
                /\ w <= Win(now)
                /\ mgr'[m][p].emitted # None /\ mgr'[m][p].emitted < w
           /\ \A w \in Windows : Open(m, p, w, o) =>
                Open(m, p, w, o)' \/ Writing(m, p, o)' \/ o \in Settled(p)'
           /\ \A w \in Windows : w = Win(now) /\ o \in Took(p) =>
                Open(m, p, w, o)' \/ Writing(m, p, o)' \/ o \in Settled(p)'
<1> DEFINE old == mgr[m][p]
           A == Added(m, p)
<1>1. /\ now \in 0 .. MaxTime /\ now \in Int /\ Win(now) \in Windows /\ Win(now) \in Int
      /\ TypeOK
  BY NowType, WinFacts DEF IInv, TInv
<1>2. old \in Managers
  BY <1>1 DEF TypeOK
<1>3. /\ A \in Managers
      /\ \A w \in Windows : A.windows[w][o] > 0 <=>
             \/ old.windows[w][o] > 0
             \/ o \in Took(p) /\ w = Win(now) /\ ~IsLate(old, now)
      /\ A.emitted = IF Took(p) = {} THEN old.emitted ELSE Origin(old, now)
  BY <1>1, <1>2, AddRunFacts DEF Added
<1>4. \A w \in Windows : old.windows[w][o] > 0 =>
         w <= Win(now) /\ old.emitted # None /\ old.emitted < w
  BY DEF IInv, OpenIsCurrent, Open
<1>5. \A w \in Windows : A.windows[w][o] > 0 =>
         w <= Win(now) /\ A.emitted # None /\ A.emitted < w
  <2> SUFFICES ASSUME NEW w \in Windows, A.windows[w][o] > 0
               PROVE  w <= Win(now) /\ A.emitted # None /\ A.emitted < w
    OBVIOUS
  <2>1. CASE old.windows[w][o] > 0
    <3>1. A.emitted = old.emitted
      BY <1>3, <1>4, <2>1 DEF Origin
    <3> QED BY <1>4, <2>1, <3>1
  <2>2. CASE o \in Took(p) /\ w = Win(now) /\ ~IsLate(old, now)
    <3>1. A.emitted = Origin(old, now)
      BY <1>3, <2>2
    <3>2. CASE old.emitted = None
      BY <1>1, <2>2, <3>1, <3>2, NoneAssumption DEF Origin
    <3>3. CASE old.emitted # None
      <4>1. old.emitted \in Int /\ ~(Win(now) <= old.emitted)
        BY <1>2, <2>2, <3>3 DEF IsLate, Managers
      <4> QED BY <1>1, <2>2, <3>1, <3>3, <4>1 DEF Origin
    <3> QED BY <3>2, <3>3
  <2> QED BY <1>3, <2>1, <2>2
<1>6. /\ mgr'[m][p] = IF Closes(A, now) THEN PopClosed(A, now) ELSE A
      /\ Closes(A, now) =>
           pc'[m] = "write" /\ closing'[m][p].slices = Summaries(A, now)
      /\ dropped'[p] = dropped[p]
                       \cup (IF IsLate(old, now) THEN Took(p) ELSE {})
                       \cup (IF Closes(A, now) THEN Counted(Dropped(A, now)) ELSE {})
  <2> HIDE DEF A
  <2>1. \A q \in Partitions : q = p => Added(m, q) = A
    BY DEF A
  <2>2. mgr \in [Members -> [Partitions -> Managers]]
    BY <1>1 DEF TypeOK
  <2>3. mgr'[m][p] = IF Closes(A, now) THEN PopClosed(A, now) ELSE A
    BY <1>1, <2>2, IterateFacts DEF A
  <2>4. closing \in [Members -> [Partitions -> Closings]]
    BY <1>1 DEF TypeOK, Closings
  <2>5. closing'[m][p] = IF Closes(A, now)
                         THEN [windows |-> Popped(A, now), slices |-> Summaries(A, now)]
                         ELSE NoClosing
    BY <1>1, <2>4, IterateFacts DEF A
  <2>6. Closes(A, now) => pc'[m] = "write"
    BY <1>1, IterateFacts DEF A
  <2>7. dropped'[p] = dropped[p]
                     \cup (IF IsLate(old, now) THEN Took(p) ELSE {})
                     \cup (IF Closes(A, now) THEN Counted(Dropped(A, now)) ELSE {})
    BY <1>1, IterateFacts DEF A
  <2> QED BY <2>3, <2>5, <2>6, <2>7
<1> HIDE DEF A
<1>7. \A w \in Windows : Open(m, p, w, o)' =>
         w <= Win(now) /\ mgr'[m][p].emitted # None /\ mgr'[m][p].emitted < w
  <2>1. CASE Closes(A, now)
    <3>1. /\ mgr'[m][p].emitted = NewestClosed(now)
          /\ NewestClosed(now) \in Int
          /\ \A w \in Windows : mgr'[m][p].windows[w][o] > 0 =>
                A.windows[w][o] > 0 /\ NewestClosed(now) < w
      BY <1>1, <1>3, <1>6, <2>1, PopClosedFacts
    <3> QED BY <1>5, <3>1, NoneAssumption DEF Open
  <2>2. CASE ~Closes(A, now)
    BY <1>5, <1>6, <2>2 DEF Open
  <2> QED BY <2>1, <2>2
<1>8. \A w \in Windows : A.windows[w][o] > 0 =>
         Open(m, p, w, o)' \/ Writing(m, p, o)' \/ o \in Settled(p)'
  <2>1. CASE Closes(A, now)
    <3>1. \A w \in Windows : A.windows[w][o] > 0 =>
             \/ PopClosed(A, now).windows[w][o] > 0
             \/ o \in Counted(Summaries(A, now))
             \/ o \in Counted(Dropped(A, now))
      BY <1>1, <1>3, <2>1, PopClosedFacts
    <3> QED BY <1>6, <2>1, <3>1 DEF Open, Writing, Settled
  <2>2. CASE ~Closes(A, now)
    BY <1>6, <2>2 DEF Open
  <2> QED BY <2>1, <2>2
<1>9. ASSUME NEW w \in Windows, w = Win(now), o \in Took(p)
      PROVE  Open(m, p, w, o)' \/ Writing(m, p, o)' \/ o \in Settled(p)'
  <2>1. CASE IsLate(old, now)
    <3>1. o \in dropped'[p]
      BY <1>6, <1>9, <2>1
    <3> QED BY <3>1 DEF Settled
  <2>2. CASE ~IsLate(old, now)
    BY <1>1, <1>3, <1>8, <1>9, <2>2
  <2> QED BY <2>1, <2>2
<1>10. \A w \in Windows : Open(m, p, w, o) =>
          Open(m, p, w, o)' \/ Writing(m, p, o)' \/ o \in Settled(p)'
  BY <1>3, <1>8 DEF Open
<1> QED BY <1>7, <1>9, <1>10

LEMMA IterateIInv == IInv /\ (\E m \in Members : Iterate(m)) => IInv'
<1> SUFFICES ASSUME IInv, NEW m \in Members, Iterate(m) PROVE IInv'
  OBVIOUS
<1>1. TypeOK /\ now \in 0 .. MaxTime /\ Win(now) \in Windows
  BY NowType DEF IInv, TInv
<1>2. /\ pc[m] = "poll"
      /\ UNCHANGED <<now, end, committed, owner, joined, store, faults, written>>
      /\ \A p \in Partitions :
            /\ pos[p] <= pos'[p] /\ pos'[p] <= end[p]
            /\ owner[p] # m => pos'[p] = pos[p]
            /\ dropped[p] \subseteq dropped'[p]
  <2>1. \A p \in Partitions :
            dropped'[p] =
              dropped[p]
              \cup (IF IsLate(mgr[m][p], now) THEN Took(p) ELSE {})
              \cup (IF Closes(Added(m, p), now)
                    THEN Counted(Dropped(Added(m, p), now)) ELSE {})
    BY <1>1, IterateFacts
  <2>2. \A p \in Partitions : dropped[p] \subseteq dropped'[p]
    BY <2>1
  <2> QED BY <1>1, <2>2, IterateFacts
<1>3. \A p \in Partitions : Settled(p) \subseteq Settled(p)'
  BY <1>2 DEF Settled
<1>4. \A n \in Members : n # m =>
         /\ mgr'[n] = mgr[n] /\ pending'[n] = pending[n]
         /\ closing'[n] = closing[n] /\ pc'[n] = pc[n]
  <2>1. \A n \in Members : n # m => mgr'[n] = mgr[n]
    BY <1>1, IterateFacts DEF TypeOK
  <2>2. \A n \in Members : n # m => pending'[n] = pending[n]
    BY <1>1, IterateFacts DEF TypeOK
  <2>3. \A n \in Members : n # m => closing'[n] = closing[n]
    BY <1>1, IterateFacts DEF TypeOK
  <2>4. \A n \in Members : n # m => pc'[n] = pc[n]
    <3>1. pc' \in {[pc EXCEPT ![m] = "poll"], [pc EXCEPT ![m] = "write"]}
      BY <1>1, IterateFacts
    <3> QED BY <1>1, <3>1 DEF TypeOK
  <2> QED BY <2>1, <2>2, <2>3, <2>4
<1>5. \A n \in Members, p \in Partitions, w \in Windows, o \in Messages :
         n # m /\ Accounted(n, p, w, o) => Accounted(n, p, w, o)'
  BY <1>3, <1>4 DEF Accounted, Open, Writing
(* What the owner's memory holds up to the new position, in any window.    *)
<1>6. ASSUME NEW p \in Partitions, NEW o \in Messages, owner[p] = m, o < pos'[p],
             NEW w \in Windows, w = Win(now)
      PROVE  Accounted(m, p, w, o)'
  <2>1. CASE o < pos[p]
    <3>1. m # None
      BY MembersAssumption
    <3>2. o \in Settled(p) \/ o \in Unwritten(m, p)
      BY <1>6, <2>1, <3>1 DEF IInv, OwnerAccountsForAll
    <3>3. o \in Settled(p) \/ \E v \in Windows : Open(m, p, v, o)
      BY <1>2, <3>2, UnwrittenIs DEF Writing
    <3>4. \A v \in Windows : Open(m, p, v, o) => v <= w
      BY <1>6 DEF IInv, OpenIsCurrent
    <3>5. CASE o \in Settled(p)
      BY <1>3, <3>5 DEF Accounted
    <3>6. ASSUME NEW v \in Windows, Open(m, p, v, o)
          PROVE  Accounted(m, p, w, o)'
      <4>1. Open(m, p, v, o)' \/ Writing(m, p, o)' \/ o \in Settled(p)'
        BY <3>6, IterateEffect
      <4> QED BY <3>4, <3>6, <4>1 DEF Accounted
    <3> QED BY <3>3, <3>5, <3>6
  <2>2. CASE ~(o < pos[p])
    <3>1. o \in Took(p)
      <4>1. o \in Nat /\ pos[p] \in Nat /\ pos'[p] \in Nat
        BY <1>1, MessagesAssumption, IterateFacts DEF TypeOK
      <4> QED BY <1>6, <2>2, <4>1 DEF Took
    <3>2. Open(m, p, w, o)' \/ Writing(m, p, o)' \/ o \in Settled(p)'
      BY <1>6, <3>1, IterateEffect
    <3>3. w <= w
      BY WindowsAreNat
    <3> QED BY <3>2, <3>3 DEF Accounted
  <2> QED BY <2>1, <2>2
<1>7. OpenIsCurrent'
  <2> SUFFICES ASSUME NEW n \in Members, NEW p \in Partitions, NEW w \in Windows,
                      NEW o \in Messages, Open(n, p, w, o)'
               PROVE  /\ w <= Win(now)
                      /\ mgr'[n][p].emitted # None /\ mgr'[n][p].emitted < w
    BY <1>2 DEF OpenIsCurrent
  <2>1. CASE n = m
    BY <2>1, IterateEffect
  <2>2. CASE n # m
    BY <1>4, <2>2 DEF IInv, OpenIsCurrent, Open
  <2> QED BY <2>1, <2>2
<1>8. RecordsAccounted'
  <2> SUFFICES ASSUME NEW n \in Members, NEW p \in Partitions, NEW w \in Windows,
                      NEW o \in Messages, o <= pending'[n][p][w]
               PROVE  Accounted(n, p, w, o)'
    BY DEF RecordsAccounted
  <2>1. CASE n # m
    BY <1>4, <1>5, <2>1 DEF IInv, RecordsAccounted
  <2>2. CASE n = m /\ pending'[m][p][w] = pending[m][p][w]
    <3>1. Accounted(m, p, w, o)
      BY <2>2 DEF IInv, RecordsAccounted
    <3>2. o \in Settled(p) \/ \E v \in Windows : v <= w /\ Open(m, p, v, o)
      BY <1>2, <3>1 DEF Accounted, Writing
    <3>3. ASSUME NEW v \in Windows, v <= w, Open(m, p, v, o)
          PROVE  Accounted(m, p, w, o)'
      <4>1. Open(m, p, v, o)' \/ Writing(m, p, o)' \/ o \in Settled(p)'
        BY <3>3, IterateEffect
      <4> QED BY <3>3, <4>1 DEF Accounted
    <3> QED BY <1>3, <2>2, <3>2, <3>3 DEF Accounted
  <2>3. CASE n = m /\ pending'[m][p][w] # pending[m][p][w]
    <3>1. /\ pos[p] \in Nat /\ pos'[p] \in Nat
          /\ mgr[m][p] \in Managers /\ pending[m][p] \in Tracker!Pending
      BY <1>1, IterateFacts DEF TypeOK
    <3>2. pending'[m][p] = RecordRun(mgr[m][p], pending[m][p], pos[p] .. pos'[p] - 1, now)
      <4>1. pending'[m][p] = RecordRun(mgr[m][p], pending[m][p], Took(p), now)
        BY <1>1, IterateFacts DEF TypeOK
      <4> QED BY <4>1 DEF Took
    <3>3. pending'[m][p][w] = pos'[p] - 1 /\ pos[p] <= pos'[p] - 1 /\ w = Win(now)
      <4> DEFINE manager == mgr[m][p]
                 offsets == pending[m][p]
                 from    == pos[p]
                 last    == pos'[p] - 1
                 run     == RecordRun(manager, offsets, from .. last, now)
      <4>1. /\ manager \in Managers /\ offsets \in Tracker!Pending
            /\ from \in Nat /\ last \in Int /\ now \in 0 .. MaxTime
        BY <1>1, <3>1 DEF TypeOK
      <4>2. pending'[m][p][w] = run[w] /\ offsets[w] # run[w]
        BY <2>3, <3>2
      <4> HIDE DEF manager, offsets, from, last
      <4>3. run[w] = offsets[w] \/ (run[w] = last /\ from <= last /\ w = Win(now))
        BY <4>1, RecordRunFacts
      <4> HIDE DEF run
      <4>4. run[w] = last /\ from <= last /\ w = Win(now)
        BY <4>2, <4>3
      <4> QED BY <4>2, <4>4 DEF from, last
    <3>4. owner[p] = m
      BY <1>2, <3>1, <3>3
    <3>5. o < pos'[p]
      <4>1. o \in Nat
        BY MessagesAssumption
      <4> QED BY <2>3, <3>1, <3>3, <4>1
    <3> QED BY <1>6, <2>3, <3>3, <3>4, <3>5
  <2> QED BY <2>1, <2>2, <2>3
<1>9. CommittedIsSettled'
  BY <1>2, <1>3 DEF IInv, CommittedIsSettled
<1>10. OwnerAccountsForAll'
  <2> SUFFICES ASSUME NEW p \in Partitions, NEW o \in Messages, owner[p] # None, o < pos'[p]
               PROVE  o \in Settled(p)' \/ o \in Unwritten(owner[p], p)'
    BY <1>2 DEF OwnerAccountsForAll
  <2>1. CASE owner[p] = m
    <3>1. PICK w \in Windows : Accounted(m, p, w, o)'
      BY <1>1, <1>6, <2>1
    <3>2. o \in Settled(p)' \/ (\E v \in Windows : Open(m, p, v, o)') \/ Writing(m, p, o)'
      BY <3>1 DEF Accounted
    <3>3. (\E v \in Windows : Open(m, p, v, o)') \/ Writing(m, p, o)' => o \in Unwritten(m, p)'
      BY DEF Unwritten, Counted, Open, Writing
    <3> QED BY <1>2, <2>1, <3>2, <3>3 DEF Unwritten
  <2>2. CASE owner[p] # m
    <3>1. owner[p] \in Members /\ pos'[p] = pos[p]
      BY <1>1, <1>2, <2>2 DEF TypeOK
    <3>2. o \in Settled(p) \/ o \in Unwritten(owner[p], p)
      BY <3>1 DEF IInv, OwnerAccountsForAll
    <3>3. Unwritten(owner[p], p)' = Unwritten(owner[p], p)
      BY <1>2, <1>4, <2>2, <3>1 DEF Unwritten
    <3> QED BY <1>3, <3>2, <3>3
  <2> QED BY <2>1, <2>2
<1> QED BY <1>7, <1>8, <1>9, <1>10, IterateTInv DEF IInv

LEMMA NextIInv == IInv /\ [Next]_vars => IInv'
<1> SUFFICES ASSUME IInv, [Next]_vars PROVE IInv'
  OBVIOUS
<1>1. CASE UNCHANGED vars
  <2>1. TInv'
    BY NextTInv DEF IInv
  <2>2. UNCHANGED <<now, committed, owner, pc, pos, mgr, pending, closing, written, dropped>>
    BY <1>1 DEF vars, kafka, memory
  <2>3. now' \in Int /\ now <= now'
    BY <2>2, NowType DEF IInv, TInv
  <2>4. OpenIsCurrent' /\ RecordsAccounted'
    BY <2>2, <2>3, MembersKept DEF IInv, TInv, Settled, Writing
  <2>5. CommittedIsSettled' /\ OwnerAccountsForAll'
    BY <2>2 DEF IInv, CommittedIsSettled, OwnerAccountsForAll, Settled, Unwritten
  <2> QED BY <2>1, <2>4, <2>5 DEF IInv
<1> QED BY <1>1, TickIInv, ProduceIInv, StartIInv, RebalanceIInv, EvictIInv, EndIInv,
           IterateIInv, WriteIInv, CommitIInv DEF Next

LEMMA IInvInvariant == Spec => []IInv
BY InitIInv, NextIInv, PTL DEF Spec

(* The offset the group has committed never passes a message that no       *)
(* aggregator has written or discarded as late, whoever commits and        *)
(* however partitions move between the members.                            *)
THEOREM GroupNeverSkips == Spec => []CommittedIsSettled
<1>1. IInv => CommittedIsSettled
  BY DEF IInv
<1> QED BY <1>1, IInvInvariant, PTL

(* The owner of a partition has every message below its position in        *)
(* memory, unless it is settled: a partition that changes hands leaves no  *)
(* message that nobody will write.                                         *)
THEOREM GroupOwnerAccounts == Spec => []OwnerAccountsForAll
<1>1. IInv => OwnerAccountsForAll
  BY DEF IInv
<1> QED BY <1>1, IInvInvariant, PTL
=============================================================================
