-------------------------- MODULE AggregatorProofs --------------------------
(***************************************************************************)
(* Proofs about the aggregator, for every number of partitions and         *)
(* messages, every window size, grace, gap limit and history length, and   *)
(* any number of crashes.                                                  *)
(***************************************************************************)
EXTENDS Aggregator, WindowingProofs, FiniteSetTheorems

-----------------------------------------------------------------------------
(* Lemmas about the offset tracker                                         *)

(* release_partition() returns the offset after a recorded one, the        *)
(* highest of the windows that are done.                                   *)
LEMMA SafeOffsetFacts ==
    ASSUME NEW pend \in Tracker!Pending, NEW b \in Nat, NEW through,
           \A w \in Windows : pend[w] < b,
           Tracker!SafeOffset(pend, through) # None
    PROVE  \E w \in Tracker!Done(pend, through) :
              /\ pend[w] \in Nat
              /\ Tracker!SafeOffset(pend, through) = pend[w] + 1
              /\ \A u \in Tracker!Done(pend, through) : pend[u] <= pend[w]
<1> DEFINE done == Tracker!Done(pend, through)
           S == {pend[w] : w \in done}
<1>1. done # {} /\ done \subseteq Windows
  BY DEF Tracker!SafeOffset, Tracker!Done
<1>2. S \subseteq Nat /\ S # {} /\ \A x \in S : x < b
  BY <1>1 DEF Tracker!Done, Tracker!Pending
<1>3. \E x \in S : \A y \in S : y <= x
  <2> HIDE DEF S
  <2> QED BY <1>2, GreatestExists
<1>4. \E x \in S : \A w \in done : pend[w] <= x
  BY <1>3
<1>5. /\ Tracker!Highest(pend, through) \in S
      /\ \A w \in done : pend[w] <= Tracker!Highest(pend, through)
  BY <1>4 DEF Tracker!Highest
<1> QED BY <1>1, <1>2, <1>5 DEF Tracker!SafeOffset

LEMMA RecordFacts ==
    ASSUME NEW pend \in Tracker!Pending, NEW o \in Nat, NEW w \in Windows
    PROVE  /\ Tracker!Record(pend, o, w) \in Tracker!Pending
           /\ \A u \in Windows : u # w => Tracker!Record(pend, o, w)[u] = pend[u]
           /\ \A u \in Windows : Tracker!Record(pend, o, w)[u] \in {o, pend[u]}
BY DEF Tracker!Record, Tracker!Pending

LEMMA ReleasedFacts ==
    ASSUME NEW pend \in Tracker!Pending, NEW through
    PROVE  /\ Tracker!Released(pend, through) \in Tracker!Pending
           /\ \A u \in Windows : Tracker!Released(pend, through)[u] \in {-1, pend[u]}
BY DEF Tracker!Released, Tracker!Pending

(* A bag with one more copy of a message is a bag (add, window.py): the map    *)
(* keeps its domain and its counts stay natural numbers.                       *)
LEMMA OneMoreIsABag ==
  ASSUME NEW bag \in Bags, NEW m
  PROVE  [bag EXCEPT ![m] = @ + 1] \in Bags
<1> DEFINE more == [o \in Messages |-> IF o = m THEN bag[o] + 1 ELSE bag[o]]
<1>1. \A o \in Messages : more[o] \in Nat
  BY DEF Bags
<1>2. [bag EXCEPT ![m] = @ + 1] = more
  BY DEF Bags
<1> HIDE DEF more
<1>3. more \in [Messages -> Nat]
  BY <1>1 DEF more
<1> QED BY <1>2, <1>3 DEF Bags

LEMMA NoPendingType == Tracker!NoPending \in Tracker!Pending
BY DEF Tracker!NoPending, Tracker!Pending

-----------------------------------------------------------------------------
(* Type correctness                                                        *)

(* What TypeOK rests on: an offset is recorded only after the position has *)
(* passed it, and the group never commits beyond the end of the log.       *)
PendingBelowPosition ==
    \A p \in Partitions, w \in Windows : pending[p][w] < pos[p]

CommittedInLog ==
    \A p \in Partitions : committed[p] # None => committed[p] <= Len(log[p])

(* Where there is no process there is no memory. *)
DownIsEmpty ==
    pc = "down" => \A p \in Partitions : /\ mgr[p] = NewManager
                                         /\ pending[p] = Tracker!NoPending
                                         /\ closing[p] = NoClosing

TInv == TypeOK /\ PendingBelowPosition /\ CommittedInLog /\ DownIsEmpty

(* The script leaves a well-formed store.                                  *)
LEMMA WriteType ==
    ASSUME TypeOK
    PROVE  /\ Redis!Write(store, Entries).index \subseteq Int
           /\ Redis!Write(store, Entries).slices
                \in [Windows -> [Partitions -> Bags \cup {None}]]
<1> DEFINE up == Redis!Upsert(store, Entries)
<1>1. /\ store.index \subseteq Int
      /\ store.slices \in [Windows -> [Partitions -> Bags \cup {None}]]
      /\ closing \in [Partitions -> [windows : SUBSET Int, slices : [Windows -> Bags]]]
  BY DEF TypeOK
<1>2. \A e \in Entries : e[2] \in Int /\ (e[2] \in Windows => e[3] \in Bags)
  BY <1>1 DEF Entries
<1>3. up.index \subseteq Int
  BY <1>1, <1>2 DEF Redis!Upsert
<1>4. up.slices \in [Windows -> [Partitions -> Bags \cup {None}]]
  <2>1. ASSUME NEW w \in Windows, NEW p \in Partitions, Redis!Entry(Entries, w, p) # {}
        PROVE  (CHOOSE e \in Redis!Entry(Entries, w, p) : TRUE)[3] \in Bags
    <3> DEFINE e == CHOOSE e \in Redis!Entry(Entries, w, p) : TRUE
    <3>1. e \in Redis!Entry(Entries, w, p)
      BY <2>1
    <3>2. e \in Entries /\ e[2] = w
      BY <3>1 DEF Redis!Entry
    <3> QED BY <1>2, <3>2
  <2> QED BY <1>1, <2>1 DEF Redis!Upsert
<1>5. Redis!NoHash \in [Partitions -> Bags \cup {None}]
  BY DEF Redis!NoHash
<1>6. Redis!Trim(up).index \subseteq Int
  BY <1>3 DEF Redis!Trim
<1>7. Redis!Trim(up).slices \in [Windows -> [Partitions -> Bags \cup {None}]]
  <2> HIDE DEF up
  <2> QED BY <1>4, <1>5 DEF Redis!Trim
<1> QED BY <1>6, <1>7 DEF Redis!Write

LEMMA CountedType == \A bags : Counted(bags) \subseteq Messages
BY DEF Counted

LEMMA TimestampType ==
    ASSUME TypeOK, NEW p \in Partitions, pc = "add", pos[p] < fetched[p]
    PROVE  /\ pos[p] \in Messages
           /\ pos[p] \in Nat
           /\ Timestamp(log[p][pos[p] + 1]) \in 0 .. MaxTime
<1>1. /\ log[p] \in Seq(Stamps)
      /\ pos[p] \in Nat /\ fetched[p] \in Nat /\ fetched[p] <= Len(log[p])
      /\ 0 .. Len(log[p]) - 1 \subseteq Messages
      /\ arrival \in 0 .. MaxTime
  BY MaxNowAssumption, MaxTimeAssumption DEF TypeOK
<1>2. pos[p] + 1 \in 1 .. Len(log[p])
  BY <1>1
<1>3. log[p][pos[p] + 1] \in Stamps
  BY <1>1, <1>2
<1>4. pos[p] \in 0 .. Len(log[p]) - 1
  BY <1>1
<1>5. Timestamp(log[p][pos[p] + 1]) \in 0 .. MaxTime
  BY <1>1, <1>3, StampsAssumption DEF Timestamp
<1> QED BY <1>1, <1>4, <1>5

(* The memory of a process that ends is that of a process not started.     *)
LEMMA DieType ==
    ASSUME TypeOK, Die
    PROVE  /\ pc' = "down"
           /\ arrival' = 0
           /\ pos' = [p \in Partitions |-> 0]
           /\ fetched' = [p \in Partitions |-> 0]
           /\ mgr' \in [Partitions -> Managers]
           /\ pending' \in [Partitions -> Tracker!Pending]
           /\ closing' \in [Partitions -> [windows : SUBSET Int, slices : [Windows -> Bags]]]
           /\ restarts' \in 0 .. MaxRestarts
           /\ PendingBelowPosition'
           /\ DownIsEmpty'
BY NewManagerType, NoPendingType, NoEventsType, MaxRestartsAssumption
   DEF Die, TypeOK, NoClosing, Tracker!NoPending, PendingBelowPosition, DownIsEmpty

LEMMA InitTInv == Init => TInv
<1> SUFFICES ASSUME Init PROVE TInv
  OBVIOUS
<1>1. TypeOK
  <2>1. Redis!EmptyStore.index \subseteq Int
        /\ Redis!EmptyStore.slices \in [Windows -> [Partitions -> Bags \cup {None}]]
    BY DEF Redis!EmptyStore, Redis!NoHash
  <2>2. \A p \in Partitions : log[p] = <<>> /\ Len(log[p]) = 0
    BY DEF Init
  <2>3. log \in [Partitions -> Seq(Stamps)]
    BY DEF Init
  <2>4. /\ now \in 0 .. MaxNow /\ arrival \in 0 .. now /\ restarts \in 0 .. MaxRestarts
    BY MaxNowAssumption, MaxTimeAssumption, MaxRestartsAssumption DEF Init
  <2>5. closing \in [Partitions -> [windows : SUBSET Int, slices : [Windows -> Bags]]]
    BY NoEventsType DEF Init, NoClosing
  <2> QED BY <2>1, <2>2, <2>3, <2>4, <2>5, NewManagerType, NoPendingType,
             InitialCommitAssumption DEF Init, TypeOK, PCs
<1>2. PendingBelowPosition
  BY DEF Init, PendingBelowPosition, Tracker!NoPending
<1>3. CommittedInLog
  BY InitialCommitAssumption DEF Init, CommittedInLog
<1>4. DownIsEmpty
  BY DEF Init, DownIsEmpty
<1> QED BY <1>1, <1>2, <1>3, <1>4 DEF TInv

(* The steps of the world: time and producers.                             *)
LEMMA TickTInv == TInv /\ Tick => TInv'
<1> SUFFICES ASSUME TInv, Tick PROVE TInv'
  OBVIOUS
<1>1. now' \in 0 .. MaxNow /\ arrival' \in 0 .. now'
  BY MaxNowAssumption, MaxTimeAssumption DEF Tick, TInv, TypeOK, memory
<1>2. UNCHANGED <<log, committed, store, pc, pos, fetched, mgr, pending, closing,
                  restarts, seen, written, dropped>>
  BY DEF Tick, memory, history
<1> QED BY <1>1, <1>2 DEF TInv, TypeOK, PendingBelowPosition, CommittedInLog, DownIsEmpty

LEMMA ProduceTInv == TInv /\ (\E p \in Partitions : Produce(p)) => TInv'
<1> SUFFICES ASSUME TInv, NEW p \in Partitions, Produce(p) PROVE TInv'
  OBVIOUS
<1>1. PICK stamp \in Stamps : log' = [log EXCEPT ![p] = Append(@, stamp)]
  BY DEF Produce
<1>2. UNCHANGED <<now, committed, store, pc, arrival, pos, fetched, mgr, pending,
                  closing, restarts, seen, written, dropped>>
  BY DEF Produce, memory, history
<1>3. log \in [Partitions -> Seq(Stamps)]
  BY DEF TInv, TypeOK
<1>4. log' \in [Partitions -> Seq(Stamps)]
  BY <1>1, <1>3
<1>5. \A q \in Partitions :
         /\ Len(log[q]) \in Nat
         /\ Len(log'[q]) = IF q = p THEN Len(log[q]) + 1 ELSE Len(log[q])
  BY <1>1, <1>3
<1>6. \A q \in Partitions : 0 .. Len(log'[q]) - 1 \subseteq Messages
  <2> SUFFICES ASSUME NEW q \in Partitions, NEW o \in 0 .. Len(log'[q]) - 1
               PROVE  o \in Messages
    OBVIOUS
  <2>1. 0 .. Len(log[q]) - 1 \subseteq Messages
    BY DEF TInv, TypeOK
  <2>2. CASE o \in 0 .. Len(log[q]) - 1
    BY <2>1, <2>2
  <2>3. CASE o \notin 0 .. Len(log[q]) - 1
    <3>1. q = p /\ o = Len(log[p])
      BY <1>5, <2>3
    <3> QED BY <3>1 DEF Produce
  <2> QED BY <2>2, <2>3
<1>7. \A q \in Partitions : pos'[q] <= fetched'[q] /\ fetched'[q] <= Len(log'[q])
  <2> SUFFICES ASSUME NEW q \in Partitions
               PROVE  pos[q] <= fetched[q] /\ fetched[q] <= Len(log'[q])
    BY <1>2
  <2>1. pos[q] <= fetched[q] /\ fetched[q] <= Len(log[q]) /\ fetched[q] \in Nat
    BY DEF TInv, TypeOK
  <2> QED BY <1>5, <2>1
<1>8. CommittedInLog'
  <2> SUFFICES ASSUME NEW q \in Partitions, committed[q] # None
               PROVE  committed[q] <= Len(log'[q])
    BY <1>2 DEF CommittedInLog
  <2>1. committed[q] \in Nat /\ committed[q] <= Len(log[q])
    BY DEF TInv, TypeOK, CommittedInLog
  <2> QED BY <1>5, <2>1
<1> QED BY <1>2, <1>4, <1>6, <1>7, <1>8
     DEF TInv, TypeOK, PendingBelowPosition, DownIsEmpty

LEMMA StartTInv == TInv /\ Start => TInv'
<1> SUFFICES ASSUME TInv, Start PROVE TInv'
  OBVIOUS
<1> USE DEF TInv
<1>1. UNCHANGED <<now, log, committed, store, mgr, pending, closing, restarts,
                  seen, written, dropped>>
  BY DEF Start, history
<1>2. \A p \in Partitions : /\ StartPosition(p) \in Nat
                            /\ StartPosition(p) <= Len(log[p])
                            /\ Len(log[p]) \in Nat
  <2> SUFFICES ASSUME NEW p \in Partitions
               PROVE  /\ StartPosition(p) \in Nat
                      /\ StartPosition(p) <= Len(log[p])
                      /\ Len(log[p]) \in Nat
    OBVIOUS
  <2>1. log[p] \in Seq(Stamps) /\ committed[p] \in Nat \cup {None}
    BY DEF TypeOK
  <2>2. Len(log[p]) \in Nat
    BY <2>1
  <2> QED BY <2>1, <2>2 DEF CommittedInLog, StartPosition
<1>3. pos' = [p \in Partitions |-> StartPosition(p)] /\ fetched' = pos'
  BY DEF Start
<1>4. pos' \in [Partitions -> Nat]
  BY <1>2, <1>3
<1>5. \A p \in Partitions : pos'[p] <= fetched'[p] /\ fetched'[p] <= Len(log[p])
  BY <1>2, <1>3
<1>6. now \in Nat /\ arrival' \in 0 .. now
  BY MaxNowAssumption, MaxTimeAssumption DEF Start, TypeOK
<1>7. pc' = "poll" /\ pc' \in PCs
  BY DEF Start, PCs
<1>8. TypeOK'
  BY <1>1, <1>3, <1>4, <1>5, <1>6, <1>7 DEF TypeOK
<1>9. PendingBelowPosition'
  BY <1>1, <1>4 DEF Start, DownIsEmpty, PendingBelowPosition, Tracker!NoPending
<1>10. CommittedInLog' /\ DownIsEmpty'
  BY <1>1, <1>7 DEF CommittedInLog, DownIsEmpty
<1> QED BY <1>8, <1>9, <1>10

(* The steps of the loop.                                                  *)
LEMMA PollTInv == TInv /\ Poll => TInv'
<1> SUFFICES ASSUME TInv, Poll PROVE TInv'
  OBVIOUS
<1> USE DEF TInv
<1>1. UNCHANGED <<now, log, committed, store, pos, mgr, pending, closing, restarts,
                  seen, written, dropped>>
  BY DEF Poll, history
<1>2. PICK upto \in [Partitions -> UNION {pos[p] .. Len(log[p]) : p \in Partitions}] :
         /\ \A p \in Partitions : upto[p] \in pos[p] .. Len(log[p])
         /\ fetched' = upto
  BY DEF Poll
<1>3. \A p \in Partitions : pos[p] \in Nat /\ Len(log[p]) \in Nat
  BY DEF TypeOK
<1>4. /\ fetched' \in [Partitions -> Nat]
      /\ \A p \in Partitions : pos[p] <= fetched'[p] /\ fetched'[p] <= Len(log[p])
  <2>1. \A p \in Partitions : /\ upto[p] \in Nat
                               /\ pos[p] <= upto[p] /\ upto[p] <= Len(log[p])
    BY <1>2, <1>3
  <2> QED BY <1>2, <2>1
<1>5. now \in Nat /\ arrival' \in 0 .. now
  BY MaxNowAssumption, MaxTimeAssumption DEF Poll, TypeOK
<1>6. pc' = "add" /\ pc' \in PCs
  BY DEF Poll, PCs
<1>7. TypeOK'
  BY <1>1, <1>4, <1>5, <1>6 DEF TypeOK
<1> QED BY <1>1, <1>6, <1>7 DEF PendingBelowPosition, CommittedInLog, DownIsEmpty

LEMMA AddTInv == TInv /\ (\E p \in Partitions : AddMessage(p)) => TInv'
<1> SUFFICES ASSUME TInv, NEW p \in Partitions, AddMessage(p) PROVE TInv'
  OBVIOUS
<1> USE DEF TInv
<1> DEFINE ts == Timestamp(log[p][pos[p] + 1])
           late == IsLate(mgr[p], ts)
<1>1. UNCHANGED <<now, log, committed, store, pc, arrival, fetched, closing, restarts,
                  written>>
  BY DEF AddMessage
<1>2. /\ pc = "add" /\ pos[p] < fetched[p]
      /\ mgr' = [mgr EXCEPT ![p] = Add(@, pos[p], ts)]
      /\ pending' = [pending EXCEPT ![p] =
                       IF late THEN @ ELSE Tracker!Record(@, pos[p], Win(ts))]
      /\ pos' = [pos EXCEPT ![p] = pos[p] + 1]
      /\ seen' = [seen EXCEPT ![p] = @ \cup {pos[p]}]
      /\ dropped' = [dropped EXCEPT ![p] = IF late THEN @ \cup {pos[p]} ELSE @]
  BY DEF AddMessage
<1>3. pos[p] \in Messages /\ pos[p] \in Nat /\ ts \in 0 .. MaxTime
  BY <1>2, TimestampType
<1>4. Win(ts) \in Windows
  BY <1>3, WinFacts, MaxTimeAssumption
<1>5. mgr' \in [Partitions -> Managers]
  BY <1>2, <1>3, AddType DEF TypeOK
<1>6. /\ pending' \in [Partitions -> Tracker!Pending]
      /\ PendingBelowPosition'
  <2>1. pending[p] \in Tracker!Pending /\ pos \in [Partitions -> Nat]
        /\ pending \in [Partitions -> Tracker!Pending]
    BY DEF TypeOK
  <2>2. pending'[p] \in Tracker!Pending
    BY <1>2, <1>3, <1>4, <2>1, RecordFacts
  <2>3. pending' \in [Partitions -> Tracker!Pending]
    BY <1>2, <2>1, <2>2
  <2>4. \A w \in Windows : pending'[p][w] \in {pos[p], pending[p][w]}
    <3>1. pending'[p] = IF late THEN pending[p]
                        ELSE Tracker!Record(pending[p], pos[p], Win(ts))
      BY <1>2, <2>1
    <3>2. \A w \in Windows :
             Tracker!Record(pending[p], pos[p], Win(ts))[w] \in {pos[p], pending[p][w]}
      BY <1>3, <1>4, <2>1, RecordFacts
    <3> QED BY <3>1, <3>2
  <2>5. \A w \in Windows : pending[p][w] \in Int /\ pending[p][w] < pos[p]
    BY <2>1 DEF PendingBelowPosition, Tracker!Pending
  <2>6. \A w \in Windows : pending'[p][w] < pos'[p]
    BY <1>2, <1>3, <2>1, <2>4, <2>5
  <2> QED BY <1>2, <2>1, <2>3, <2>6 DEF PendingBelowPosition
<1>7. /\ pos' \in [Partitions -> Nat]
      /\ \A q \in Partitions : pos'[q] <= fetched'[q] /\ fetched'[q] <= Len(log[q])
  BY <1>1, <1>2, <1>3 DEF TypeOK
<1>8. /\ seen' \in [Partitions -> SUBSET Messages]
      /\ dropped' \in [Partitions -> SUBSET Messages]
  BY <1>2, <1>3 DEF TypeOK
<1>9. TypeOK'
  BY <1>1, <1>5, <1>6, <1>7, <1>8 DEF TypeOK
<1>10. CommittedInLog' /\ DownIsEmpty'
  BY <1>1, <1>2 DEF CommittedInLog, DownIsEmpty
<1> QED BY <1>6, <1>9, <1>10

LEMMA FlushNothingTInv == TInv /\ FlushNothing => TInv'
<1> SUFFICES ASSUME TInv, FlushNothing PROVE TInv'
  OBVIOUS
<1>1. UNCHANGED <<now, log, committed, store, arrival, pos, fetched, mgr, pending,
                  closing, restarts, seen, written, dropped>>
  BY DEF FlushNothing, memory, history
<1>2. pc' = "poll" /\ pc' \in PCs
  BY DEF FlushNothing, PCs
<1> QED BY <1>1, <1>2 DEF TInv, TypeOK, PendingBelowPosition, CommittedInLog, DownIsEmpty

(* The clock a manager's windows are closed by is a time.                  *)
LEMMA ClockType ==
    ASSUME TypeOK, NEW p \in Partitions, ClosesNow(p)
    PROVE  /\ mgr[p] \in Managers
           /\ Clock(p) \in Int
           /\ Closes(mgr[p], Clock(p))
BY MaxNowAssumption, MaxTimeAssumption DEF TypeOK, ClosesNow, Clock, Managers

LEMMA FlushTInv == TInv /\ Flush => TInv'
<1> SUFFICES ASSUME TInv, Flush PROVE TInv'
  OBVIOUS
<1> USE DEF TInv
<1>1. UNCHANGED <<now, log, committed, store, arrival, pos, fetched, pending, restarts,
                  seen, written>>
  BY DEF Flush
<1>2. pc' = "write" /\ pc' \in PCs
  BY DEF Flush, PCs
<1>3. mgr' \in [Partitions -> Managers]
  <2> SUFFICES ASSUME NEW p \in Partitions
               PROVE  (IF ClosesNow(p) THEN PopClosed(mgr[p], Clock(p)) ELSE mgr[p])
                        \in Managers
    BY DEF Flush
  <2>1. CASE ClosesNow(p)
    BY <2>1, ClockType, PopClosedType
  <2>2. CASE ~ClosesNow(p)
    BY <2>2 DEF TypeOK
  <2> QED BY <2>1, <2>2
<1>4. closing' \in [Partitions -> [windows : SUBSET Int, slices : [Windows -> Bags]]]
  <2> DEFINE c(p) == [windows |-> Popped(mgr[p], Clock(p)),
                      slices  |-> Summaries(mgr[p], Clock(p))]
  <2> SUFFICES ASSUME NEW p \in Partitions
               PROVE  (IF ClosesNow(p) THEN c(p) ELSE NoClosing)
                        \in [windows : SUBSET Int, slices : [Windows -> Bags]]
    BY DEF Flush
  <2>1. CASE ClosesNow(p)
    <3>1. Popped(mgr[p], Clock(p)) \subseteq Int
      BY <2>1, ClockType, ResumeBounds DEF Popped
    <3>2. Summaries(mgr[p], Clock(p)) \in [Windows -> Bags]
      BY <2>1, ClockType, SummariesType
    <3> QED BY <2>1, <3>1, <3>2
  <2>2. CASE ~ClosesNow(p)
    BY <2>2, NoEventsType DEF NoClosing
  <2> QED BY <2>1, <2>2
<1>5. dropped' \in [Partitions -> SUBSET Messages]
  BY CountedType DEF Flush, TypeOK
<1>6. TypeOK'
  BY <1>1, <1>2, <1>3, <1>4, <1>5 DEF TypeOK
<1> QED BY <1>1, <1>2, <1>6 DEF PendingBelowPosition, CommittedInLog, DownIsEmpty

LEMMA ReachesRedisType ==
    ASSUME TypeOK, SliceReachesRedis
    PROVE  /\ store'.index \subseteq Int
           /\ store'.slices \in [Windows -> [Partitions -> Bags \cup {None}]]
           /\ written' \in [Partitions -> SUBSET Messages]
BY WriteType, CountedType DEF SliceReachesRedis, TypeOK

LEMMA WriteTInv == TInv /\ Write => TInv'
<1> SUFFICES ASSUME TInv, Write PROVE TInv'
  OBVIOUS
<1>1. UNCHANGED <<now, log, committed, arrival, pos, fetched, mgr, pending,
                  closing, restarts, seen, dropped>>
  BY DEF Write, memory
<1>2. pc' = "commit" /\ pc' \in PCs
  BY DEF Write, PCs
<1>3. /\ store'.index \subseteq Int
      /\ store'.slices \in [Windows -> [Partitions -> Bags \cup {None}]]
      /\ written' \in [Partitions -> SUBSET Messages]
  BY ReachesRedisType DEF TInv, Write
<1> QED BY <1>1, <1>2, <1>3
     DEF TInv, TypeOK, PendingBelowPosition, CommittedInLog, DownIsEmpty

(* What is released is the offset after a recorded one of a window that    *)
(* was written, and the position has passed it.                            *)
LEMMA ReleaseFacts ==
    ASSUME TInv, NEW p \in Partitions, Release(p) # None
    PROVE  \E w \in Windows :
              /\ w <= mgr[p].emitted
              /\ pending[p][w] \in Nat
              /\ Release(p) = pending[p][w] + 1
              /\ pending[p][w] < pos[p]
<1>1. /\ pending[p] \in Tracker!Pending /\ pos[p] \in Nat
      /\ \A w \in Windows : pending[p][w] < pos[p]
  BY DEF TInv, TypeOK, PendingBelowPosition
<1>2. /\ Release(p) = Tracker!SafeOffset(pending[p], mgr[p].emitted)
      /\ Tracker!SafeOffset(pending[p], mgr[p].emitted) # None
  BY DEF Release
<1>3. \E w \in Tracker!Done(pending[p], mgr[p].emitted) :
         /\ pending[p][w] \in Nat
         /\ Tracker!SafeOffset(pending[p], mgr[p].emitted) = pending[p][w] + 1
  BY <1>1, <1>2, SafeOffsetFacts
<1> QED BY <1>1, <1>2, <1>3 DEF Tracker!Done

LEMMA CommitForType ==
    ASSUME TInv, NEW done
    PROVE  /\ CommitFor(done) \in [Partitions -> Nat \cup {None}]
           /\ \A p \in Partitions :
                 CommitFor(done)[p] # None => CommitFor(done)[p] <= Len(log[p])
<1> SUFFICES ASSUME NEW p \in Partitions
             PROVE  LET c == IF p \in done /\ Release(p) # None
                             THEN Release(p) ELSE committed[p]
                    IN  c \in Nat \cup {None} /\ (c # None => c <= Len(log[p]))
  BY DEF CommitFor
<1>1. /\ committed[p] \in Nat \cup {None}
      /\ committed[p] # None => committed[p] <= Len(log[p])
      /\ pos[p] \in Nat /\ pos[p] <= Len(log[p]) /\ Len(log[p]) \in Nat
  <2>1. pos[p] \in Nat /\ fetched[p] \in Nat /\ log[p] \in Seq(Stamps)
        /\ pos[p] <= fetched[p] /\ fetched[p] <= Len(log[p])
    BY DEF TInv, TypeOK
  <2>2. Len(log[p]) \in Nat
    BY <2>1
  <2> QED BY <2>1, <2>2 DEF TInv, TypeOK, CommittedInLog
<1>2. CASE p \in done /\ Release(p) # None
  <2>1. Release(p) \in Nat /\ Release(p) <= pos[p]
    BY <1>1, <1>2, ReleaseFacts
  <2> QED BY <1>1, <1>2, <2>1
<1>3. CASE ~(p \in done /\ Release(p) # None)
  BY <1>1, <1>3
<1> QED BY <1>2, <1>3

LEMMA CommitTInv == TInv /\ Commit => TInv'
<1> SUFFICES ASSUME TInv, Commit PROVE TInv'
  OBVIOUS
<1>1. UNCHANGED <<now, log, store, arrival, pos, fetched, mgr, restarts, seen, written,
                  dropped>>
  BY DEF Commit, history
<1>2. pc' = "poll" /\ pc' \in PCs
  BY DEF Commit, PCs
<1>3. committed' \in [Partitions -> Nat \cup {None}] /\ CommittedInLog'
  BY <1>1, CommitForType DEF Commit, CommittedInLog
<1>4. closing' \in [Partitions -> [windows : SUBSET Int, slices : [Windows -> Bags]]]
  BY NoEventsType DEF Commit, NoClosing
<1>5. pending' \in [Partitions -> Tracker!Pending]
      /\ \A p \in Partitions, w \in Windows : pending'[p][w] \in {-1, pending[p][w]}
  BY ReleasedFacts DEF Commit, TInv, TypeOK
<1>6. PendingBelowPosition'
  <2> SUFFICES ASSUME NEW p \in Partitions, NEW w \in Windows
               PROVE  pending'[p][w] < pos[p]
    BY <1>1 DEF PendingBelowPosition
  <2>1. pos[p] \in Nat /\ pending[p][w] < pos[p]
    BY DEF TInv, TypeOK, PendingBelowPosition
  <2> QED BY <1>5, <2>1
<1> QED BY <1>1, <1>2, <1>3, <1>4, <1>5, <1>6 DEF TInv, TypeOK, DownIsEmpty

(* The steps that end the process.                                         *)
LEMMA DieTInv ==
    ASSUME TInv, Die, UNCHANGED <<now, log>>,
           committed' \in [Partitions -> Nat \cup {None}], CommittedInLog',
           store'.index \subseteq Int,
           store'.slices \in [Windows -> [Partitions -> Bags \cup {None}]],
           seen' \in [Partitions -> SUBSET Messages],
           written' \in [Partitions -> SUBSET Messages],
           dropped' \in [Partitions -> SUBSET Messages]
    PROVE  TInv'
<1>1. /\ pc' = "down" /\ arrival' = 0
      /\ pos' = [p \in Partitions |-> 0] /\ fetched' = [p \in Partitions |-> 0]
      /\ mgr' \in [Partitions -> Managers]
      /\ pending' \in [Partitions -> Tracker!Pending]
      /\ closing' \in [Partitions -> [windows : SUBSET Int, slices : [Windows -> Bags]]]
      /\ restarts' \in 0 .. MaxRestarts
      /\ PendingBelowPosition' /\ DownIsEmpty'
  BY DieType DEF TInv
<1>2. now \in Nat
  BY MaxNowAssumption, MaxTimeAssumption DEF TInv, TypeOK
<1>3. \A p \in Partitions : Len(log[p]) \in Nat
  BY DEF TInv, TypeOK
<1>4. \A p \in Partitions : pos'[p] <= fetched'[p] /\ fetched'[p] <= Len(log'[p])
  BY <1>1, <1>3
<1> QED BY <1>1, <1>2, <1>4 DEF TInv, TypeOK, PCs

LEMMA EndTInv == TInv /\ (WriteFails \/ CommitFails \/ Crash \/ Shutdown) => TInv'
<1> SUFFICES ASSUME TInv, WriteFails \/ CommitFails \/ Crash \/ Shutdown PROVE TInv'
  OBVIOUS
<1>1. TypeOK /\ CommittedInLog
  BY DEF TInv
<1>2. CASE WriteFails
  <2>1. Die /\ UNCHANGED <<now, log, committed, seen, dropped>>
    BY <1>2 DEF WriteFails
  <2>2. /\ store'.index \subseteq Int
        /\ store'.slices \in [Windows -> [Partitions -> Bags \cup {None}]]
        /\ written' \in [Partitions -> SUBSET Messages]
    BY <1>1, <1>2, ReachesRedisType DEF WriteFails, TypeOK
  <2> QED BY <1>1, <2>1, <2>2, DieTInv DEF TypeOK, CommittedInLog
<1>3. CASE CommitFails
  <2>1. Die /\ UNCHANGED <<now, log, store, seen, written, dropped>>
    BY <1>3 DEF CommitFails, history
  <2>2. committed' \in [Partitions -> Nat \cup {None}] /\ CommittedInLog'
    BY <1>3, <2>1, CommitForType DEF CommitFails, CommittedInLog
  <2> QED BY <1>1, <2>1, <2>2, DieTInv DEF TypeOK
<1>4. CASE Crash \/ Shutdown
  <2>1. Die /\ UNCHANGED <<now, log, committed, store, seen, written, dropped>>
    BY <1>4 DEF Crash, Shutdown, history
  <2> QED BY <1>1, <2>1, DieTInv DEF TypeOK, CommittedInLog
<1> QED BY <1>2, <1>3, <1>4

LEMMA NextTInv == TInv /\ [Next]_vars => TInv'
<1> SUFFICES ASSUME TInv, [Next]_vars PROVE TInv'
  OBVIOUS
<1>1. CASE UNCHANGED vars
  BY <1>1 DEF vars, memory, history, TInv, TypeOK, PendingBelowPosition,
              CommittedInLog, DownIsEmpty
<1> QED BY <1>1, TickTInv, ProduceTInv, StartTInv, PollTInv, AddTInv, FlushNothingTInv,
           FlushTInv, WriteTInv, CommitTInv, EndTInv DEF Next

LEMMA TInvInvariant == Spec => []TInv
BY InitTInv, NextTInv, PTL DEF Spec

(* The aggregator's state is always well formed, in either mode: no offset *)
(* outside the log is ever added, recorded or committed.                   *)
THEOREM AggregatorTypeCorrect == Spec => []TypeOK
<1>1. TInv => TypeOK
  BY DEF TInv
<1> QED BY <1>1, TInvInvariant, PTL

-----------------------------------------------------------------------------
(* Offsets are withheld until their windows are written                    *)
(*                                                                         *)
(* Where the messages of a partition enter its windows in the order of     *)
(* their offsets, what is in an open window is above every offset recorded *)
(* for an earlier one: releasing the earlier windows cannot release it.    *)
(* This is what makes WithheldUntilWritten inductive, and AddsInOrder is   *)
(* what it asks of the messages, in either mode.                           *)

Reached(p, w) == \/ pending[p][w] # -1
                 \/ \E o \in Messages : mgr[p].windows[w][o] > 0

AddsInOrder(p) ==
    LET ts == Timestamp(log[p][pos[p] + 1])
    IN  /\ ~IsLate(mgr[p], ts)
        /\ \A w \in Windows : Reached(p, w) => w <= Win(ts)

OpenAboveReleasable ==
    \A p \in Partitions, w \in Windows, o \in Messages :
        mgr[p].windows[w][o] > 0 =>
            /\ o < pos[p]
            /\ mgr[p].emitted # None /\ mgr[p].emitted < w
            /\ \A u \in Windows : u < w => pending[p][u] < o
            /\ committed[p] # None => committed[p] <= o

ClosingWithheld ==
    pc = "write" =>
        \A p \in Partitions, w \in Windows, o \in Messages :
            closing[p].slices[w][o] > 0 =>
                o < pos[p] /\ (committed[p] # None => committed[p] <= o)

CommittedNotAhead ==
    pc # "down" => \A p \in Partitions : committed[p] # None => committed[p] <= pos[p]

BInv == TInv /\ OpenAboveReleasable /\ ClosingWithheld /\ CommittedNotAhead

LEMMA EmptyManager == \A w \in Windows, o \in Messages : ~(NewManager.windows[w][o] > 0)
BY DEF NewManager, NoEvents

(* A state without a process satisfies the memory's part of the invariant. *)
LEMMA DownBInv ==
    ASSUME DownIsEmpty, pc = "down"
    PROVE  OpenAboveReleasable /\ ClosingWithheld /\ CommittedNotAhead
BY EmptyManager DEF DownIsEmpty, OpenAboveReleasable, ClosingWithheld, CommittedNotAhead

LEMMA InitBInv == Init => BInv
BY InitTInv, DownBInv DEF Init, BInv, TInv

LEMMA StartBInv == BInv /\ Start => BInv'
<1> SUFFICES ASSUME BInv, Start PROVE BInv'
  OBVIOUS
<1>1. /\ UNCHANGED <<committed, mgr, pending, closing>>
      /\ pc = "down" /\ pc' = "poll"
      /\ pos' = [p \in Partitions |-> StartPosition(p)]
  BY DEF Start
<1>2. TInv'
  BY StartTInv DEF BInv
<1>3. \A p \in Partitions : mgr'[p] = NewManager
  BY <1>1 DEF BInv, TInv, DownIsEmpty
<1>4. OpenAboveReleasable' /\ ClosingWithheld'
  BY <1>1, <1>3, EmptyManager DEF OpenAboveReleasable, ClosingWithheld
<1>5. CommittedNotAhead'
  <2> SUFFICES ASSUME NEW p \in Partitions, committed[p] # None
               PROVE  committed[p] <= pos'[p]
    BY <1>1 DEF CommittedNotAhead
  <2>1. committed[p] \in Nat /\ pos'[p] = committed[p]
    BY <1>1 DEF BInv, TInv, TypeOK, StartPosition
  <2> QED BY <2>1
<1> QED BY <1>2, <1>4, <1>5 DEF BInv

(* A message that comes in order is counted in its window, and recorded as *)
(* the last of it.                                                         *)
LEMMA AddedInOrder ==
    ASSUME TInv, NEW p \in Partitions, AddMessage(p), AddsInOrder(p),
           NEW v, v = Win(Timestamp(log[p][pos[p] + 1]))
    PROVE  /\ pos[p] \in Messages /\ pos[p] \in Nat /\ v \in Windows /\ v \in Nat
           /\ pos'[p] = pos[p] + 1
           /\ mgr'[p].windows = [mgr[p].windows EXCEPT ![v][pos[p]] = @ + 1]
           /\ mgr'[p].emitted \in Int /\ mgr'[p].emitted < v
           /\ mgr[p].emitted # None => mgr'[p].emitted = mgr[p].emitted
           /\ mgr[p].emitted = None => mgr'[p].emitted = v - 1
           /\ pending'[p] = [pending[p] EXCEPT ![v] = pos[p]]
           /\ dropped' = dropped
           /\ \A q \in Partitions : q # p =>
                 mgr'[q] = mgr[q] /\ pending'[q] = pending[q] /\ pos'[q] = pos[q]
<1> DEFINE m == pos[p]
           ts == Timestamp(log[p][m + 1])
<1>1. TypeOK /\ pc = "add" /\ m < fetched[p] /\ ~IsLate(mgr[p], ts)
  BY DEF TInv, AddMessage, AddsInOrder
<1>2. /\ m \in Messages /\ m \in Nat /\ ts \in 0 .. MaxTime
      /\ mgr[p] \in Managers /\ pending[p] \in Tracker!Pending
      /\ mgr \in [Partitions -> Managers] /\ pos \in [Partitions -> Nat]
      /\ pending \in [Partitions -> Tracker!Pending]
      /\ dropped \in [Partitions -> SUBSET Messages]
  BY <1>1, TimestampType DEF TypeOK
<1>3. v \in Windows /\ v \in Nat
  BY <1>2, WinFacts, MaxTimeAssumption, WindowsAreNat
<1>4. /\ mgr' = [mgr EXCEPT ![p] = Add(@, m, ts)]
      /\ pending' = [pending EXCEPT ![p] = Tracker!Record(@, m, v)]
      /\ pos' = [pos EXCEPT ![p] = m + 1]
      /\ dropped' = [dropped EXCEPT ![p] = @]
  BY <1>1 DEF AddMessage
<1>5. /\ mgr'[p] = Add(mgr[p], m, ts)
      /\ pending'[p] = Tracker!Record(pending[p], m, v)
      /\ pos'[p] = m + 1 /\ dropped' = dropped
      /\ \A q \in Partitions : q # p =>
            mgr'[q] = mgr[q] /\ pending'[q] = pending[q] /\ pos'[q] = pos[q]
  BY <1>2, <1>4
<1>6. /\ mgr'[p].windows = [mgr[p].windows EXCEPT ![v][m] = @ + 1]
      /\ mgr'[p].emitted = Origin(mgr[p], ts)
  BY <1>1, <1>2, <1>5 DEF Add, Managers
<1>7. /\ Origin(mgr[p], ts) \in Int /\ Origin(mgr[p], ts) < v
      /\ mgr[p].emitted # None => Origin(mgr[p], ts) = mgr[p].emitted
      /\ mgr[p].emitted = None => Origin(mgr[p], ts) = v - 1
  <2> HIDE DEF ts
  <2>1. mgr[p].emitted # None => mgr[p].emitted \in Int /\ mgr[p].emitted < v
    BY <1>1, <1>2, <1>3 DEF IsLate, Managers, ts
  <2> QED BY <1>3, <2>1 DEF Origin, ts
<1>8. pending'[p] = [pending[p] EXCEPT ![v] = m]
  <2>1. pending[p][v] \in Int /\ pending[p][v] < m
    BY <1>2, <1>3 DEF TInv, PendingBelowPosition, Tracker!Pending
  <2>2. m > pending[p][v]
    BY <1>2, <2>1
  <2> QED BY <1>2, <1>3, <1>5, <2>2 DEF Tracker!Record, Tracker!Pending
<1> QED BY <1>2, <1>3, <1>5, <1>6, <1>7, <1>8

LEMMA AddBInv ==
    ASSUME BInv, NEW p \in Partitions, AddMessage(p), AddsInOrder(p)
    PROVE  BInv'
<1> DEFINE m == pos[p]
           ts == Timestamp(log[p][pos[p] + 1])
           v == Win(ts)
<1>1. pc = "add" /\ UNCHANGED <<committed, pc, closing>>
  BY DEF AddMessage
<1>2. TInv' /\ TInv /\ TypeOK
  BY AddTInv DEF BInv, TInv
<1>3. /\ m \in Messages /\ m \in Nat /\ v \in Windows /\ v \in Nat
      /\ pos'[p] = m + 1
      /\ mgr'[p].windows = [mgr[p].windows EXCEPT ![v][m] = @ + 1]
      /\ mgr'[p].emitted \in Int /\ mgr'[p].emitted < v
      /\ mgr[p].emitted # None => mgr'[p].emitted = mgr[p].emitted
      /\ pending'[p] = [pending[p] EXCEPT ![v] = m]
      /\ \A q \in Partitions : q # p =>
            mgr'[q] = mgr[q] /\ pending'[q] = pending[q] /\ pos'[q] = pos[q]
  BY <1>2, AddedInOrder
<1>4. mgr[p] \in Managers /\ pending[p] \in Tracker!Pending
  BY <1>2 DEF TypeOK
<1>5. \A w \in Windows : Reached(p, w) => w <= v
  BY DEF AddsInOrder
<1> HIDE DEF ts, v
<1>6. OpenAboveReleasable'
  <2> SUFFICES ASSUME NEW q \in Partitions, NEW w \in Windows, NEW o \in Messages,
                      mgr'[q].windows[w][o] > 0
               PROVE  /\ o < pos'[q]
                      /\ mgr'[q].emitted # None /\ mgr'[q].emitted < w
                      /\ \A u \in Windows : u < w => pending'[q][u] < o
                      /\ committed[q] # None => committed[q] <= o
    BY <1>1 DEF OpenAboveReleasable
  <2>1. CASE q # p
    BY <1>3, <2>1 DEF BInv, OpenAboveReleasable
  <2>2. CASE q = p /\ ~(w = v /\ o = m)
    <3>1. mgr[p].windows[w][o] > 0
      BY <1>3, <1>4, <2>2 DEF Managers, Bags
    <3>2. /\ o < m
          /\ mgr[p].emitted # None /\ mgr[p].emitted < w
          /\ \A u \in Windows : u < w => pending[p][u] < o
          /\ committed[p] # None => committed[p] <= o
      BY <3>1 DEF BInv, OpenAboveReleasable
    <3>3. w <= v
      BY <1>5, <3>1 DEF Reached
    <3>4. o < pos'[p]
      BY <1>3, <3>2, MessagesAssumption
    <3>5. \A u \in Windows : u < w => pending'[p][u] < o
      <4> SUFFICES ASSUME NEW u \in Windows, u < w PROVE pending'[p][u] < o
        OBVIOUS
      <4>1. u # v
        BY <1>3, <3>3, WindowsAreNat
      <4>2. pending'[p][u] = pending[p][u]
        BY <1>3, <1>4, <4>1 DEF Tracker!Pending
      <4> QED BY <3>2, <4>2
    <3> QED BY <1>3, <2>2, <3>2, <3>4, <3>5, NoneAssumption
  <2>3. CASE q = p /\ w = v /\ o = m
    <3>1. o < pos'[p]
      BY <1>3, <2>3
    <3>2. \A u \in Windows : u < w => pending'[p][u] < o
      <4> SUFFICES ASSUME NEW u \in Windows, u < w PROVE pending'[p][u] < m
        BY <2>3
      <4>1. u # v
        BY <1>3, <2>3, WindowsAreNat
      <4>2. pending'[p][u] = pending[p][u]
        BY <1>3, <1>4, <4>1 DEF Tracker!Pending
      <4> QED BY <1>2, <4>2 DEF TInv, PendingBelowPosition
    <3>3. committed[p] # None => committed[p] <= m
      BY <1>1 DEF BInv, CommittedNotAhead
    <3> QED BY <1>3, <2>3, <3>1, <3>2, <3>3, NoneAssumption
  <2> QED BY <2>1, <2>2, <2>3
<1>7. ClosingWithheld'
  BY <1>1 DEF ClosingWithheld
<1>8. CommittedNotAhead'
  <2> SUFFICES ASSUME NEW q \in Partitions, committed[q] # None
               PROVE  committed[q] <= pos'[q]
    BY <1>1 DEF CommittedNotAhead
  <2>1. committed[q] \in Nat /\ committed[q] <= pos[q] /\ pos[q] \in Nat
    BY <1>1, <1>2 DEF TypeOK, BInv, CommittedNotAhead
  <2> QED BY <1>3, <2>1
<1> QED BY <1>2, <1>6, <1>7, <1>8 DEF BInv

(* What a flush leaves open was open, and what it closes was open.         *)
LEMMA FlushedWindows ==
    ASSUME TypeOK, Flush, NEW p \in Partitions, NEW w \in Windows, NEW o \in Messages
    PROVE  /\ mgr'[p].windows[w][o] > 0 =>
                 /\ mgr[p].windows[w][o] > 0
                 /\ ClosesNow(p) => /\ mgr'[p].emitted \in Int
                                    /\ mgr'[p].emitted < w
           /\ closing'[p].slices[w][o] > 0 => mgr[p].windows[w][o] > 0
           /\ ~ClosesNow(p) => mgr'[p] = mgr[p]
<1>1. ~(NoEvents[o] > 0)
  BY DEF NoEvents
<1>2. CASE ~ClosesNow(p)
  <2>1. mgr'[p] = mgr[p] /\ closing'[p] = NoClosing
    BY <1>2 DEF Flush
  <2> QED BY <1>1, <1>2, <2>1 DEF NoClosing
<1>3. CASE ClosesNow(p)
  <2> DEFINE c == Clock(p)
  <2>1. mgr[p] \in Managers /\ c \in Int /\ Closes(mgr[p], c)
    BY <1>3, ClockType
  <2>2. NewestClosed(c) \in Int
    BY <2>1, ResumeBounds
  <2>3. /\ mgr'[p] = PopClosed(mgr[p], c)
        /\ closing'[p].slices = Summaries(mgr[p], c)
    BY <1>3 DEF Flush
  <2> HIDE DEF c
  <2>4. /\ mgr'[p].emitted = NewestClosed(c)
        /\ mgr'[p].windows[w] = IF w <= NewestClosed(c) THEN NoEvents ELSE mgr[p].windows[w]
    BY <2>1, <2>3 DEF PopClosed, Managers
  <2>5. closing'[p].slices[w] \in {NoEvents, mgr[p].windows[w]}
    BY <2>3 DEF Summaries
  <2>6. ~(w <= NewestClosed(c)) => NewestClosed(c) < w
    BY <2>2, WindowsAreNat
  <2> QED BY <1>1, <1>3, <2>2, <2>4, <2>5, <2>6
<1> QED BY <1>2, <1>3

LEMMA FlushBInv == BInv /\ Flush => BInv'
<1> SUFFICES ASSUME BInv, Flush PROVE BInv'
  OBVIOUS
<1>1. pc = "add" /\ pc' = "write" /\ UNCHANGED <<committed, pos, pending>>
  BY DEF Flush
<1>2. TInv' /\ TypeOK
  BY FlushTInv DEF BInv, TInv
<1>3. OpenAboveReleasable'
  <2> SUFFICES ASSUME NEW p \in Partitions, NEW w \in Windows, NEW o \in Messages,
                      mgr'[p].windows[w][o] > 0
               PROVE  /\ o < pos[p]
                      /\ mgr'[p].emitted # None /\ mgr'[p].emitted < w
                      /\ \A u \in Windows : u < w => pending[p][u] < o
                      /\ committed[p] # None => committed[p] <= o
    BY <1>1 DEF OpenAboveReleasable
  <2> QED BY <1>2, FlushedWindows, NoneAssumption DEF BInv, OpenAboveReleasable
<1>4. ClosingWithheld'
  BY <1>1, <1>2, FlushedWindows DEF BInv, OpenAboveReleasable, ClosingWithheld
<1>5. CommittedNotAhead'
  BY <1>1 DEF BInv, CommittedNotAhead
<1> QED BY <1>2, <1>3, <1>4, <1>5 DEF BInv

LEMMA CommitBInv == BInv /\ Commit => BInv'
<1> SUFFICES ASSUME BInv, Commit PROVE BInv'
  OBVIOUS
<1>1. /\ pc = "commit" /\ pc' = "poll"
      /\ UNCHANGED <<pos, mgr>>
      /\ committed' = [p \in Partitions |->
                          IF Release(p) # None THEN Release(p) ELSE committed[p]]
  BY DEF Commit, CommitFor
<1>2. TInv' /\ TInv /\ TypeOK
  BY CommitTInv DEF BInv, TInv
<1>3. \A p \in Partitions, w \in Windows : pending'[p][w] \in {-1, pending[p][w]}
  BY <1>2, ReleasedFacts DEF Commit, TypeOK
<1>4. OpenAboveReleasable'
  <2> SUFFICES ASSUME NEW p \in Partitions, NEW w \in Windows, NEW o \in Messages,
                      mgr[p].windows[w][o] > 0
               PROVE  /\ o < pos[p]
                      /\ mgr[p].emitted # None /\ mgr[p].emitted < w
                      /\ \A u \in Windows : u < w => pending'[p][u] < o
                      /\ committed'[p] # None => committed'[p] <= o
    BY <1>1 DEF OpenAboveReleasable
  <2>1. /\ o < pos[p]
        /\ mgr[p].emitted # None /\ mgr[p].emitted < w
        /\ \A u \in Windows : u < w => pending[p][u] < o
        /\ committed[p] # None => committed[p] <= o
    BY DEF BInv, OpenAboveReleasable
  <2>2. o \in Nat /\ w \in Nat /\ mgr[p].emitted \in Int
    BY <1>2, <2>1, MessagesAssumption, WindowsAreNat DEF TypeOK, Managers
  <2>3. \A u \in Windows : u < w => pending'[p][u] < o
    <3> SUFFICES ASSUME NEW u \in Windows, u < w PROVE pending'[p][u] < o
      OBVIOUS
    <3>1. pending[p][u] < o /\ pending'[p][u] \in {-1, pending[p][u]}
      BY <1>3, <2>1
    <3> QED BY <2>2, <3>1
  <2>4. committed'[p] # None => committed'[p] <= o
    <3>1. CASE Release(p) # None
      <4>1. PICK u \in Windows : /\ u <= mgr[p].emitted
                                 /\ pending[p][u] \in Nat
                                 /\ Release(p) = pending[p][u] + 1
        BY <1>2, <3>1, ReleaseFacts
      <4>2. u < w
        BY <2>1, <2>2, <4>1, WindowsAreNat
      <4>3. pending[p][u] + 1 <= o
        BY <2>1, <2>2, <4>1, <4>2
      <4> QED BY <1>1, <3>1, <4>1, <4>3
    <3>2. CASE Release(p) = None
      BY <1>1, <2>1, <3>2
    <3> QED BY <3>1, <3>2
  <2> QED BY <2>1, <2>3, <2>4
<1>5. CommittedNotAhead'
  <2> SUFFICES ASSUME NEW p \in Partitions, committed'[p] # None
               PROVE  committed'[p] <= pos[p]
    BY <1>1 DEF CommittedNotAhead
  <2>1. CASE Release(p) # None
    <3>1. pos[p] \in Nat
      BY <1>2 DEF TypeOK
    <3>2. Release(p) <= pos[p]
      BY <1>2, <2>1, <3>1, ReleaseFacts
    <3> QED BY <1>1, <2>1, <3>2
  <2>2. CASE Release(p) = None
    BY <1>1, <2>2 DEF BInv, CommittedNotAhead
  <2> QED BY <2>1, <2>2
<1>6. ClosingWithheld'
  BY <1>1 DEF ClosingWithheld
<1> QED BY <1>2, <1>4, <1>5, <1>6 DEF BInv

(* The steps that change nothing this invariant speaks of, and the ends of *)
(* the process.                                                            *)
LEMMA OtherBInv ==
    ASSUME BInv,
           \/ UNCHANGED vars \/ Tick \/ (\E p \in Partitions : Produce(p)) \/ Poll
           \/ FlushNothing \/ Write
    PROVE  BInv'
<1>1. TInv'
  BY NextTInv DEF Next, BInv
<1>2. /\ UNCHANGED <<committed, pos, mgr, pending, closing>>
      /\ pc' = pc \/ (pc' # "write" /\ pc # "down")
  BY DEF vars, Tick, Produce, Poll, FlushNothing, Write, memory
<1> QED BY <1>1, <1>2 DEF BInv, OpenAboveReleasable, ClosingWithheld, CommittedNotAhead

LEMMA EndBInv == BInv /\ (WriteFails \/ CommitFails \/ Crash \/ Shutdown) => BInv'
<1> SUFFICES ASSUME BInv, WriteFails \/ CommitFails \/ Crash \/ Shutdown PROVE BInv'
  OBVIOUS
<1>1. TInv' /\ pc' = "down"
  BY EndTInv DEF BInv, WriteFails, CommitFails, Crash, Shutdown, Die
<1>2. (OpenAboveReleasable /\ ClosingWithheld /\ CommittedNotAhead)'
  BY <1>1, EmptyManager
     DEF TInv, DownIsEmpty, OpenAboveReleasable, ClosingWithheld, CommittedNotAhead
<1> QED BY <1>1, <1>2 DEF BInv

LEMMA NextBInv ==
    ASSUME BInv, [Next]_vars, \A p \in Partitions : AddMessage(p) => AddsInOrder(p)
    PROVE  BInv'
<1>1. CASE \E p \in Partitions : AddMessage(p)
  BY <1>1, AddBInv
<1> QED BY <1>1, StartBInv, FlushBInv, CommitBInv, OtherBInv, EndBInv DEF Next

LEMMA BInvWithheld == BInv => WithheldUntilWritten
BY DEF BInv, OpenAboveReleasable, ClosingWithheld, WithheldUntilWritten, Unwritten, Counted

-----------------------------------------------------------------------------
(* Arrival mode: every message comes in order                              *)
(*                                                                         *)
(* The windows follow the wall clock: the memory holds nothing of a window *)
(* later than the clock's, and that one is never closed.                   *)

MemoryNotAhead ==
    \A p \in Partitions, w \in Windows : Reached(p, w) => w <= Win(arrival)

AInv == BInv /\ NeverLate /\ MemoryNotAhead

LEMMA ArrivalInOrder ==
    ASSUME TimeSource = "arrival", AInv, NEW p \in Partitions
    PROVE  AddsInOrder(p)
<1>1. \A s : Timestamp(s) = arrival
  BY DEF Timestamp
<1>2. mgr[p] \in Managers /\ Win(arrival) \in Int
  <2>1. arrival \in Int
    BY MaxNowAssumption, MaxTimeAssumption DEF AInv, BInv, TInv, TypeOK
  <2> QED BY <2>1, WinFacts DEF AInv, BInv, TInv, TypeOK
<1>3. ~IsLate(mgr[p], arrival)
  BY <1>2 DEF AInv, NeverLate, IsLate, Managers
<1> QED BY <1>1, <1>3 DEF AddsInOrder, AInv, MemoryNotAhead

(* Where there is nothing in memory. *)
LEMMA NothingAhead ==
    ASSUME \A p \in Partitions : mgr[p] = NewManager /\ pending[p] = Tracker!NoPending
    PROVE  NeverLate /\ MemoryNotAhead
<1>1. NeverLate
  BY DEF NeverLate, NewManager
<1>2. \A p \in Partitions, w \in Windows : ~Reached(p, w)
  BY EmptyManager DEF Reached, Tracker!NoPending
<1> QED BY <1>1, <1>2 DEF MemoryNotAhead

LEMMA InitAInv == Init => AInv
<1> SUFFICES ASSUME Init PROVE AInv
  OBVIOUS
<1>1. \A p \in Partitions : mgr[p] = NewManager /\ pending[p] = Tracker!NoPending
  BY DEF Init
<1> QED BY <1>1, InitBInv, NothingAhead DEF AInv

LEMMA PollAInv ==
    ASSUME AInv, Poll
    PROVE  NeverLate' /\ MemoryNotAhead'
<1>1. UNCHANGED <<mgr, pending>> /\ arrival' = now
  BY DEF Poll
<1>2. /\ TypeOK
      /\ now \in Nat /\ arrival \in Nat /\ arrival <= now
  BY MaxNowAssumption, MaxTimeAssumption DEF AInv, BInv, TInv, TypeOK
<1>3. Win(arrival) \in Int /\ Win(now) \in Int /\ Win(arrival) <= Win(now)
  BY <1>2, WinFacts
<1>4. NeverLate'
  BY <1>1, <1>2, <1>3 DEF AInv, NeverLate, TypeOK, Managers
<1>5. MemoryNotAhead'
  BY <1>1, <1>3, WindowsAreNat DEF AInv, MemoryNotAhead, Reached
<1> QED BY <1>4, <1>5

LEMMA AddAInv ==
    ASSUME TimeSource = "arrival", AInv, NEW p \in Partitions, AddMessage(p)
    PROVE  NeverLate' /\ MemoryNotAhead'
<1> DEFINE v == Win(arrival)
<1>1. TInv /\ TypeOK /\ arrival' = arrival
  BY DEF AInv, BInv, TInv, AddMessage
<1>2. v = Win(Timestamp(log[p][pos[p] + 1]))
  BY DEF Timestamp
<1>3. /\ pos[p] \in Messages /\ v \in Windows /\ v \in Nat
      /\ mgr'[p].windows = [mgr[p].windows EXCEPT ![v][pos[p]] = @ + 1]
      /\ mgr'[p].emitted \in Int /\ mgr'[p].emitted < v
      /\ pending'[p] = [pending[p] EXCEPT ![v] = pos[p]]
      /\ \A q \in Partitions : q # p => mgr'[q] = mgr[q] /\ pending'[q] = pending[q]
  <2> HIDE DEF v
  <2> QED BY <1>1, <1>2, AddedInOrder, ArrivalInOrder
<1> HIDE DEF v
<1>4. NeverLate'
  BY <1>1, <1>3 DEF AInv, NeverLate, v
<1>5. ASSUME NEW q \in Partitions, NEW w \in Windows, Reached(q, w)'
      PROVE  w <= v
  <2>1. CASE q = p /\ w = v
    BY <1>3, <2>1
  <2>2. CASE ~(q = p /\ w = v)
    <3>1. pending'[q][w] = pending[q][w] /\ mgr'[q].windows[w] = mgr[q].windows[w]
      <4>1. mgr[p] \in Managers /\ pending[p] \in Tracker!Pending
        BY <1>1 DEF TypeOK
      <4> QED BY <1>3, <2>2, <4>1 DEF Managers, Tracker!Pending
    <3>2. Reached(q, w)
      BY <1>5, <3>1 DEF Reached
    <3> QED BY <3>2 DEF AInv, MemoryNotAhead, v
  <2> QED BY <2>1, <2>2
<1> QED BY <1>1, <1>4, <1>5 DEF MemoryNotAhead, v

LEMMA FlushAInv ==
    ASSUME TimeSource = "arrival", AInv, Flush
    PROVE  NeverLate' /\ MemoryNotAhead'
<1>1. UNCHANGED <<arrival, pending>>
  BY DEF Flush
<1>2. TypeOK
  BY DEF AInv, BInv, TInv
<1>3. arrival \in Int /\ Win(arrival) \in Int
  <2>1. arrival \in Int
    BY <1>2, MaxNowAssumption, MaxTimeAssumption DEF TypeOK
  <2> QED BY <2>1, WinFacts
<1>4. NewestClosed(arrival) \in Int /\ NewestClosed(arrival) < Win(arrival)
  BY <1>3, GraceAssumption, WinFacts DEF NewestClosed
<1>5. ASSUME NEW p \in Partitions, ClosesNow(p)
      PROVE  mgr'[p].emitted = NewestClosed(arrival)
  <2>1. mgr'[p] = PopClosed(mgr[p], arrival) /\ mgr[p] \in Managers
    BY <1>2, <1>5 DEF Flush, Clock, TypeOK
  <2> QED BY <2>1 DEF PopClosed, Managers
<1>6. NeverLate'
  <2> SUFFICES ASSUME NEW p \in Partitions, mgr'[p].emitted # None
               PROVE  mgr'[p].emitted < Win(arrival)
    BY <1>1 DEF NeverLate
  <2>1. CASE ClosesNow(p)
    BY <1>4, <1>5, <2>1
  <2>2. CASE ~ClosesNow(p)
    <3>1. mgr'[p] = mgr[p]
      BY <2>2 DEF Flush
    <3> QED BY <3>1 DEF AInv, NeverLate
  <2> QED BY <2>1, <2>2
<1>7. \A p \in Partitions, w \in Windows : Reached(p, w)' => Reached(p, w)
  BY <1>1, <1>2, FlushedWindows DEF Reached
<1> QED BY <1>1, <1>6, <1>7 DEF AInv, MemoryNotAhead

LEMMA CommitAInv ==
    ASSUME AInv, Commit
    PROVE  NeverLate' /\ MemoryNotAhead'
<1>1. UNCHANGED <<arrival, mgr>>
  BY DEF Commit
<1>2. \A p \in Partitions, w \in Windows : pending'[p][w] \in {-1, pending[p][w]}
  BY ReleasedFacts DEF Commit, AInv, BInv, TInv, TypeOK
<1>3. \A p \in Partitions, w \in Windows : Reached(p, w)' => Reached(p, w)
  BY <1>1, <1>2 DEF Reached
<1> QED BY <1>1, <1>3 DEF AInv, NeverLate, MemoryNotAhead

LEMMA NextAInv ==
    ASSUME TimeSource = "arrival"
    PROVE  AInv /\ [Next]_vars => AInv'
<1> SUFFICES ASSUME AInv, [Next]_vars PROVE AInv'
  OBVIOUS
<1>1. BInv'
  BY ArrivalInOrder, NextBInv DEF AInv
<1>2. CASE \/ UNCHANGED vars \/ Tick \/ (\E p \in Partitions : Produce(p))
           \/ FlushNothing \/ Write
  <2>1. UNCHANGED <<arrival, mgr, pending>>
    BY <1>2 DEF vars, memory, Tick, Produce, FlushNothing, Write
  <2> QED BY <1>1, <2>1 DEF AInv, NeverLate, MemoryNotAhead, Reached
<1>3. CASE Start \/ WriteFails \/ CommitFails \/ Crash \/ Shutdown
  <2>1. \A p \in Partitions : mgr'[p] = NewManager /\ pending'[p] = Tracker!NoPending
    BY <1>3 DEF Start, WriteFails, CommitFails, Crash, Shutdown, Die,
                AInv, BInv, TInv, DownIsEmpty
  <2>2. NeverLate'
    BY <2>1 DEF NeverLate, NewManager
  <2>3. \A p \in Partitions, w \in Windows : ~Reached(p, w)'
    BY <2>1, EmptyManager DEF Reached, Tracker!NoPending
  <2> QED BY <1>1, <2>2, <2>3 DEF AInv, MemoryNotAhead
<1>4. CASE \E p \in Partitions : AddMessage(p)
  BY <1>1, <1>4, AddAInv DEF AInv
<1> QED BY <1>1, <1>2, <1>3, <1>4, PollAInv, FlushAInv, CommitAInv DEF Next, AInv

LEMMA AInvInvariant ==
    ASSUME TimeSource = "arrival"
    PROVE  Spec => []AInv
BY InitAInv, NextAInv, PTL DEF Spec

(* In arrival mode an offset is never committed while its message is only  *)
(* in memory, for any number of partitions, messages and crashes.          *)
THEOREM OffsetsWithheld ==
    ASSUME TimeSource = "arrival"
    PROVE  Spec => []WithheldUntilWritten
<1>1. AInv => WithheldUntilWritten
  BY BInvWithheld DEF AInv
<1> QED BY <1>1, AInvInvariant, PTL

(* In arrival mode no message is ever late.                                *)
THEOREM ArrivalNeverLate ==
    ASSUME TimeSource = "arrival"
    PROVE  Spec => []NeverLate
<1>1. AInv => NeverLate
  BY DEF AInv
<1> QED BY <1>1, AInvInvariant, PTL

-----------------------------------------------------------------------------
(* Arrival mode: slices are final                                          *)
(*                                                                         *)
(* A window is written when the clock has passed it, and every process     *)
(* starts counting in the window of its own clock: what is in Redis lies   *)
(* behind every manager, whatever is replayed.                             *)

ShownBehind ==
    \A p \in Partitions, w \in Windows :
        store.slices[w][p] # None =>
            /\ w < Win(now)
            /\ pc # "down" => /\ w < Win(arrival)
                              /\ mgr[p].emitted # None => w <= mgr[p].emitted

ClosingIsNew ==
    pc = "write" =>
        \A p \in Partitions, w \in Windows :
            w \in closing[p].windows =>
                /\ w < Win(arrival)
                /\ mgr[p].emitted # None /\ w <= mgr[p].emitted
                /\ store.slices[w][p] = None

FInv == TInv /\ ShownBehind /\ ClosingIsNew

(* The script changes a partition's field for a window only to the slice   *)
(* being written, or removes it.                                           *)
LEMMA WrittenSlices ==
    ASSUME NEW w \in Windows, NEW p \in Partitions
    PROVE  \/ Redis!Write(store, Entries).slices[w][p] = None
           \/ Redis!Write(store, Entries).slices[w][p] = store.slices[w][p]
           \/ /\ w \in closing[p].windows
              /\ Redis!Write(store, Entries).slices[w][p] = closing[p].slices[w]
<1> DEFINE up == Redis!Upsert(store, Entries)
<1>1. Redis!NoHash[p] = None
  BY DEF Redis!NoHash
<1>2. up.slices[w][p] = IF Redis!Entry(Entries, w, p) # {}
                        THEN (CHOOSE e \in Redis!Entry(Entries, w, p) : TRUE)[3]
                        ELSE store.slices[w][p]
  BY DEF Redis!Upsert
<1> HIDE DEF up
<1>3. \/ up.slices[w][p] = store.slices[w][p]
      \/ w \in closing[p].windows /\ up.slices[w][p] = closing[p].slices[w]
  <2>1. CASE Redis!Entry(Entries, w, p) = {}
    BY <1>2, <2>1
  <2>2. CASE Redis!Entry(Entries, w, p) # {}
    <3> DEFINE e == CHOOSE e \in Redis!Entry(Entries, w, p) : TRUE
    <3>1. e \in Entries /\ e[1] = p /\ e[2] = w
      BY <2>2 DEF Redis!Entry
    <3>2. w \in closing[p].windows /\ e[3] = closing[p].slices[w]
      <4> HIDE DEF e
      <4>1. PICK q \in Partitions : \E v \in closing[q].windows : e = <<q, v, closing[q].slices[v]>>
        BY <3>1 DEF Entries
      <4>2. PICK v \in closing[q].windows : e = <<q, v, closing[q].slices[v]>>
        BY <4>1
      <4> QED BY <3>1, <4>2
    <3> QED BY <1>2, <2>2, <3>2
  <2> QED BY <2>1, <2>2
<1>4. Redis!Write(store, Entries).slices[w]
        = IF w \in Redis!Stale(up.index) THEN Redis!NoHash ELSE up.slices[w]
  BY DEF Redis!Write, Redis!Trim, up
<1>5. \/ Redis!Write(store, Entries).slices[w][p] = None
      \/ Redis!Write(store, Entries).slices[w][p] = up.slices[w][p]
  BY <1>1, <1>4
<1> QED BY <1>3, <1>5

(* Times and windows in arrival mode. *)
LEMMA TimeFacts ==
    ASSUME TypeOK
    PROVE  /\ now \in Nat /\ now <= MaxTime /\ arrival \in Nat /\ arrival <= now
           /\ Win(now) \in Int /\ Win(arrival) \in Int /\ Win(arrival) <= Win(now)
<1>1. now \in Nat /\ now <= MaxTime /\ arrival \in Nat /\ arrival <= now
  BY MaxNowAssumption, MaxTimeAssumption DEF TypeOK
<1> QED BY <1>1, WinFacts

LEMMA InitFInv == Init => FInv
<1> SUFFICES ASSUME Init PROVE FInv
  OBVIOUS
<1>1. \A p \in Partitions, w \in Windows : store.slices[w][p] = None
  BY DEF Init, Redis!EmptyStore, Redis!NoHash
<1>2. pc = "down"
  BY DEF Init
<1> QED BY <1>1, <1>2, InitTInv DEF FInv, ShownBehind, ClosingIsNew

LEMMA AddFInv ==
    ASSUME TimeSource = "arrival", FInv, NEW p \in Partitions, AddMessage(p)
    PROVE  FInv'
<1>1. /\ TInv' /\ TypeOK
      /\ pc = "add" /\ pc' = "add" /\ UNCHANGED <<now, store, arrival>>
      /\ mgr' = [mgr EXCEPT ![p] = Add(@, pos[p], arrival)]
  BY AddTInv DEF FInv, TInv, AddMessage, Timestamp
<1>2. \A q \in Partitions : q # p => mgr'[q] = mgr[q]
  BY <1>1 DEF TypeOK
<1>3. mgr'[p].emitted \in {mgr[p].emitted, Origin(mgr[p], arrival)}
  <2>1. mgr'[p] = Add(mgr[p], pos[p], arrival) /\ mgr[p] \in Managers
    BY <1>1 DEF TypeOK
  <2> QED BY <2>1 DEF Add, Managers
<1>4. ASSUME NEW w \in Windows, store.slices[w][p] # None, mgr'[p].emitted # None
      PROVE  w <= mgr'[p].emitted
  <2>1. w < Win(arrival) /\ (mgr[p].emitted # None => w <= mgr[p].emitted)
    BY <1>1, <1>4 DEF FInv, ShownBehind
  <2>2. Win(arrival) \in Int /\ w \in Int
    BY <1>1, TimeFacts, WindowsAreNat
  <2> QED BY <1>3, <1>4, <2>1, <2>2 DEF Origin
<1>5. ShownBehind'
  <2> SUFFICES ASSUME NEW q \in Partitions, NEW w \in Windows, store.slices[w][q] # None
               PROVE  /\ w < Win(now) /\ w < Win(arrival)
                      /\ mgr'[q].emitted # None => w <= mgr'[q].emitted
    BY <1>1 DEF ShownBehind
  <2> QED BY <1>1, <1>2, <1>4 DEF FInv, ShownBehind
<1>6. ClosingIsNew'
  BY <1>1 DEF ClosingIsNew
<1> QED BY <1>1, <1>5, <1>6 DEF FInv

LEMMA FlushFInv ==
    ASSUME TimeSource = "arrival", FInv, Flush
    PROVE  FInv'
<1>1. /\ TInv' /\ TypeOK
      /\ pc = "add" /\ pc' = "write" /\ UNCHANGED <<now, store, arrival>>
  BY FlushTInv DEF FInv, TInv, Flush
<1>2. Win(arrival) \in Int /\ arrival \in Int
  BY <1>1, TimeFacts
<1>3. NewestClosed(arrival) < Win(arrival) /\ NewestClosed(arrival) \in Int
  BY <1>2, WinFacts, GraceAssumption DEF NewestClosed
<1>4. ASSUME NEW p \in Partitions, ClosesNow(p)
      PROVE  /\ mgr'[p].emitted = NewestClosed(arrival)
             /\ mgr[p].emitted \in Int /\ mgr[p].emitted < NewestClosed(arrival)
             /\ \A w \in closing'[p].windows :
                   w \in Int /\ mgr[p].emitted < w /\ w <= NewestClosed(arrival)
  <2>1. /\ mgr[p] \in Managers /\ Clock(p) = arrival /\ Closes(mgr[p], arrival)
    BY <1>4, ClockType, <1>1 DEF Clock
  <2>2. /\ mgr'[p] = PopClosed(mgr[p], arrival)
        /\ closing'[p].windows = Popped(mgr[p], arrival)
    BY <1>4, <2>1 DEF Flush
  <2>3. mgr'[p].emitted = NewestClosed(arrival)
    BY <2>1, <2>2 DEF PopClosed, Managers
  <2>4. /\ mgr[p].emitted \in Int /\ Resume(mgr[p], arrival) \in Int
        /\ mgr[p].emitted <= Resume(mgr[p], arrival)
        /\ Resume(mgr[p], arrival) < NewestClosed(arrival)
    BY <1>2, <2>1, ResumeBounds
  <2> QED BY <1>3, <2>2, <2>3, <2>4 DEF Popped
<1>5. ASSUME NEW p \in Partitions, ~ClosesNow(p)
      PROVE  mgr'[p] = mgr[p] /\ closing'[p].windows = {}
  BY <1>5 DEF Flush, NoClosing
<1>6. ShownBehind'
  <2> SUFFICES ASSUME NEW p \in Partitions, NEW w \in Windows, store.slices[w][p] # None
               PROVE  /\ w < Win(now) /\ w < Win(arrival)
                      /\ mgr'[p].emitted # None => w <= mgr'[p].emitted
    BY <1>1 DEF ShownBehind
  <2>1. /\ w < Win(now) /\ w < Win(arrival)
        /\ mgr[p].emitted # None => w <= mgr[p].emitted
    BY <1>1 DEF FInv, ShownBehind
  <2>2. CASE ClosesNow(p)
    <3>1. mgr[p].emitted # None /\ w \in Int
      BY <1>4, <2>2, NoneAssumption, WindowsAreNat
    <3> QED BY <1>3, <1>4, <2>1, <2>2, <3>1
  <2>3. CASE ~ClosesNow(p)
    BY <1>5, <2>1, <2>3
  <2> QED BY <2>2, <2>3
<1>7. ClosingIsNew'
  <2> SUFFICES ASSUME NEW p \in Partitions, NEW w \in Windows, w \in closing'[p].windows
               PROVE  /\ w < Win(arrival)
                      /\ mgr'[p].emitted # None /\ w <= mgr'[p].emitted
                      /\ store.slices[w][p] = None
    BY <1>1 DEF ClosingIsNew
  <2>1. ClosesNow(p)
    BY <1>5
  <2>2. /\ mgr'[p].emitted = NewestClosed(arrival)
        /\ mgr[p].emitted \in Int /\ w \in Int
        /\ mgr[p].emitted < w /\ w <= NewestClosed(arrival)
    BY <1>4, <2>1
  <2>3. store.slices[w][p] # None => w <= mgr[p].emitted
    BY <1>1, <2>2, NoneAssumption DEF FInv, ShownBehind
  <2> QED BY <1>2, <1>3, <2>2, <2>3, NoneAssumption
<1> QED BY <1>1, <1>6, <1>7 DEF FInv

(* Writing makes what was being closed visible, and nothing else.          *)
LEMMA ReachesFInv ==
    ASSUME FInv, pc = "write", SliceReachesRedis \/ UNCHANGED <<store, written>>,
           NEW p \in Partitions, NEW w \in Windows, store'.slices[w][p] # None
    PROVE  /\ w < Win(now) /\ w < Win(arrival)
           /\ mgr[p].emitted # None => w <= mgr[p].emitted
<1>1. store.slices[w][p] # None \/ w \in closing[p].windows
  BY WrittenSlices DEF SliceReachesRedis
<1>2. Win(arrival) \in Int /\ Win(now) \in Int /\ Win(arrival) <= Win(now) /\ w \in Int
  BY TimeFacts, WindowsAreNat DEF FInv, TInv
<1> QED BY <1>1, <1>2 DEF FInv, ShownBehind, ClosingIsNew

LEMMA WriteFInv == FInv /\ Write => FInv'
<1> SUFFICES ASSUME FInv, Write PROVE FInv'
  OBVIOUS
<1>1. TInv' /\ pc' = "commit" /\ pc = "write" /\ SliceReachesRedis
      /\ UNCHANGED <<now, arrival, mgr>>
  BY WriteTInv DEF FInv, Write, memory
<1>2. ShownBehind'
  BY <1>1, ReachesFInv DEF ShownBehind
<1> QED BY <1>1, <1>2 DEF FInv, ClosingIsNew

LEMMA EndFInv == FInv /\ (WriteFails \/ CommitFails \/ Crash \/ Shutdown) => FInv'
<1> SUFFICES ASSUME FInv, WriteFails \/ CommitFails \/ Crash \/ Shutdown PROVE FInv'
  OBVIOUS
<1>1. TInv' /\ pc' = "down" /\ now' = now
  BY EndTInv DEF FInv, WriteFails, CommitFails, Crash, Shutdown, Die
<1>2. \/ store' = store
      \/ pc = "write" /\ (SliceReachesRedis \/ UNCHANGED <<store, written>>)
  BY DEF WriteFails, CommitFails, Crash, Shutdown
<1>3. ShownBehind'
  BY <1>1, <1>2, ReachesFInv DEF FInv, ShownBehind
<1> QED BY <1>1, <1>3 DEF FInv, ClosingIsNew

LEMMA OtherFInv ==
    FInv /\ (Tick \/ (\E p \in Partitions : Produce(p)) \/ Start \/ Poll \/ FlushNothing
             \/ Commit) => FInv'
<1> SUFFICES ASSUME FInv, Tick \/ (\E p \in Partitions : Produce(p)) \/ Start \/ Poll
                          \/ FlushNothing \/ Commit
             PROVE  FInv'
  OBVIOUS
<1>1. TInv' /\ TypeOK /\ store' = store
  <2>1. TInv'
    BY TickTInv, ProduceTInv, StartTInv, PollTInv, FlushNothingTInv, CommitTInv DEF FInv
  <2> QED BY <2>1 DEF FInv, TInv, Tick, Produce, Start, Poll, FlushNothing, Commit
<1>2. /\ Win(now) \in Int /\ Win(now)' \in Int /\ Win(now) <= Win(now)'
      /\ now' = now \/ UNCHANGED <<pc, arrival, mgr, closing>>
  <2>1. now' = now \/ (now' = now + 1 /\ UNCHANGED <<pc, arrival, mgr, closing>>)
    BY DEF Tick, Produce, Start, Poll, FlushNothing, Commit, memory
  <2>2. now \in Int /\ now' \in Int /\ now <= now'
    BY <1>1, <2>1, TimeFacts
  <2>3. Win(now) \in Int /\ Win(now') \in Int /\ Win(now) <= Win(now')
    BY <2>2, WinFacts
  <2> QED BY <2>1, <2>3
<1>3. CASE Tick \/ (\E p \in Partitions : Produce(p))
  <2>1. UNCHANGED <<pc, arrival, mgr, closing>>
    BY <1>3 DEF Tick, Produce, memory
  <2>2. ShownBehind'
    <3> SUFFICES ASSUME NEW p \in Partitions, NEW w \in Windows, store.slices[w][p] # None
                 PROVE  /\ w < Win(now)'
                        /\ pc # "down" => /\ w < Win(arrival)
                                          /\ mgr[p].emitted # None => w <= mgr[p].emitted
      BY <1>1, <2>1 DEF ShownBehind
    <3> QED BY <1>2, WindowsAreNat DEF FInv, ShownBehind
  <2>3. ClosingIsNew'
    BY <1>1, <2>1 DEF FInv, ClosingIsNew
  <2> QED BY <1>1, <2>2, <2>3 DEF FInv
<1>4. CASE Start
  <2>1. pc = "down" /\ pc' = "poll" /\ now' = now /\ arrival' = now /\ mgr' = mgr
    BY <1>4 DEF Start
  <2>2. \A p \in Partitions : mgr[p].emitted = None
    BY <2>1 DEF FInv, TInv, DownIsEmpty, NewManager
  <2> QED BY <1>1, <2>1, <2>2 DEF FInv, ShownBehind, ClosingIsNew
<1>5. CASE Poll
  BY <1>1, <1>5 DEF Poll, FInv, ShownBehind, ClosingIsNew
<1>6. CASE FlushNothing \/ Commit
  <2>1. pc # "down" /\ pc' = "poll" /\ UNCHANGED <<now, arrival, mgr>>
    BY <1>6 DEF FlushNothing, Commit, memory
  <2> QED BY <1>1, <2>1 DEF FInv, ShownBehind, ClosingIsNew
<1> QED BY <1>3, <1>4, <1>5, <1>6

LEMMA NextFInv ==
    ASSUME TimeSource = "arrival"
    PROVE  FInv /\ [Next]_vars => FInv'
<1> SUFFICES ASSUME FInv, [Next]_vars PROVE FInv'
  OBVIOUS
<1>1. CASE UNCHANGED vars
  <2>1. TInv'
    BY <1>1, NextTInv DEF FInv
  <2> QED BY <1>1, <2>1 DEF vars, memory, FInv, ShownBehind, ClosingIsNew
<1>2. CASE \E p \in Partitions : AddMessage(p)
  BY <1>2, AddFInv
<1> QED BY <1>1, <1>2, FlushFInv, WriteFInv, EndFInv, OtherFInv DEF Next

LEMMA FInvFinal ==
    FInv /\ [Next]_vars =>
        \A w \in Windows, p \in Partitions :
            store.slices[w][p] # None => store'.slices[w][p] \in {store.slices[w][p], None}
<1> SUFFICES ASSUME FInv, [Next]_vars, NEW w \in Windows, NEW p \in Partitions,
                    store.slices[w][p] # None
             PROVE  store'.slices[w][p] \in {store.slices[w][p], None}
  OBVIOUS
<1>1. store' = store \/ (pc = "write" /\ SliceReachesRedis)
  BY DEF Next, vars, Tick, Produce, Start, Poll, AddMessage, FlushNothing, Flush, Write,
         WriteFails, Commit, CommitFails, Crash, Shutdown
<1>2. CASE pc = "write" /\ SliceReachesRedis
  <2>1. w \notin closing[p].windows
    BY <1>2 DEF FInv, ClosingIsNew
  <2> QED BY <1>2, <2>1, WrittenSlices DEF SliceReachesRedis
<1> QED BY <1>1, <1>2

(* In arrival mode a slice in Redis never changes, whatever is replayed.   *)
THEOREM ArrivalSlicesAreFinal ==
    ASSUME TimeSource = "arrival"
    PROVE  Spec => SlicesAreFinal
<1>1. Spec => []FInv
  BY InitFInv, NextFInv, PTL DEF Spec
<1>2. FInv /\ [Next]_vars =>
        [\A w \in Windows, p \in Partitions :
            store.slices[w][p] # None =>
                store'.slices[w][p] \in {store.slices[w][p], None}]_vars
  BY FInvFinal
<1> QED BY <1>1, <1>2, PTL DEF Spec, SlicesAreFinal

-----------------------------------------------------------------------------
(* Nothing is skipped                                                      *)
(*                                                                         *)
(* For a group that has a committed offset, the aggregator skips nothing   *)
(* it has read.                                                            *)

SettledOffsets(p) == written[p] \cup dropped[p]

(* Everything the position has passed is accounted for, and so is          *)
(* everything that is committed: the second is what the first becomes when *)
(* a process starts again from the committed offset.                       *)
Accounted ==
    pc # "down" =>
        \A p \in Partitions, o \in Messages :
            o < pos[p] => o \in Unwritten(p) \cup SettledOffsets(p)

CommittedSettled ==
    \A p \in Partitions :
        /\ committed[p] # None
        /\ \A o \in Messages : o < committed[p] => o \in SettledOffsets(p)

(* Later windows hold higher offsets, so a commit leaves only offsets      *)
(* above it in the tracker, and the next commit is a greater one.          *)
PendingOrdered ==
    \A p \in Partitions, w \in Windows, u \in Windows :
        w < u /\ pending[p][u] # -1 => pending[p][w] < pending[p][u]

PendingAboveCommitted ==
    \A p \in Partitions, w \in Windows :
        pending[p][w] # -1 /\ committed[p] # None => committed[p] <= pending[p][w]

(* Offsets are recorded only for a manager that has had its first event.   *)
PendingStarted ==
    \A p \in Partitions, w \in Windows : pending[p][w] # -1 => mgr[p].emitted # None

SInv == /\ BInv
        /\ Accounted
        /\ CommittedSettled
        /\ PendingOrdered
        /\ PendingAboveCommitted
        /\ PendingStarted

-----------------------------------------------------------------------------
(* The invariant is inductive                                              *)

LEMMA UnwrittenFacts ==
    ASSUME NEW p \in Partitions, NEW o \in Messages
    PROVE  o \in Unwritten(p) <=>
              \/ \E w \in Windows : mgr[p].windows[w][o] > 0
              \/ pc = "write" /\ \E w \in Windows : closing[p].slices[w][o] > 0
BY DEF Unwritten, Counted

LEMMA InitSInv == InitialCommit = 0 /\ Init => SInv
<1> SUFFICES ASSUME InitialCommit = 0, Init PROVE SInv
  OBVIOUS
<1>1. CommittedSettled
  BY MessagesAssumption, NoneAssumption DEF Init, CommittedSettled
<1>2. Accounted /\ PendingOrdered /\ PendingAboveCommitted /\ PendingStarted
  BY DEF Init, Accounted, PendingOrdered, PendingAboveCommitted, PendingStarted,
         Tracker!NoPending
<1> QED BY <1>1, <1>2, InitBInv DEF SInv

(* Steps that leave the offsets and what is settled alone.                 *)
LEMMA QuietSInv ==
    ASSUME SInv, BInv',
           UNCHANGED <<committed, pos, mgr, pending, closing, written, dropped>>,
           pc' = pc \/ (pc # "down" /\ pc # "write")
    PROVE  SInv'
<1>1. ASSUME NEW p \in Partitions, NEW o \in Messages, pc' # "down", o < pos[p]
      PROVE  o \in (Unwritten(p) \cup SettledOffsets(p))'
  <2>1. o \in Unwritten(p) \cup SettledOffsets(p)
    BY <1>1 DEF SInv, Accounted
  <2> QED BY <2>1 DEF Unwritten, SettledOffsets
<1>2. Accounted'
  BY <1>1 DEF Accounted
<1>3. (CommittedSettled /\ PendingOrdered /\ PendingAboveCommitted /\ PendingStarted)'
  BY DEF SInv, CommittedSettled, PendingOrdered, PendingAboveCommitted, PendingStarted,
         SettledOffsets
<1> QED BY <1>2, <1>3 DEF SInv

LEMMA StartSInv == SInv /\ Start => SInv'
<1> SUFFICES ASSUME SInv, Start PROVE SInv'
  OBVIOUS
<1>1. /\ UNCHANGED <<committed, mgr, pending, closing, written, dropped>>
      /\ \A p \in Partitions : pos'[p] = StartPosition(p)
  BY DEF Start, history
<1>2. BInv'
  BY StartBInv DEF SInv
<1>3. Accounted'
  <2> SUFFICES ASSUME NEW p \in Partitions, NEW o \in Messages, o < pos'[p]
               PROVE  o \in written[p] \cup dropped[p]
    BY <1>1 DEF Accounted, SettledOffsets
  <2>1. pos'[p] = committed[p]
    BY <1>1 DEF SInv, CommittedSettled, StartPosition
  <2> QED BY <2>1 DEF SInv, CommittedSettled, SettledOffsets
<1>4. (CommittedSettled /\ PendingOrdered /\ PendingAboveCommitted /\ PendingStarted)'
  BY <1>1 DEF SInv, CommittedSettled, PendingOrdered, PendingAboveCommitted,
     PendingStarted, SettledOffsets
<1> QED BY <1>2, <1>3, <1>4 DEF SInv

LEMMA AddSInv ==
    ASSUME SInv, NEW p \in Partitions, AddMessage(p), AddsInOrder(p)
    PROVE  SInv'
<1> DEFINE m == pos[p]
           ts == Timestamp(log[p][pos[p] + 1])
           v == Win(ts)
<1>1. pc = "add" /\ UNCHANGED <<committed, pc, closing, written>>
  BY DEF AddMessage
<1>2. BInv' /\ BInv /\ TInv /\ TypeOK
  BY AddBInv DEF SInv, BInv, TInv
<1>3. /\ m \in Messages /\ m \in Nat /\ v \in Windows /\ v \in Nat
      /\ pos'[p] = m + 1
      /\ mgr'[p].windows = [mgr[p].windows EXCEPT ![v][m] = @ + 1]
      /\ mgr'[p].emitted \in Int
      /\ pending'[p] = [pending[p] EXCEPT ![v] = m]
      /\ dropped' = dropped
      /\ \A q \in Partitions : q # p =>
            mgr'[q] = mgr[q] /\ pending'[q] = pending[q] /\ pos'[q] = pos[q]
  BY <1>2, AddedInOrder
<1>4. mgr[p] \in Managers /\ pending[p] \in Tracker!Pending
  BY <1>2 DEF TypeOK
<1>5. \A w \in Windows : Reached(p, w) => w <= v
  BY DEF AddsInOrder
<1> HIDE DEF ts, v
<1>6. /\ \A u \in Windows : u # v => pending'[p][u] = pending[p][u]
      /\ pending'[p][v] = m
      /\ \A u \in Windows : pending[p][u] \in Int /\ pending[p][u] < m
  <2>1. \A u \in Windows : pending[p][u] \in Int /\ pending[p][u] < m
    BY <1>2, <1>4 DEF TInv, PendingBelowPosition, Tracker!Pending
  <2>2. DOMAIN pending[p] = Windows
    BY <1>4 DEF Tracker!Pending
  <2> HIDE DEF m
  <2> QED BY <1>3, <2>1, <2>2
<1>7. Accounted'
  <2> SUFFICES ASSUME NEW q \in Partitions, NEW o \in Messages, o < pos'[q]
               PROVE  o \in (Unwritten(q) \cup SettledOffsets(q))'
    BY DEF Accounted
  <2>1. CASE q = p /\ o = m
    <3>1. mgr[p].windows[v][m] \in Nat
      BY <1>3, <1>4 DEF Managers, Bags
    <3>2. mgr'[p].windows[v][m] > 0
      BY <1>3, <1>4, <3>1 DEF Managers, Bags
    <3> QED BY <1>3, <2>1, <3>2 DEF Unwritten, Counted
  <2>2. CASE ~(q = p /\ o = m)
    <3>1. o < pos[q]
      BY <1>3, <2>2, MessagesAssumption
    <3>2. o \in Unwritten(q) \cup SettledOffsets(q)
      BY <1>1, <3>1 DEF SInv, Accounted
    <3>3. CASE o \in SettledOffsets(q)
      BY <1>1, <1>3, <3>3 DEF SettledOffsets
    <3>4. CASE o \in Unwritten(q)
      <4>1. PICK w \in Windows : mgr[q].windows[w][o] > 0
        BY <1>1, <3>4 DEF Unwritten, Counted
      <4>2. mgr'[q].windows[w][o] > 0
        <5>1. CASE q # p
          BY <1>3, <4>1, <5>1
        <5>2. CASE q = p
          <6>1. o # m
            BY <2>2, <5>2
          <6>2. mgr'[p].windows[w][o] = mgr[p].windows[w][o]
            BY <1>3, <1>4, <6>1 DEF Managers, Bags
          <6> QED BY <4>1, <5>2, <6>2
        <5> QED BY <5>1, <5>2
      <4> QED BY <4>2 DEF Unwritten, Counted
    <3> QED BY <3>2, <3>3, <3>4
  <2> QED BY <2>1, <2>2
<1>8. CommittedSettled'
  BY <1>1, <1>3 DEF SInv, CommittedSettled, SettledOffsets
<1>9. PendingOrdered'
  <2> SUFFICES ASSUME NEW q \in Partitions, NEW w \in Windows, NEW u \in Windows,
                      w < u, pending'[q][u] # -1
               PROVE  pending'[q][w] < pending'[q][u]
    BY DEF PendingOrdered
  <2>1. CASE q # p
    BY <1>3, <2>1 DEF SInv, PendingOrdered
  <2>2. CASE q = p /\ u = v
    <3>1. w # v
      BY <1>3, <2>2, WindowsAreNat
    <3> QED BY <1>6, <2>2, <3>1
  <2>3. CASE q = p /\ u # v
    <3>1. pending[p][u] # -1
      BY <1>6, <2>3
    <3>2. u <= v
      BY <1>5, <3>1 DEF Reached
    <3>3. w # v
      BY <1>3, <3>2, WindowsAreNat
    <3> QED BY <1>6, <2>3, <3>1, <3>3 DEF SInv, PendingOrdered
  <2> QED BY <2>1, <2>2, <2>3
<1>10. PendingAboveCommitted'
  <2> SUFFICES ASSUME NEW q \in Partitions, NEW w \in Windows,
                      pending'[q][w] # -1, committed[q] # None
               PROVE  committed[q] <= pending'[q][w]
    BY <1>1 DEF PendingAboveCommitted
  <2>1. CASE q # p \/ w # v
    <3>1. pending'[q][w] = pending[q][w]
      BY <1>3, <1>6, <2>1
    <3> QED BY <3>1 DEF SInv, PendingAboveCommitted
  <2>2. CASE q = p /\ w = v
    BY <1>1, <1>2, <1>6, <2>2 DEF BInv, CommittedNotAhead
  <2> QED BY <2>1, <2>2
<1>11. PendingStarted'
  BY <1>3, NoneAssumption DEF SInv, PendingStarted
<1> QED BY <1>2, <1>7, <1>8, <1>9, <1>10, <1>11 DEF SInv

LEMMA FlushSInv ==
    ASSUME SInv, Flush
    PROVE  SInv'
<1>1. /\ pc = "add" /\ pc' = "write"
      /\ UNCHANGED <<committed, pos, pending, written>>
  BY DEF Flush
<1>2. BInv' /\ TypeOK
  BY FlushBInv DEF SInv, BInv, TInv
<1>3. \A p \in Partitions : dropped[p] \subseteq dropped'[p]
  BY DEF Flush
<1>4. Accounted'
  <2> SUFFICES ASSUME NEW p \in Partitions, NEW o \in Messages, o < pos[p]
               PROVE  o \in (Unwritten(p) \cup SettledOffsets(p))'
    BY <1>1 DEF Accounted
  <2>1. o \in Unwritten(p) \cup SettledOffsets(p)
    BY <1>1 DEF SInv, Accounted
  <2>2. CASE o \in SettledOffsets(p)
    BY <1>1, <1>3, <2>2 DEF SettledOffsets
  <2>3. CASE o \in Unwritten(p)
    <3>1. PICK w \in Windows : mgr[p].windows[w][o] > 0
      BY <1>1, <2>3 DEF Unwritten, Counted
    <3>2. CASE ~ClosesNow(p)
      <4>1. mgr'[p] = mgr[p]
        BY <3>2 DEF Flush
      <4> QED BY <3>1, <4>1 DEF Unwritten, Counted
    <3>3. CASE ClosesNow(p)
      <4> DEFINE c == Clock(p)
      <4>1. mgr[p] \in Managers /\ c \in Int /\ Closes(mgr[p], c)
        BY <1>2, <3>3, ClockType
      <4>2. NewestClosed(c) \in Int /\ Resume(mgr[p], c) \in Int /\ w \in Int
        BY <4>1, ResumeBounds, WindowsAreNat
      <4>3. /\ mgr'[p] = PopClosed(mgr[p], c)
            /\ closing'[p].slices = Summaries(mgr[p], c)
            /\ dropped'[p] = dropped[p] \cup Counted(Dropped(mgr[p], c))
        BY <3>3 DEF Flush
      <4>4. CASE w > NewestClosed(c)
        <5>1. mgr'[p].windows[w] = mgr[p].windows[w]
          BY <4>1, <4>2, <4>3, <4>4 DEF PopClosed, Managers
        <5> QED BY <3>1, <5>1 DEF Unwritten, Counted
      <4>5. CASE w \in Popped(mgr[p], c)
        <5>1. closing'[p].slices[w] = mgr[p].windows[w]
          BY <4>3, <4>5 DEF Summaries
        <5> QED BY <1>1, <3>1, <5>1 DEF Unwritten, Counted
      <4>6. CASE w <= Resume(mgr[p], c)
        <5>1. Dropped(mgr[p], c)[w] = mgr[p].windows[w]
          BY <4>6 DEF Dropped
        <5> QED BY <3>1, <4>3, <5>1 DEF SettledOffsets, Counted
      <4> QED BY <4>2, <4>4, <4>5, <4>6 DEF Popped
    <3> QED BY <3>2, <3>3
  <2> QED BY <2>1, <2>2, <2>3
<1>5. CommittedSettled'
  BY <1>1, <1>3 DEF SInv, CommittedSettled, SettledOffsets
<1>6. PendingOrdered' /\ PendingAboveCommitted'
  BY <1>1 DEF SInv, PendingOrdered, PendingAboveCommitted
<1>7. PendingStarted'
  <2> SUFFICES ASSUME NEW p \in Partitions, mgr[p].emitted # None
               PROVE  mgr'[p].emitted # None
    BY <1>1 DEF SInv, PendingStarted
  <2>1. CASE ~ClosesNow(p)
    BY <2>1 DEF Flush
  <2>2. CASE ClosesNow(p)
    <3>1. mgr'[p] = PopClosed(mgr[p], Clock(p)) /\ mgr[p] \in Managers
      BY <1>2, <2>2, ClockType DEF Flush
    <3>2. NewestClosed(Clock(p)) \in Int
      BY <1>2, <2>2, ClockType, ResumeBounds
    <3> QED BY <3>1, <3>2, NoneAssumption DEF PopClosed, Managers
  <2> QED BY <2>1, <2>2
<1> QED BY <1>2, <1>4, <1>5, <1>6, <1>7 DEF SInv

LEMMA WriteSInv == SInv /\ Write => SInv'
<1> SUFFICES ASSUME SInv, Write PROVE SInv'
  OBVIOUS
<1>1. /\ pc = "write" /\ pc' = "commit"
      /\ UNCHANGED <<committed, pos, mgr, pending, dropped>>
      /\ \A p \in Partitions : written'[p] = written[p] \cup Counted(closing[p].slices)
  BY DEF Write, SliceReachesRedis, memory
<1>2. BInv'
  BY OtherBInv DEF SInv
<1>3. Accounted'
  <2> SUFFICES ASSUME NEW p \in Partitions, NEW o \in Messages, o < pos[p]
               PROVE  o \in (Unwritten(p) \cup SettledOffsets(p))'
    BY <1>1 DEF Accounted
  <2>1. o \in Unwritten(p) \cup SettledOffsets(p)
    BY <1>1 DEF SInv, Accounted
  <2> QED BY <1>1, <2>1 DEF Unwritten, SettledOffsets
<1>4. CommittedSettled'
  BY <1>1 DEF SInv, CommittedSettled, SettledOffsets
<1>5. PendingOrdered' /\ PendingAboveCommitted' /\ PendingStarted'
  BY <1>1 DEF SInv, PendingOrdered, PendingAboveCommitted, PendingStarted
<1> QED BY <1>2, <1>3, <1>4, <1>5 DEF SInv

(* What a commit commits is settled: everything below the position is in   *)
(* memory or settled, and what is in memory is above the commit.           *)
LEMMA ReleaseSettled ==
    ASSUME SInv, pc = "commit", NEW p \in Partitions, Release(p) # None,
           NEW o \in Messages, o < Release(p)
    PROVE  o \in SettledOffsets(p)
<1>1. PICK u \in Windows : /\ u <= mgr[p].emitted
                           /\ pending[p][u] \in Nat
                           /\ Release(p) = pending[p][u] + 1
                           /\ pending[p][u] < pos[p]
  BY ReleaseFacts DEF SInv, BInv
<1>2. pos[p] \in Nat /\ o \in Nat /\ mgr[p].emitted \in Int \cup {None}
  BY MessagesAssumption DEF SInv, BInv, TInv, TypeOK, Managers
<1>3. o <= pending[p][u] /\ o < pos[p]
  BY <1>1, <1>2
<1>4. o \in Unwritten(p) \cup SettledOffsets(p)
  BY <1>3 DEF SInv, Accounted
<1>5. ASSUME o \in Unwritten(p) PROVE FALSE
  <2>1. PICK w \in Windows : mgr[p].windows[w][o] > 0
    BY <1>5 DEF Unwritten, Counted
  <2>2. /\ mgr[p].emitted # None /\ mgr[p].emitted < w
        /\ \A x \in Windows : x < w => pending[p][x] < o
    BY <2>1 DEF SInv, BInv, OpenAboveReleasable
  <2>3. u < w
    BY <1>1, <1>2, <2>2, WindowsAreNat
  <2> QED BY <1>1, <1>2, <1>3, <2>2, <2>3
<1> QED BY <1>4, <1>5

LEMMA ReleaseAdvances ==
    ASSUME SInv, NEW p \in Partitions, Release(p) # None
    PROVE  committed[p] < Release(p)
<1>1. PICK u \in Windows : pending[p][u] \in Nat /\ Release(p) = pending[p][u] + 1
  BY ReleaseFacts DEF SInv, BInv
<1>2. committed[p] \in Nat
  BY DEF SInv, BInv, TInv, TypeOK, CommittedSettled
<1>3. pending[p][u] # -1 /\ committed[p] # None
  BY <1>1 DEF SInv, CommittedSettled
<1>4. committed[p] <= pending[p][u]
  BY <1>3 DEF SInv, PendingAboveCommitted
<1> QED BY <1>1, <1>2, <1>4

LEMMA CommitForSettled ==
    ASSUME SInv, pc = "commit", NEW done
    PROVE  \A p \in Partitions :
              /\ CommitFor(done)[p] # None
              /\ \A o \in Messages : o < CommitFor(done)[p] => o \in SettledOffsets(p)
<1> SUFFICES ASSUME NEW p \in Partitions
             PROVE  LET c == IF p \in done /\ Release(p) # None
                             THEN Release(p) ELSE committed[p]
                    IN  c # None /\ \A o \in Messages : o < c => o \in SettledOffsets(p)
  BY DEF CommitFor
<1> QED BY ReleaseSettled DEF SInv, CommittedSettled

LEMMA CommitSInv == SInv /\ Commit => SInv'
<1> SUFFICES ASSUME SInv, Commit PROVE SInv'
  OBVIOUS
<1>1. /\ pc = "commit" /\ pc' = "poll"
      /\ UNCHANGED <<pos, mgr, written, dropped>>
      /\ committed' = CommitFor(Partitions)
  BY DEF Commit, history
<1>2. BInv' /\ TInv /\ TypeOK
  BY CommitBInv DEF SInv, BInv, TInv
<1>3. CommittedSettled'
  BY <1>1, CommitForSettled DEF CommittedSettled, SettledOffsets
<1>4. Accounted'
  <2> SUFFICES ASSUME NEW p \in Partitions, NEW o \in Messages, o < pos[p]
               PROVE  o \in (Unwritten(p) \cup SettledOffsets(p))'
    BY <1>1 DEF Accounted
  <2>1. o \in Unwritten(p) \cup SettledOffsets(p)
    BY <1>1 DEF SInv, Accounted
  <2> QED BY <1>1, <2>1 DEF Unwritten, SettledOffsets
<1>5. \A p \in Partitions, w \in Windows : pending'[p][w] \in {-1, pending[p][w]}
  BY <1>2, ReleasedFacts DEF Commit, TypeOK
<1>6. \A p \in Partitions, w \in Windows : pending[p][w] \in Nat \cup {-1}
  BY <1>2 DEF TypeOK, Tracker!Pending
<1>7. PendingOrdered'
  <2> SUFFICES ASSUME NEW p \in Partitions, NEW w \in Windows, NEW u \in Windows,
                      w < u, pending'[p][u] # -1
               PROVE  pending'[p][w] < pending'[p][u]
    BY DEF PendingOrdered
  <2>1. pending'[p][u] = pending[p][u] /\ pending[p][u] \in Nat
    BY <1>5, <1>6
  <2>2. pending[p][w] < pending[p][u]
    BY <2>1 DEF SInv, PendingOrdered
  <2> QED BY <1>5, <2>1, <2>2
<1>8. PendingAboveCommitted'
  <2> SUFFICES ASSUME NEW p \in Partitions, NEW w \in Windows, pending'[p][w] # -1
               PROVE  committed'[p] <= pending'[p][w]
    BY DEF PendingAboveCommitted
  <2>1. pending'[p][w] = pending[p][w] /\ pending[p][w] \in Nat
    BY <1>5, <1>6
  <2>2. CASE Release(p) = None
    <3>1. committed'[p] = committed[p]
      BY <1>1, <2>2 DEF CommitFor
    <3> QED BY <2>1, <3>1 DEF SInv, PendingAboveCommitted, CommittedSettled
  <2>3. CASE Release(p) # None
    <3>1. PICK u \in Windows : /\ u <= mgr[p].emitted
                               /\ pending[p][u] \in Nat
                               /\ Release(p) = pending[p][u] + 1
      BY <1>2, <2>3, ReleaseFacts
    <3>2. closing[p].windows # {}
      BY <2>3 DEF Release
    <3>3. ~(w <= mgr[p].emitted)
      <4>1. pending'[p] = Tracker!Released(pending[p], mgr[p].emitted)
        BY <3>2 DEF Commit
      <4>2. w \notin Tracker!Done(pending[p], mgr[p].emitted)
        BY <4>1 DEF Tracker!Released
      <4> QED BY <2>1, <4>2 DEF Tracker!Done
    <3>4. mgr[p].emitted # None => u < w
      BY <1>2, <3>1, <3>3, WindowsAreNat DEF TypeOK, Managers
    <3>5. mgr[p].emitted # None
      BY <3>1 DEF SInv, PendingStarted
    <3>6. pending[p][u] < pending[p][w]
      BY <2>1, <3>4, <3>5 DEF SInv, PendingOrdered
    <3> QED BY <1>1, <2>1, <2>3, <3>1, <3>6 DEF CommitFor
  <2> QED BY <2>2, <2>3
<1>9. PendingStarted'
  <2> SUFFICES ASSUME NEW p \in Partitions, NEW w \in Windows, pending'[p][w] # -1
               PROVE  mgr[p].emitted # None
    BY <1>1 DEF PendingStarted
  <2> QED BY <1>5 DEF SInv, PendingStarted
<1> QED BY <1>2, <1>3, <1>4, <1>7, <1>8, <1>9 DEF SInv

LEMMA EndSInv == SInv /\ (WriteFails \/ CommitFails \/ Crash \/ Shutdown) => SInv'
<1> SUFFICES ASSUME SInv, WriteFails \/ CommitFails \/ Crash \/ Shutdown PROVE SInv'
  OBVIOUS
<1>1. BInv'
  BY EndBInv DEF SInv
<1>2. pc' = "down"
  BY DEF WriteFails, CommitFails, Crash, Shutdown, Die
<1>3. DownIsEmpty'
  BY <1>1 DEF BInv, TInv
<1>4. (Accounted /\ PendingOrdered /\ PendingAboveCommitted /\ PendingStarted)'
  BY <1>2, <1>3 DEF Accounted, PendingOrdered, PendingAboveCommitted, PendingStarted,
                    DownIsEmpty, Tracker!NoPending
<1>5. /\ committed' = committed \/ (pc = "commit" /\ \E done : committed' = CommitFor(done))
      /\ dropped' = dropped
      /\ \A p \in Partitions : written[p] \subseteq written'[p]
  BY DEF WriteFails, CommitFails, Crash, Shutdown, SliceReachesRedis, history
<1>6. CommittedSettled'
  <2>1. \A p \in Partitions : SettledOffsets(p) \subseteq SettledOffsets(p)'
    BY <1>5 DEF SettledOffsets
  <2>2. CASE committed' = committed
    BY <2>1, <2>2 DEF SInv, CommittedSettled
  <2>3. CASE pc = "commit" /\ \E done : committed' = CommitFor(done)
    BY <2>1, <2>3, CommitForSettled DEF CommittedSettled
  <2> QED BY <1>5, <2>2, <2>3
<1> QED BY <1>1, <1>4, <1>6 DEF SInv

LEMMA QuietStepSInv ==
    ASSUME SInv,
           \/ Tick \/ Poll \/ FlushNothing \/ UNCHANGED vars
           \/ \E p \in Partitions : Produce(p)
    PROVE  SInv'
<1>1. BInv'
  BY OtherBInv DEF SInv
<1>2. /\ UNCHANGED <<committed, pos, mgr, pending, closing, written, dropped>>
      /\ pc' = pc \/ (pc # "down" /\ pc # "write")
  BY DEF Tick, Produce, Poll, FlushNothing, vars, memory, history
<1> QED BY <1>1, <1>2, QuietSInv

LEMMA NextSInv ==
    ASSUME SInv, [Next]_vars, \A p \in Partitions : AddMessage(p) => AddsInOrder(p)
    PROVE  SInv'
<1>1. CASE \E p \in Partitions : AddMessage(p)
  BY <1>1, AddSInv
<1>2. CASE \/ Tick \/ Poll \/ FlushNothing \/ UNCHANGED vars
           \/ \E p \in Partitions : Produce(p)
  BY <1>2, QuietStepSInv
<1>3. CASE Flush
  BY <1>3, FlushSInv
<1> QED BY <1>1, <1>2, <1>3, StartSInv, WriteSInv, CommitSInv, EndSInv DEF Next

LEMMA SInvNotSkipped == SInv => NothingSkipped
<1> SUFFICES ASSUME SInv, pc # "down", NEW p \in Partitions, NEW o \in seen[p], o < pos[p]
             PROVE  o \in Unwritten(p) \cup written[p] \cup dropped[p]
  BY DEF NothingSkipped
<1>1. o \in Messages
  BY DEF SInv, BInv, TInv, TypeOK
<1> QED BY <1>1 DEF SInv, Accounted, SettledOffsets

LEMMA ArrivalSInv ==
    ASSUME TimeSource = "arrival", InitialCommit = 0
    PROVE  Spec => [](AInv /\ SInv)
<1>1. Init => AInv /\ SInv
  BY InitAInv, InitSInv
<1>2. AInv /\ SInv /\ [Next]_vars => AInv' /\ SInv'
  <2> SUFFICES ASSUME AInv, SInv, [Next]_vars PROVE AInv' /\ SInv'
    OBVIOUS
  <2> QED BY NextAInv, NextSInv, ArrivalInOrder
<1> QED BY <1>1, <1>2, PTL DEF Spec

(* In arrival mode, for a group with a committed offset, no message the    *)
(* position has passed is ever unaccounted for, whatever crashes.          *)
THEOREM MessagesNotSkipped ==
    ASSUME TimeSource = "arrival", InitialCommit = 0
    PROVE  Spec => []NothingSkipped
BY ArrivalSInv, SInvNotSkipped, PTL

-----------------------------------------------------------------------------
(* The aggregator implements CommitAfterWrite                              *)

AbstractNext == Abstract!Next \/ UNCHANGED Abstract!vars

(* A step that only adds messages of the log to the settled ones.          *)
LEMMA SettleRefines ==
    ASSUME UNCHANGED <<log, committed>>,
           \A p \in Partitions :
              /\ written[p] \cup dropped[p] \subseteq written'[p] \cup dropped'[p]
              /\ \A o \in (written'[p] \cup dropped'[p]) \ (written[p] \cup dropped[p]) :
                    o \in Messages /\ o < Len(log[p])
    PROVE  AbstractNext
<1> DEFINE more == [p \in Partitions |->
                      (written'[p] \cup dropped'[p]) \ (written[p] \cup dropped[p])]
<1>1. more \in [Partitions -> SUBSET Messages]
  OBVIOUS
<1>2. \A p \in Partitions : \A o \in more[p] : o < Len(log[p])
  OBVIOUS
<1>3. [p \in Partitions |-> written'[p] \cup dropped'[p]]
        = [p \in Partitions |-> (written[p] \cup dropped[p]) \cup more[p]]
  OBVIOUS
<1>4. Abstract!Settle(more)
  BY <1>2, <1>3 DEF Abstract!Settle
<1>5. \E m \in [Partitions -> SUBSET Messages] : Abstract!Settle(m)
  <2> HIDE DEF more
  <2> QED BY <1>1, <1>4 DEF Abstract!Settle
<1> QED BY <1>5 DEF AbstractNext, Abstract!Next, Abstract!Settle

LEMMA StutterRefines ==
    ASSUME UNCHANGED <<log, committed, written, dropped>>
    PROVE  AbstractNext
BY DEF AbstractNext, Abstract!vars

LEMMA ProduceRefines ==
    ASSUME TypeOK, NEW p \in Partitions, Produce(p)
    PROVE  AbstractNext
<1>1. PICK stamp \in Stamps : log' = [log EXCEPT ![p] = Append(@, stamp)]
  BY DEF Produce
<1>2. UNCHANGED <<committed, written, dropped>>
  BY DEF Produce, history
<1>3. log \in [Partitions -> Seq(Stamps)]
  BY DEF TypeOK
<1>4. [q \in Partitions |-> Len(log[q])]'
        = [[q \in Partitions |-> Len(log[q])] EXCEPT ![p] = @ + 1]
  <2>1. \A q \in Partitions : Len(log'[q]) = IF q = p THEN Len(log[q]) + 1 ELSE Len(log[q])
    BY <1>1, <1>3
  <2> QED BY <2>1
<1>5. Abstract!Append(p)
  BY <1>2, <1>4 DEF Abstract!Append
<1> QED BY <1>5 DEF AbstractNext, Abstract!Next

(* What a commit may leave as the committed offset of each partition.      *)
LEMMA CommitRefines ==
    ASSUME SInv, pc = "commit", UNCHANGED <<log, written, dropped>>,
           NEW done, committed' = CommitFor(done), InitialCommit = 0
    PROVE  AbstractNext
<1>1. /\ committed' \in [Partitions -> Nat \cup {None}]
      /\ \A p \in Partitions : committed'[p] # None => committed'[p] <= Len(log[p])
  BY CommitForType DEF SInv, BInv
<1>2. \A p \in Partitions :
         /\ committed'[p] # None
         /\ \A o \in Messages : o < committed'[p] => o \in SettledOffsets(p)
  BY CommitForSettled
<1>3. committed' \in [Partitions -> Messages \cup {o + 1 : o \in Messages} \cup {InitialCommit}]
  <2> SUFFICES ASSUME NEW p \in Partitions
               PROVE  committed'[p] \in Messages \cup {o + 1 : o \in Messages} \cup {InitialCommit}
    BY <1>1
  <2>1. /\ committed'[p] \in Nat /\ committed'[p] <= Len(log[p])
        /\ log[p] \in Seq(Stamps) /\ 0 .. Len(log[p]) - 1 \subseteq Messages
    BY <1>1, <1>2 DEF SInv, BInv, TInv, TypeOK
  <2>2. CASE committed'[p] = 0
    BY <2>2
  <2>3. CASE committed'[p] # 0
    <3>1. Len(log[p]) \in Nat
      BY <2>1
    <3>2. committed'[p] - 1 \in Messages
      BY <2>1, <2>3, <3>1
    <3>3. committed'[p] = (committed'[p] - 1) + 1
      BY <2>1
    <3> QED BY <3>2, <3>3
  <2> QED BY <2>2, <2>3
<1>4. ASSUME NEW p \in Partitions, committed'[p] # committed[p]
      PROVE  committed[p] < committed'[p]
  BY <1>4, ReleaseAdvances DEF CommitFor
<1>5. Abstract!Commit(committed')
  BY <1>2, <1>4 DEF Abstract!Commit, Abstract!SafeFor, SettledOffsets
<1> QED BY <1>3, <1>5 DEF AbstractNext, Abstract!Next

LEMMA AddRefines ==
    ASSUME SInv, NEW p \in Partitions, AddMessage(p)
    PROVE  AbstractNext
<1>1. /\ UNCHANGED <<log, committed, written>>
      /\ pc = "add" /\ pos[p] < fetched[p]
      /\ \A q \in Partitions : dropped'[q] = dropped[q]
            \/ (q = p /\ dropped'[q] = dropped[q] \cup {pos[p]})
  BY DEF AddMessage, SInv, BInv, TInv, TypeOK
<1>2. pos[p] \in Messages /\ pos[p] < Len(log[p])
  <2>1. pos[p] \in Messages
    BY <1>1, TimestampType DEF SInv, BInv, TInv
  <2>2. pos[p] \in Nat /\ fetched[p] \in Nat /\ fetched[p] <= Len(log[p])
        /\ log[p] \in Seq(Stamps)
    BY DEF SInv, BInv, TInv, TypeOK
  <2>3. Len(log[p]) \in Nat
    BY <2>2
  <2> QED BY <1>1, <2>1, <2>2, <2>3
<1> QED BY <1>1, <1>2, SettleRefines

(* Offsets in memory are offsets of the log.                               *)
LEMMA BelowPositionInLog ==
    ASSUME TypeOK, NEW p \in Partitions, NEW o \in Messages, o < pos[p]
    PROVE  o < Len(log[p])
<1>1. pos[p] \in Nat /\ fetched[p] \in Nat /\ o \in Nat /\ log[p] \in Seq(Stamps)
      /\ pos[p] <= fetched[p] /\ fetched[p] <= Len(log[p])
  BY MessagesAssumption DEF TypeOK
<1>2. Len(log[p]) \in Nat
  BY <1>1
<1> QED BY <1>1, <1>2

LEMMA FlushRefines ==
    ASSUME SInv, Flush
    PROVE  AbstractNext
<1>1. UNCHANGED <<log, committed, written>>
  BY DEF Flush
<1>2. \A p \in Partitions :
         dropped'[p] = dropped[p]
         \/ dropped'[p] = dropped[p] \cup Counted(Dropped(mgr[p], Clock(p)))
  BY DEF Flush
<1>3. ASSUME NEW p \in Partitions, NEW o \in Counted(Dropped(mgr[p], Clock(p)))
      PROVE  o \in Messages /\ o < Len(log[p])
  <2>1. PICK w \in Windows : Dropped(mgr[p], Clock(p))[w][o] > 0
    BY DEF Counted
  <2>2. o \in Messages
    BY DEF Counted
  <2>3. mgr[p].windows[w][o] > 0
    <3>1. Dropped(mgr[p], Clock(p))[w] \in {NoEvents, mgr[p].windows[w]}
      BY DEF Dropped
    <3>2. ~(NoEvents[o] > 0)
      BY <2>2 DEF NoEvents
    <3> QED BY <2>1, <3>1, <3>2
  <2>4. o < pos[p]
    BY <2>2, <2>3 DEF SInv, BInv, OpenAboveReleasable
  <2> QED BY <2>2, <2>4, BelowPositionInLog DEF SInv, BInv, TInv
<1> QED BY <1>1, <1>2, <1>3, SettleRefines

LEMMA WriteRefines ==
    ASSUME SInv, pc = "write", SliceReachesRedis \/ UNCHANGED <<store, written>>,
           UNCHANGED <<log, committed, dropped>>
    PROVE  AbstractNext
<1>1. \A p \in Partitions :
         written'[p] = written[p] \/ written'[p] = written[p] \cup Counted(closing[p].slices)
  BY DEF SliceReachesRedis
<1>2. ASSUME NEW p \in Partitions, NEW o \in Counted(closing[p].slices)
      PROVE  o \in Messages /\ o < Len(log[p])
  <2>1. o \in Messages /\ \E w \in Windows : closing[p].slices[w][o] > 0
    BY DEF Counted
  <2>2. o < pos[p]
    BY <2>1 DEF SInv, BInv, ClosingWithheld
  <2> QED BY <2>1, <2>2, BelowPositionInLog DEF SInv, BInv, TInv
<1> QED BY <1>1, <1>2, SettleRefines

LEMMA StepRefines ==
    ASSUME SInv, InitialCommit = 0, [Next]_vars
    PROVE  AbstractNext
<1>1. CASE Tick \/ Start \/ Poll \/ FlushNothing \/ Crash \/ Shutdown \/ UNCHANGED vars
  BY <1>1, StutterRefines DEF Tick, Start, Poll, FlushNothing, Crash, Shutdown, vars, history
<1>2. CASE \E p \in Partitions : Produce(p)
  BY <1>2, ProduceRefines DEF SInv, BInv, TInv
<1>3. CASE \E p \in Partitions : AddMessage(p)
  BY <1>3, AddRefines
<1>4. CASE Flush
  BY <1>4, FlushRefines
<1>5. CASE Write \/ WriteFails
  BY <1>5, WriteRefines DEF Write, WriteFails
<1>6. CASE Commit \/ CommitFails
  BY <1>6, CommitRefines DEF Commit, CommitFails, history
<1> QED BY <1>1, <1>2, <1>3, <1>4, <1>5, <1>6 DEF Next

LEMMA InitRefines ==
    ASSUME Init
    PROVE  Abstract!Init
BY DEF Init, Abstract!Init

(* In arrival mode, for a group with a committed offset, the aggregator    *)
(* implements CommitAfterWrite: crashes, replays and failing calls only    *)
(* ever show as steps that commit settled messages, in order.              *)
THEOREM AggregatorImplementsCommitAfterWrite ==
    ASSUME TimeSource = "arrival", InitialCommit = 0
    PROVE  Spec => ImplementsCommitAfterWrite
<1>1. Init => Abstract!Init
  BY InitRefines
<1>2. SInv /\ [Next]_vars => [Abstract!Next]_(Abstract!vars)
  BY StepRefines DEF AbstractNext
<1> QED BY <1>1, <1>2, ArrivalSInv, PTL
        DEF Spec, ImplementsCommitAfterWrite, Abstract!Spec

-----------------------------------------------------------------------------
(* Without stalls, what is committed was written                           *)
(*                                                                         *)
(* Messages that come in order are discarded only when a call to           *)
(* pop_closed finds more than MaxGap windows due.  When no stall is that   *)
(* long, being settled is being written.                                   *)

NothingDropped ==
    \A p \in Partitions :
        /\ dropped[p] = {}
        /\ mgr[p].emitted # None => mgr[p].emitted >= -1

LEMMA FlushDropsNothing ==
    ASSUME MaxGap >= Win(MaxTime), BInv, NothingDropped, Flush,
           \A p \in Partitions : ClosesNow(p) => Clock(p) <= MaxTime
    PROVE  NothingDropped'
<1>0. TypeOK
  BY DEF BInv, TInv
<1> SUFFICES ASSUME NEW p \in Partitions
             PROVE  /\ dropped'[p] = {}
                    /\ mgr'[p].emitted # None => mgr'[p].emitted >= -1
  BY DEF NothingDropped
<1>1. dropped[p] = {} /\ (mgr[p].emitted # None => mgr[p].emitted >= -1)
  BY DEF NothingDropped
<1>2. CASE ~ClosesNow(p)
  BY <1>1, <1>2 DEF Flush
<1>3. CASE ClosesNow(p)
  <2> DEFINE c == Clock(p)
  <2>1. /\ mgr[p] \in Managers /\ c \in Int /\ Closes(mgr[p], c) /\ c <= MaxTime
        /\ mgr'[p] = PopClosed(mgr[p], c)
        /\ dropped'[p] = dropped[p] \cup Counted(Dropped(mgr[p], c))
    BY <1>0, <1>3, ClockType DEF Flush
  <2> HIDE DEF c
  <2>2. NewestClosed(c) \in Int /\ NewestClosed(c) < Win(MaxTime) /\ Win(MaxTime) \in Int
    <3>1. c - Grace <= MaxTime /\ c - Grace \in Int /\ MaxTime \in Int
      BY <2>1, GraceAssumption, MaxTimeAssumption
    <3>2. Win(c - Grace) <= Win(MaxTime) /\ Win(c - Grace) \in Int
          /\ Win(MaxTime) \in Int
      BY <3>1, WinFacts
    <3> QED BY <3>2 DEF NewestClosed
  <2>3. /\ mgr[p].emitted \in Int /\ mgr[p].emitted # None
        /\ mgr[p].emitted < NewestClosed(c)
    BY <2>1, ResumeBounds, NoneAssumption
  <2>4. mgr'[p].emitted = NewestClosed(c)
    BY <2>1 DEF PopClosed, Managers
  <2>5. Resume(mgr[p], c) = mgr[p].emitted
    BY <1>1, <2>2, <2>3, MaxGapAssumption DEF Resume
  <2>6. Counted(Dropped(mgr[p], c)) = {}
    <3> SUFFICES ASSUME NEW w \in Windows, NEW o \in Messages, Dropped(mgr[p], c)[w][o] > 0
                 PROVE  FALSE
      BY DEF Counted
    <3>1. ~(NoEvents[o] > 0)
      BY DEF NoEvents
    <3>2. w <= mgr[p].emitted /\ mgr[p].windows[w][o] > 0
      BY <2>5, <3>1 DEF Dropped
    <3>3. mgr[p].emitted < w /\ w \in Int
      BY <3>2, WindowsAreNat DEF BInv, OpenAboveReleasable
    <3> QED BY <2>3, <3>2, <3>3
  <2> QED BY <1>1, <2>1, <2>2, <2>3, <2>4, <2>6
<1> QED BY <1>2, <1>3

LEMMA AddDropsNothing ==
    ASSUME BInv, NothingDropped, NEW p \in Partitions, AddMessage(p), AddsInOrder(p)
    PROVE  NothingDropped'
<1> DEFINE v == Win(Timestamp(log[p][pos[p] + 1]))
<1>1. TInv
  BY DEF BInv
<1>2. /\ v \in Nat /\ dropped' = dropped
      /\ mgr[p].emitted # None => mgr'[p].emitted = mgr[p].emitted
      /\ mgr[p].emitted = None => mgr'[p].emitted = v - 1
      /\ \A q \in Partitions : q # p => mgr'[q] = mgr[q]
  BY <1>1, AddedInOrder
<1> HIDE DEF v
<1> QED BY <1>2 DEF NothingDropped

LEMMA NextDropsNothing ==
    ASSUME MaxGap >= Win(MaxTime), BInv, NothingDropped, [Next]_vars,
           \A p \in Partitions : ClosesNow(p) => Clock(p) <= MaxTime,
           \A p \in Partitions : AddMessage(p) => AddsInOrder(p)
    PROVE  NothingDropped'
<1>1. CASE \/ UNCHANGED vars \/ Tick \/ (\E p \in Partitions : Produce(p)) \/ Start \/ Poll
           \/ FlushNothing \/ Write \/ Commit
  <2>1. UNCHANGED <<mgr, dropped>>
    BY <1>1 DEF vars, memory, history, Tick, Produce, Start, Poll, FlushNothing, Write, Commit
  <2> QED BY <2>1 DEF NothingDropped
<1>2. CASE WriteFails \/ CommitFails \/ Crash \/ Shutdown
  <2>1. dropped' = dropped /\ \A p \in Partitions : mgr'[p].emitted = None
    BY <1>2 DEF WriteFails, CommitFails, Crash, Shutdown, Die, history, NewManager
  <2> QED BY <2>1 DEF NothingDropped
<1>3. CASE \E p \in Partitions : AddMessage(p)
  BY <1>3, AddDropsNothing
<1> QED BY <1>1, <1>2, <1>3, FlushDropsNothing DEF Next

LEMMA InitDropsNothing == Init => NothingDropped
BY DEF Init, NothingDropped, NewManager

LEMMA SettledWasWritten == SInv /\ NothingDropped => CommittedWasWritten
<1> SUFFICES ASSUME SInv, NothingDropped, NEW p \in Partitions, NEW o \in seen[p],
                    committed[p] # None, o < committed[p]
             PROVE  o \in written[p]
  BY DEF CommittedWasWritten
<1>1. o \in Messages
  BY DEF SInv, BInv, TInv, TypeOK
<1>2. o \in SettledOffsets(p)
  BY <1>1 DEF SInv, CommittedSettled
<1> QED BY <1>2 DEF SettledOffsets, NothingDropped

(* In arrival mode, when no stall is longer than MaxGap windows, every     *)
(* message below the committed offset was written to Redis: nothing is     *)
(* committed by being discarded.                                           *)
THEOREM ArrivalCommittedWasWritten ==
    ASSUME TimeSource = "arrival", InitialCommit = 0, MaxGap >= Win(MaxTime)
    PROVE  Spec => []CommittedWasWritten
<1>1. AInv /\ SInv /\ NothingDropped /\ [Next]_vars => NothingDropped'
  <2> SUFFICES ASSUME AInv, SInv, NothingDropped, [Next]_vars PROVE NothingDropped'
    OBVIOUS
  <2>1. arrival <= MaxTime
    BY TimeFacts, MaxTimeAssumption DEF AInv, BInv, TInv
  <2>2. \A p \in Partitions : Clock(p) <= MaxTime
    BY <2>1 DEF Clock
  <2> QED BY <2>2, NextDropsNothing, ArrivalInOrder DEF AInv
<1> QED BY <1>1, InitDropsNothing, SettledWasWritten, ArrivalSInv, PTL DEF Spec

-----------------------------------------------------------------------------
(* Event mode: a message has one window                                    *)
(*                                                                         *)
(* When every message carries its own time, its window is a function of    *)
(* the message, so a replay can count it again only where it was counted   *)
(* before.                                                                 *)

Belongs(p, o, w) == o < Len(log[p]) /\ w = Win(log[p][o + 1])

CountedWhereStamped ==
    \A p \in Partitions, w \in Windows, o \in Messages :
        /\ mgr[p].windows[w][o] > 0 => Belongs(p, o, w)
        /\ closing[p].slices[w][o] > 0 => Belongs(p, o, w)
        /\ store.slices[w][p] # None /\ store.slices[w][p][o] > 0 => Belongs(p, o, w)

EInv == TInv /\ CountedWhereStamped

LEMMA NoEventsCountsNothing ==
    \A w \in Windows, o \in Messages :
        /\ ~(NoEvents[o] > 0)
        /\ ~(NewManager.windows[w][o] > 0)
        /\ ~(NoClosing.slices[w][o] > 0)
BY DEF NoEvents, NewManager, NoClosing

LEMMA InitEInv == Init => EInv
<1> SUFFICES ASSUME Init PROVE EInv
  OBVIOUS
<1>1. \A p \in Partitions, w \in Windows : store.slices[w][p] = None
  BY DEF Init, Redis!EmptyStore, Redis!NoHash
<1>2. \A p \in Partitions : mgr[p] = NewManager /\ closing[p] = NoClosing
  BY DEF Init
<1> QED BY <1>1, <1>2, InitTInv, NoEventsCountsNothing DEF EInv, CountedWhereStamped

(* The log only grows. *)
LEMMA BelongsStays ==
    ASSUME TypeOK, NEW p \in Partitions, NEW o \in Messages, NEW w, Belongs(p, o, w),
           log' = log \/ \E q \in Partitions : Produce(q)
    PROVE  Belongs(p, o, w)'
<1>1. CASE log' = log
  BY <1>1 DEF Belongs
<1>2. CASE \E q \in Partitions : Produce(q)
  <2>1. PICK q \in Partitions, stamp \in Stamps : log' = [log EXCEPT ![q] = Append(@, stamp)]
    BY <1>2 DEF Produce
  <2>2. log[p] \in Seq(Stamps) /\ o \in Nat /\ log'[p] \in {log[p], Append(log[p], stamp)}
    BY <2>1, MessagesAssumption DEF TypeOK
  <2>3. o + 1 \in 1 .. Len(log[p]) /\ o < Len(log'[p]) /\ log'[p][o + 1] = log[p][o + 1]
    <3>1. Len(log[p]) \in Nat /\ o < Len(log[p])
      BY <2>2 DEF Belongs
    <3>2. CASE log'[p] = log[p]
      BY <2>2, <3>1, <3>2
    <3>3. CASE log'[p] = Append(log[p], stamp)
      BY <2>2, <3>1, <3>3
    <3> QED BY <2>2, <3>2, <3>3
  <2> QED BY <2>3 DEF Belongs
<1> QED BY <1>1, <1>2

LEMMA AddEInv ==
    ASSUME TimeSource = "event", Stamps \subseteq 1 .. MaxTime,
           EInv, NEW p \in Partitions, AddMessage(p)
    PROVE  EInv'
<1> DEFINE m == pos[p]
           ts == Timestamp(log[p][m + 1])
<1>1. /\ TInv' /\ TypeOK
      /\ pc = "add" /\ m < fetched[p] /\ UNCHANGED <<log, store, closing>>
      /\ mgr' = [mgr EXCEPT ![p] = Add(@, m, ts)]
  BY AddTInv DEF EInv, TInv, AddMessage
<1>2. m \in Messages /\ m \in Nat /\ ts \in 0 .. MaxTime /\ Win(ts) \in Windows
      /\ mgr[p] \in Managers
  <2>1. m \in Messages /\ m \in Nat /\ ts \in 0 .. MaxTime
    BY <1>1, TimestampType
  <2> QED BY <1>1, <2>1, WinFacts, MaxTimeAssumption DEF TypeOK
<1>3. Belongs(p, m, Win(ts))
  <2>1. /\ log[p] \in Seq(Stamps) /\ fetched[p] \in Nat /\ fetched[p] <= Len(log[p])
    BY <1>1 DEF TypeOK
  <2>2. m < Len(log[p]) /\ m + 1 \in 1 .. Len(log[p])
    BY <1>1, <1>2, <2>1
  <2>3. log[p][m + 1] \in Stamps
    BY <2>1, <2>2
  <2>4. ts = log[p][m + 1]
    <3>1. \A s \in Stamps : s \in Int /\ s > 0 /\ s # None
      BY NoneAssumption, MaxTimeAssumption
    <3>2. \A s \in Stamps : Timestamp(s) = s
      BY <3>1 DEF Timestamp
    <3> QED BY <2>3, <3>2
  <2> QED BY <2>2, <2>4 DEF Belongs
<1>4. \A q \in Partitions : q # p => mgr'[q] = mgr[q]
  BY <1>1 DEF TypeOK
<1>5. \A w \in Windows, o \in Messages :
         mgr'[p].windows[w][o] = mgr[p].windows[w][o] \/ (w = Win(ts) /\ o = m)
  <2>1. mgr'[p] = Add(mgr[p], m, ts)
    BY <1>1 DEF TypeOK
  <2>2. mgr'[p].windows \in {mgr[p].windows, [mgr[p].windows EXCEPT ![Win(ts)][m] = @ + 1]}
    BY <1>2, <2>1 DEF Add, Managers
  <2>3. mgr[p].windows \in [Windows -> [Messages -> Nat]]
    BY <1>2 DEF Managers, Bags
  <2> HIDE DEF m, ts
  <2>4. CASE mgr'[p].windows = mgr[p].windows
    BY <2>4
  <2>5. CASE mgr'[p].windows = [mgr[p].windows EXCEPT ![Win(ts)][m] = @ + 1]
    BY <2>3, <2>5
  <2> QED BY <2>2, <2>4, <2>5
<1>6. CountedWhereStamped'
  <2> SUFFICES ASSUME NEW q \in Partitions, NEW w \in Windows, NEW o \in Messages
               PROVE  /\ mgr'[q].windows[w][o] > 0 => Belongs(q, o, w)
                      /\ closing[q].slices[w][o] > 0 => Belongs(q, o, w)
                      /\ store.slices[w][q] # None /\ store.slices[w][q][o] > 0
                            => Belongs(q, o, w)
    BY <1>1 DEF CountedWhereStamped, Belongs
  <2> HIDE DEF ts, m
  <2>1. mgr'[q].windows[w][o] > 0 => Belongs(q, o, w)
    BY <1>3, <1>4, <1>5 DEF EInv, CountedWhereStamped
  <2> QED BY <2>1 DEF EInv, CountedWhereStamped
<1> QED BY <1>1, <1>6 DEF EInv

LEMMA FlushEInv == EInv /\ Flush => EInv'
<1> SUFFICES ASSUME EInv, Flush PROVE EInv'
  OBVIOUS
<1>1. TInv' /\ TypeOK /\ UNCHANGED <<log, store>>
  BY FlushTInv DEF EInv, TInv, Flush
<1>2. ASSUME NEW p \in Partitions, NEW w \in Windows
      PROVE  /\ mgr'[p].windows[w] \in {mgr[p].windows[w], NoEvents}
             /\ closing'[p].slices[w] \in {mgr[p].windows[w], NoEvents}
  <2>1. CASE ClosesNow(p)
    <3>1. mgr'[p] = PopClosed(mgr[p], Clock(p))
          /\ closing'[p].slices = Summaries(mgr[p], Clock(p)) /\ mgr[p] \in Managers
      BY <1>1, <2>1 DEF Flush, TypeOK
    <3> QED BY <3>1 DEF PopClosed, Summaries, Managers
  <2>2. CASE ~ClosesNow(p)
    BY <2>2 DEF Flush, NoClosing
  <2> QED BY <2>1, <2>2
<1>3. CountedWhereStamped'
  <2> SUFFICES ASSUME NEW p \in Partitions, NEW w \in Windows, NEW o \in Messages
               PROVE  /\ mgr'[p].windows[w][o] > 0 => Belongs(p, o, w)
                      /\ closing'[p].slices[w][o] > 0 => Belongs(p, o, w)
                      /\ store.slices[w][p] # None /\ store.slices[w][p][o] > 0
                            => Belongs(p, o, w)
    BY <1>1 DEF CountedWhereStamped, Belongs
  <2>1. ~(NoEvents[o] > 0) /\ (mgr[p].windows[w][o] > 0 => Belongs(p, o, w))
    BY NoEventsCountsNothing DEF EInv, CountedWhereStamped
  <2>2. mgr'[p].windows[w][o] > 0 \/ closing'[p].slices[w][o] > 0 => mgr[p].windows[w][o] > 0
    BY <1>2, <2>1
  <2> QED BY <2>1, <2>2 DEF EInv, CountedWhereStamped
<1> QED BY <1>1, <1>3 DEF EInv

(* The other steps count nothing anew: what is in memory stays or goes,    *)
(* and what reaches Redis is what is being closed.                         *)
LEMMA OtherEInv ==
    ASSUME EInv, TInv',
           log' = log \/ \E q \in Partitions : Produce(q),
           store' = store \/ SliceReachesRedis,
           \A p \in Partitions : /\ mgr'[p] \in {mgr[p], NewManager}
                                 /\ closing'[p] \in {closing[p], NoClosing}
    PROVE  EInv'
<1> SUFFICES ASSUME NEW p \in Partitions, NEW w \in Windows, NEW o \in Messages
             PROVE  /\ mgr'[p].windows[w][o] > 0 => Belongs(p, o, w)'
                    /\ closing'[p].slices[w][o] > 0 => Belongs(p, o, w)'
                    /\ store'.slices[w][p] # None /\ store'.slices[w][p][o] > 0
                          => Belongs(p, o, w)'
  BY DEF EInv, CountedWhereStamped
<1>1. Belongs(p, o, w) => Belongs(p, o, w)'
  BY BelongsStays DEF EInv, TInv
<1>2. /\ mgr[p].windows[w][o] > 0 => Belongs(p, o, w)
      /\ closing[p].slices[w][o] > 0 => Belongs(p, o, w)
      /\ store.slices[w][p] # None /\ store.slices[w][p][o] > 0 => Belongs(p, o, w)
  BY DEF EInv, CountedWhereStamped
<1>3. mgr'[p].windows[w][o] > 0 => Belongs(p, o, w)'
  BY <1>1, <1>2, NoEventsCountsNothing
<1>4. closing'[p].slices[w][o] > 0 => Belongs(p, o, w)'
  BY <1>1, <1>2, NoEventsCountsNothing
<1>5. store'.slices[w][p] # None /\ store'.slices[w][p][o] > 0 => Belongs(p, o, w)'
  <2>1. \/ store'.slices[w][p] = None
        \/ store'.slices[w][p] = store.slices[w][p]
        \/ store'.slices[w][p] = closing[p].slices[w]
    BY WrittenSlices DEF SliceReachesRedis
  <2> QED BY <1>1, <1>2, <2>1
<1> QED BY <1>3, <1>4, <1>5

LEMMA NextEInv ==
    ASSUME TimeSource = "event", Stamps \subseteq 1 .. MaxTime
    PROVE  EInv /\ [Next]_vars => EInv'
<1> SUFFICES ASSUME EInv, [Next]_vars PROVE EInv'
  OBVIOUS
<1>1. TInv' /\ TypeOK
  BY NextTInv DEF EInv, TInv
<1>2. CASE \E p \in Partitions : AddMessage(p)
  BY <1>2, AddEInv
<1>3. CASE \/ UNCHANGED vars \/ Tick \/ (\E p \in Partitions : Produce(p)) \/ Start \/ Poll
           \/ FlushNothing
  BY <1>1, <1>3, OtherEInv DEF vars, memory, Tick, Produce, Start, Poll, FlushNothing
<1>4. CASE Write \/ Commit
  BY <1>1, <1>4, OtherEInv DEF memory, Write, Commit
<1>5. CASE WriteFails \/ CommitFails \/ Crash \/ Shutdown
  BY <1>1, <1>5, OtherEInv DEF WriteFails, CommitFails, Crash, Shutdown, Die
<1> QED BY <1>2, <1>3, <1>4, <1>5, FlushEInv DEF Next

(* In event mode, when every message carries its time, no message is in    *)
(* two windows of the history, however often it is replayed.               *)
THEOREM EventCountedInOneWindow ==
    ASSUME TimeSource = "event", Stamps \subseteq 1 .. MaxTime
    PROVE  Spec => []CountedInOneWindow
<1>1. EInv => CountedInOneWindow
  <2> SUFFICES ASSUME EInv, NEW p \in Partitions, NEW o \in Messages
               PROVE  Cardinality({w \in Windows : /\ store.slices[w][p] # None
                                                   /\ store.slices[w][p][o] > 0}) <= 1
    BY DEF CountedInOneWindow
  <2> DEFINE S == {w \in Windows : /\ store.slices[w][p] # None
                                   /\ store.slices[w][p][o] > 0}
             x == Win(log[p][o + 1])
  <2>1. S \in SUBSET {x}
    BY DEF EInv, CountedWhereStamped, Belongs
  <2>2. Cardinality(S) <= Cardinality({x}) /\ Cardinality({x}) = 1
    <3> HIDE DEF S, x
    <3> QED BY <2>1, FS_Singleton, FS_Subset
  <2> QED BY <2>2
<1>2. Spec => []EInv
  BY InitEInv, NextEInv, PTL DEF Spec
<1> QED BY <1>1, <1>2, PTL

-----------------------------------------------------------------------------
(* Event mode: messages in the order of their time                         *)
(*                                                                         *)
(* The committed offset never falls within a window: the messages before   *)
(* it are of earlier windows than those behind it.  A process that starts  *)
(* there sees each of its windows whole, so what it writes for a window is *)
(* what any earlier process wrote for it.                                  *)

WinOf(p, o) == Win(log[p][o + 1])

LogInOrder ==
    \A p \in Partitions : \A i, j \in 1 .. Len(log[p]) : i <= j => log[p][i] <= log[p][j]

(* The message at c is the first of its window, and is in the log already. *)
StartsWindow(p, c) ==
    c > 0 => c < Len(log[p]) /\ WinOf(p, c - 1) < WinOf(p, c)

CommitsWholeWindows ==
    \A p \in Partitions : committed[p] \in Nat /\ StartsWindow(p, committed[p])

(* A manager that has seen no message, and its place in the log.           *)
BeginsAtWindow ==
    \A p \in Partitions :
        mgr[p].emitted = None => /\ mgr[p] = NewManager
                                 /\ pending[p] = Tracker!NoPending
                                 /\ StartsWindow(p, pos[p])

(* All the messages of a window, and those that the position has passed.   *)
Whole(p, w) == [o \in Messages |-> IF Belongs(p, o, w) THEN 1 ELSE 0]
SoFar(p, w) == [o \in Messages |-> IF o < pos[p] /\ Belongs(p, o, w) THEN 1 ELSE 0]

(* An open window lacks only what is still to be read.                     *)
OpenIsSoFar ==
    \A p \in Partitions :
        mgr[p].emitted # None =>
            /\ pos[p] > 0
            /\ mgr[p].maxTs = log[p][pos[p]]
            /\ mgr[p].emitted < WinOf(p, pos[p] - 1)
            /\ \A w \in Windows :
                  w > mgr[p].emitted => mgr[p].windows[w] = SoFar(p, w)

(* Where a window has a recorded offset, each later window has the last of *)
(* its own, and so has that window.                                        *)
PendingIsComplete ==
    \A p \in Partitions, w \in Windows :
        pending[p][w] # -1 =>
            /\ Belongs(p, pending[p][w], w)
            /\ \A o \in 0 .. pos[p] - 1 :
                  w <= WinOf(p, o) => pending[p][WinOf(p, o)] >= o

(* A later message is in the log, so nothing more comes for the window.    *)
Over(p, w) == Len(log[p]) > 0 /\ w < WinOf(p, Len(log[p]) - 1)

ShownIsWhole ==
    \A p \in Partitions, w \in Windows :
        store.slices[w][p] # None => Over(p, w) /\ store.slices[w][p] = Whole(p, w)

ClosingIsWhole ==
    \A p \in Partitions, w \in Windows :
        w \in closing[p].windows => Over(p, w) /\ closing[p].slices[w] = Whole(p, w)

OInv == /\ TInv
        /\ LogInOrder
        /\ CommitsWholeWindows
        /\ BeginsAtWindow
        /\ OpenIsSoFar
        /\ PendingIsComplete
        /\ ShownIsWhole
        /\ ClosingIsWhole

(* Every message carries its time, and no later one an earlier time.       *)
InOrderEvents ==
    TimeSource = "event" /\ Stamps \subseteq 1 .. MaxTime /\ Disorder = 0

-----------------------------------------------------------------------------
(* The log                                                                 *)

LEMMA StampFacts ==
    ASSUME InOrderEvents, NEW s \in Stamps
    PROVE  /\ s \in 1 .. MaxTime /\ s \in 0 .. MaxTime
           /\ s \in Int /\ s > 0 /\ s # None
           /\ Timestamp(s) = s
<1>1. s \in 1 .. MaxTime /\ MaxTime \in Int
  BY MaxTimeAssumption DEF InOrderEvents
<1>2. s \in Int /\ s > 0 /\ s \in 0 .. MaxTime
  BY <1>1
<1> QED BY <1>1, <1>2, NoneAssumption DEF Timestamp, InOrderEvents

LEMMA LogFacts ==
    ASSUME InOrderEvents, TypeOK, NEW p \in Partitions
    PROVE  /\ log[p] \in Seq(Stamps) /\ Len(log[p]) \in Nat
           /\ pos[p] \in Nat /\ fetched[p] \in Nat
           /\ pos[p] <= fetched[p] /\ fetched[p] <= Len(log[p])
           /\ \A o \in 0 .. Len(log[p]) - 1 :
                 /\ o \in Messages
                 /\ log[p][o + 1] \in Stamps
                 /\ log[p][o + 1] \in Int
                 /\ WinOf(p, o) \in Windows /\ WinOf(p, o) \in Nat
<1>1. /\ log[p] \in Seq(Stamps) /\ Len(log[p]) \in Nat
      /\ pos[p] \in Nat /\ fetched[p] \in Nat
      /\ pos[p] <= fetched[p] /\ fetched[p] <= Len(log[p])
      /\ 0 .. Len(log[p]) - 1 \subseteq Messages
  BY DEF TypeOK
<1>2. ASSUME NEW o \in 0 .. Len(log[p]) - 1
      PROVE  /\ o \in Messages /\ log[p][o + 1] \in Stamps /\ log[p][o + 1] \in Int
             /\ WinOf(p, o) \in Windows /\ WinOf(p, o) \in Nat
  <2>1. o + 1 \in 1 .. Len(log[p])
    BY <1>1
  <2>2. log[p][o + 1] \in Stamps
    BY <1>1, <2>1
  <2>3. log[p][o + 1] \in Int /\ log[p][o + 1] \in 0 .. MaxTime
    BY <2>2, StampFacts
  <2>4. WinOf(p, o) \in Windows
    BY <2>3, WinFacts DEF WinOf
  <2> QED BY <1>1, <2>2, <2>3, <2>4, WindowsAreNat
<1> QED BY <1>1, <1>2

LEMMA WindowsInOrder ==
    ASSUME InOrderEvents, TypeOK, LogInOrder, NEW p \in Partitions,
           NEW m \in 0 .. Len(log[p]) - 1, NEW n \in 0 .. Len(log[p]) - 1, m <= n
    PROVE  WinOf(p, m) <= WinOf(p, n)
<1>1. Len(log[p]) \in Nat /\ log[p][m + 1] \in Int /\ log[p][n + 1] \in Int
  BY LogFacts
<1>2. m + 1 \in 1 .. Len(log[p]) /\ n + 1 \in 1 .. Len(log[p]) /\ m + 1 <= n + 1
  BY <1>1
<1>3. log[p][m + 1] <= log[p][n + 1]
  BY <1>2 DEF LogInOrder
<1> QED BY <1>1, <1>3, WinFacts DEF WinOf

(* What is in the log stays where it is.                                   *)
LEMMA LogGrows ==
    ASSUME InOrderEvents, TypeOK, log' = log \/ (\E q \in Partitions : Produce(q)),
           NEW p \in Partitions
    PROVE  /\ Len(log'[p]) \in Nat /\ Len(log[p]) <= Len(log'[p])
           /\ \A o \in 0 .. Len(log[p]) - 1 : log'[p][o + 1] = log[p][o + 1]
<1>1. log[p] \in Seq(Stamps) /\ Len(log[p]) \in Nat
  BY LogFacts
<1>2. CASE log' = log
  BY <1>1, <1>2
<1>3. CASE \E q \in Partitions : Produce(q)
  <2>1. PICK q \in Partitions, stamp \in Stamps : log' = [log EXCEPT ![q] = Append(@, stamp)]
    BY <1>3 DEF Produce
  <2>2. log'[p] \in {log[p], Append(log[p], stamp)}
    BY <2>1 DEF TypeOK
  <2> QED BY <1>1, <2>2
<1> QED BY <1>2, <1>3

LEMMA ProduceInOrder ==
    ASSUME InOrderEvents, TypeOK, LogInOrder, NEW q \in Partitions, Produce(q)
    PROVE  LogInOrder'
<1>1. PICK stamp \in Stamps :
         InOrder(q, stamp) /\ log' = [log EXCEPT ![q] = Append(@, stamp)]
  BY DEF Produce
<1> SUFFICES ASSUME NEW p \in Partitions,
                    NEW i \in 1 .. Len(log'[p]), NEW j \in 1 .. Len(log'[p]), i <= j
             PROVE  log'[p][i] <= log'[p][j]
  BY DEF LogInOrder
<1>2. log[p] \in Seq(Stamps) /\ Len(log[p]) \in Nat
  BY LogFacts
<1>3. \A k \in 1 .. Len(log[p]) : log[p][k] \in Int /\ log[p][k] # None
  BY <1>2, StampFacts
<1>4. stamp # None /\ stamp \in Int
  BY StampFacts
<1>5. CASE p # q \/ j <= Len(log[p])
  <2>1. /\ i \in 1 .. Len(log[p]) /\ j \in 1 .. Len(log[p])
        /\ log'[p][i] = log[p][i] /\ log'[p][j] = log[p][j]
    BY <1>1, <1>2, <1>5 DEF TypeOK
  <2> QED BY <2>1 DEF LogInOrder
<1>6. CASE p = q /\ ~(j <= Len(log[p]))
  <2>1. log'[p] = Append(log[p], stamp) /\ j = Len(log[p]) + 1 /\ log'[p][j] = stamp
    BY <1>1, <1>2, <1>6 DEF TypeOK
  <2>2. CASE i = j
    BY <1>4, <2>1, <2>2
  <2>3. CASE i # j
    <3>1. i \in 1 .. Len(log[p]) /\ log'[p][i] = log[p][i]
      BY <1>2, <2>1, <2>3
    <3>2. log[p][i] # None /\ log[p][i] \in Int
      BY <1>3, <3>1
    <3>3. log[p][i] - 0 <= stamp
      BY <1>1, <1>4, <1>6, <3>1, <3>2 DEF InOrder, InOrderEvents
    <3> QED BY <1>4, <2>1, <3>1, <3>2, <3>3
  <2> QED BY <2>2, <2>3
<1> QED BY <1>5, <1>6

(* What is said of a place in the log remains true as the log grows.       *)
LEMMA StartsWindowStays ==
    ASSUME InOrderEvents, TypeOK, log' = log \/ (\E q \in Partitions : Produce(q)),
           NEW p \in Partitions, NEW c \in Nat, StartsWindow(p, c)
    PROVE  StartsWindow(p, c)'
<1> SUFFICES ASSUME c > 0
             PROVE  c < Len(log'[p]) /\ Win(log'[p][(c - 1) + 1]) < Win(log'[p][c + 1])
  BY DEF StartsWindow, WinOf
<1>1. c < Len(log[p]) /\ Win(log[p][(c - 1) + 1]) < Win(log[p][c + 1])
  BY DEF StartsWindow, WinOf
<1>2. Len(log[p]) \in Nat /\ Len(log'[p]) \in Nat /\ Len(log[p]) <= Len(log'[p])
  BY LogFacts, LogGrows
<1>3. c - 1 \in 0 .. Len(log[p]) - 1 /\ c \in 0 .. Len(log[p]) - 1
  BY <1>1, <1>2
<1>4. log'[p][(c - 1) + 1] = log[p][(c - 1) + 1] /\ log'[p][c + 1] = log[p][c + 1]
  BY <1>3, LogGrows
<1> QED BY <1>1, <1>2, <1>4

LEMMA WinOfStays ==
    ASSUME InOrderEvents, TypeOK, log' = log \/ (\E q \in Partitions : Produce(q)),
           NEW p \in Partitions, NEW o \in 0 .. Len(log[p]) - 1
    PROVE  /\ WinOf(p, o)' = WinOf(p, o)
           /\ \A w : Belongs(p, o, w)' <=> Belongs(p, o, w)
<1>1. log'[p][o + 1] = log[p][o + 1] /\ Len(log[p]) <= Len(log'[p])
      /\ Len(log[p]) \in Nat /\ Len(log'[p]) \in Nat
  BY LogFacts, LogGrows
<1>2. o < Len(log[p]) /\ o < Len(log'[p])
  BY <1>1
<1> QED BY <1>1, <1>2 DEF WinOf, Belongs

(* Nothing is added to a window that is over.                              *)
LEMMA WholeStays ==
    ASSUME InOrderEvents, TypeOK, TypeOK', LogInOrder',
           log' = log \/ (\E q \in Partitions : Produce(q)),
           NEW p \in Partitions, NEW w \in Windows, Over(p, w)
    PROVE  Over(p, w)' /\ Whole(p, w)' = Whole(p, w)
<1> DEFINE last == Len(log[p]) - 1
<1>1. /\ Len(log[p]) \in Nat /\ Len(log'[p]) \in Nat /\ Len(log[p]) <= Len(log'[p])
      /\ Len(log[p]) > 0 /\ w < WinOf(p, last) /\ last \in 0 .. Len(log[p]) - 1
      /\ w \in Nat
  BY LogFacts, LogGrows, WindowsAreNat DEF Over
<1>2. log'[p][last + 1] = log[p][last + 1] /\ WinOf(p, last) \in Nat
  BY <1>1, LogFacts, LogGrows
<1>3. ASSUME NEW n \in 0 .. Len(log'[p]) - 1, last <= n
      PROVE  w < Win(log'[p][n + 1])
  <2>1. last + 1 \in 1 .. Len(log'[p]) /\ n + 1 \in 1 .. Len(log'[p]) /\ last + 1 <= n + 1
    BY <1>1, <1>3
  <2>2. log'[p] \in Seq(Stamps)
    BY DEF TypeOK
  <2>3. log'[p][last + 1] \in Stamps /\ log'[p][n + 1] \in Stamps
    BY <2>1, <2>2
  <2>4. log'[p][last + 1] <= log'[p][n + 1]
    BY <2>1 DEF LogInOrder
  <2>5. Win(log'[p][last + 1]) <= Win(log'[p][n + 1]) /\ Win(log'[p][n + 1]) \in Int
    BY <2>3, <2>4, StampFacts, WinFacts
  <2> QED BY <1>1, <1>2, <2>5 DEF WinOf
<1>4. Over(p, w)'
  <2>1. Len(log'[p]) - 1 \in 0 .. Len(log'[p]) - 1 /\ last <= Len(log'[p]) - 1
    BY <1>1
  <2>2. w < Win(log'[p][(Len(log'[p]) - 1) + 1])
    BY <1>3, <2>1
  <2>3. Len(log'[p]) > 0
    BY <1>1
  <2> QED BY <2>2, <2>3 DEF Over, WinOf
<1>5. ASSUME NEW o \in Messages PROVE Belongs(p, o, w)' <=> Belongs(p, o, w)
  <2>1. o \in Nat
    BY MessagesAssumption
  <2>2. CASE o < Len(log[p])
    <3>1. o \in 0 .. Len(log[p]) - 1
      BY <1>1, <2>1, <2>2
    <3> QED BY <3>1, WinOfStays
  <2>3. CASE ~(o < Len(log[p]))
    <3>1. ~Belongs(p, o, w)
      BY <2>3 DEF Belongs
    <3>2. ASSUME o < Len(log'[p]) PROVE w # Win(log'[p][o + 1])
      <4>1. o \in 0 .. Len(log'[p]) - 1 /\ last <= o
        BY <1>1, <2>1, <2>3, <3>2
      <4>2. w < Win(log'[p][o + 1])
        BY <1>3, <4>1
      <4> QED BY <1>1, <4>2
    <3> QED BY <3>1, <3>2 DEF Belongs
  <2> QED BY <2>2, <2>3
<1> QED BY <1>4, <1>5 DEF Whole

-----------------------------------------------------------------------------
(* Steps that add no message                                               *)

(* What such a step does to a partition's part of the memory: it stays,    *)
(* but for the offsets that a commit releases, or it is that of a process  *)
(* that is about to begin at the start of a window.                        *)
Stays(p) ==
    /\ mgr'[p] = mgr[p]
    /\ pos'[p] = pos[p]
    /\ pending'[p] \in {pending[p], Tracker!Released(pending[p], mgr[p].emitted)}
IsNew(p) ==
    /\ mgr'[p] = NewManager
    /\ pending'[p] = Tracker!NoPending
    /\ StartsWindow(p, pos[p])'

Quiet ==
    /\ log' = log \/ (\E q \in Partitions : Produce(q))
    /\ store' = store \/ SliceReachesRedis
    /\ \A p \in Partitions : /\ closing'[p] \in {closing[p], NoClosing}
                             /\ Stays(p) \/ IsNew(p)

LEMMA ReleasedNone ==
    ASSUME NEW through
    PROVE  Tracker!Released(Tracker!NoPending, through) = Tracker!NoPending
BY DEF Tracker!Released, Tracker!NoPending, Tracker!Done

LEMMA QuietBegins ==
    ASSUME InOrderEvents, OInv, TypeOK', Quiet
    PROVE  BeginsAtWindow'
<1>0. TypeOK
  BY DEF OInv, TInv
<1> SUFFICES ASSUME NEW p \in Partitions, mgr'[p].emitted = None
             PROVE  /\ mgr'[p] = NewManager
                    /\ pending'[p] = Tracker!NoPending
                    /\ StartsWindow(p, pos[p])'
  BY DEF BeginsAtWindow
<1>1. CASE Stays(p)
  <2>1. /\ mgr[p] = NewManager /\ pending[p] = Tracker!NoPending
        /\ StartsWindow(p, pos[p]) /\ pos[p] \in Nat
    BY <1>0, <1>1 DEF Stays, OInv, BeginsAtWindow, TypeOK
  <2>2. pending'[p] = Tracker!NoPending
    BY <1>1, <2>1, ReleasedNone DEF Stays
  <2>3. pos'[p] = pos[p] /\ mgr'[p] = mgr[p]
    BY <1>1 DEF Stays
  <2>4. \A c \in Nat : StartsWindow(p, c) => StartsWindow(p, c)'
    BY <1>0, StartsWindowStays DEF Quiet
  <2> QED BY <2>1, <2>2, <2>3, <2>4 DEF StartsWindow, WinOf
<1>2. CASE IsNew(p)
  BY <1>2 DEF IsNew
<1> QED BY <1>1, <1>2 DEF Quiet

LEMMA QuietOpen ==
    ASSUME InOrderEvents, OInv, TypeOK', Quiet
    PROVE  OpenIsSoFar'
<1>0. TypeOK
  BY DEF OInv, TInv
<1> SUFFICES ASSUME NEW p \in Partitions, mgr'[p].emitted # None
             PROVE  /\ pos'[p] > 0
                    /\ mgr'[p].maxTs = log'[p][pos'[p]]
                    /\ mgr'[p].emitted < Win(log'[p][(pos'[p] - 1) + 1])
                    /\ \A w \in Windows :
                         w > mgr'[p].emitted => mgr'[p].windows[w] = SoFar(p, w)'
  BY DEF OpenIsSoFar, WinOf
<1>1. mgr'[p] = mgr[p] /\ pos'[p] = pos[p]
  BY DEF Quiet, Stays, IsNew, NewManager
<1>2. /\ pos[p] > 0
      /\ mgr[p].maxTs = log[p][pos[p]]
      /\ mgr[p].emitted < WinOf(p, pos[p] - 1)
      /\ \A w \in Windows : w > mgr[p].emitted => mgr[p].windows[w] = SoFar(p, w)
  BY <1>1 DEF OInv, OpenIsSoFar
<1>3. pos[p] \in Nat /\ Len(log[p]) \in Nat /\ pos[p] <= Len(log[p])
  BY <1>0, LogFacts
<1>4. pos[p] - 1 \in 0 .. Len(log[p]) - 1 /\ (pos[p] - 1) + 1 = pos[p]
  BY <1>2, <1>3
<1>5. log'[p][(pos[p] - 1) + 1] = log[p][(pos[p] - 1) + 1]
  BY <1>0, <1>4, LogGrows DEF Quiet
<1>6. \A w \in Windows : SoFar(p, w)' = SoFar(p, w)
  <2>1. ASSUME NEW o \in Messages, o < pos[p], NEW w \in Windows
        PROVE  Belongs(p, o, w)' <=> Belongs(p, o, w)
    <3>1. o \in 0 .. Len(log[p]) - 1
      BY <1>3, <2>1, MessagesAssumption
    <3> QED BY <1>0, <3>1, WinOfStays DEF Quiet
  <2> QED BY <1>1, <2>1 DEF SoFar
<1> QED BY <1>1, <1>2, <1>4, <1>5, <1>6 DEF WinOf

LEMMA QuietPending ==
    ASSUME InOrderEvents, OInv, TypeOK', Quiet
    PROVE  PendingIsComplete'
<1>0. TypeOK
  BY DEF OInv, TInv
<1> SUFFICES ASSUME NEW p \in Partitions, NEW w \in Windows, pending'[p][w] # -1
             PROVE  /\ Belongs(p, pending[p][w], w)'
                    /\ \A o \in 0 .. pos'[p] - 1 :
                         w <= WinOf(p, o)' => pending'[p][WinOf(p, o)'] >= o
  BY DEF PendingIsComplete
<1>1. ~IsNew(p)
  BY DEF IsNew, Tracker!NoPending
<1>2. /\ pos'[p] = pos[p]
      /\ pending'[p] \in {pending[p], Tracker!Released(pending[p], mgr[p].emitted)}
      /\ pending[p] \in Tracker!Pending
      /\ \A v \in Windows : pending[p][v] < pos[p]
  BY <1>0, <1>1 DEF Quiet, Stays, TypeOK, OInv, TInv, PendingBelowPosition
<1>3. /\ pending'[p][w] = pending[p][w]
      /\ \A v \in Windows : w <= v => pending'[p][v] = pending[p][v]
  <2>1. CASE pending'[p] = pending[p]
    BY <2>1
  <2>2. CASE pending'[p] = Tracker!Released(pending[p], mgr[p].emitted)
    <3>1. pending'[p][w] = pending[p][w] /\ ~(w <= mgr[p].emitted)
      BY <2>2 DEF Tracker!Released, Tracker!Done
    <3>2. mgr[p].emitted \in Int
      <4>1. mgr[p].emitted # None
        BY <2>2, ReleasedNone DEF OInv, BeginsAtWindow, Tracker!NoPending
      <4> QED BY <1>0, <4>1 DEF TypeOK, Managers
    <3>3. ASSUME NEW v \in Windows, w <= v PROVE ~(v <= mgr[p].emitted)
      BY <3>1, <3>2, <3>3, WindowsAreNat
    <3> QED BY <2>2, <3>1, <3>3 DEF Tracker!Released, Tracker!Done
  <2> QED BY <1>2, <2>1, <2>2
<1>4. /\ Belongs(p, pending[p][w], w)
      /\ \A o \in 0 .. pos[p] - 1 : w <= WinOf(p, o) => pending[p][WinOf(p, o)] >= o
  BY <1>3 DEF OInv, PendingIsComplete
<1>5. pos[p] \in Nat /\ Len(log[p]) \in Nat /\ pos[p] <= Len(log[p])
  BY <1>0, LogFacts
<1>6. pending[p][w] \in 0 .. Len(log[p]) - 1
  BY <1>2, <1>3, <1>5 DEF Tracker!Pending
<1>7. Belongs(p, pending[p][w], w)'
  <2>1. \A o \in 0 .. Len(log[p]) - 1 : Belongs(p, o, w)' <=> Belongs(p, o, w)
    BY <1>0, WinOfStays DEF Quiet
  <2> QED BY <1>3, <1>4, <1>6, <2>1 DEF Belongs
<1>8. ASSUME NEW o \in 0 .. pos'[p] - 1, w <= WinOf(p, o)'
      PROVE  pending'[p][WinOf(p, o)'] >= o
  <2>1. o \in 0 .. pos[p] - 1 /\ o \in 0 .. Len(log[p]) - 1
    BY <1>2, <1>5
  <2>2. WinOf(p, o)' = WinOf(p, o) /\ WinOf(p, o) \in Windows
    BY <1>0, <2>1, WinOfStays, LogFacts DEF Quiet
  <2> QED BY <1>3, <1>4, <1>8, <2>1, <2>2
<1> QED BY <1>7, <1>8

LEMMA QuietWhole ==
    ASSUME InOrderEvents, OInv, TypeOK', LogInOrder', Quiet
    PROVE  ShownIsWhole' /\ ClosingIsWhole'
<1>0. TypeOK
  BY DEF OInv, TInv
<1> SUFFICES ASSUME NEW p \in Partitions, NEW w \in Windows
             PROVE  /\ store'.slices[w][p] # None =>
                          Over(p, w)' /\ store'.slices[w][p] = Whole(p, w)'
                    /\ w \in closing'[p].windows =>
                          Over(p, w)' /\ closing'[p].slices[w] = Whole(p, w)'
  BY DEF ShownIsWhole, ClosingIsWhole
<1>1. Over(p, w) => Over(p, w)' /\ Whole(p, w)' = Whole(p, w)
  BY <1>0, WholeStays DEF Quiet
<1>2. /\ store.slices[w][p] # None => Over(p, w) /\ store.slices[w][p] = Whole(p, w)
      /\ w \in closing[p].windows => Over(p, w) /\ closing[p].slices[w] = Whole(p, w)
  BY DEF OInv, ShownIsWhole, ClosingIsWhole
<1>3. \/ store'.slices[w][p] = None
      \/ store'.slices[w][p] = store.slices[w][p]
      \/ w \in closing[p].windows /\ store'.slices[w][p] = closing[p].slices[w]
  BY WrittenSlices DEF SliceReachesRedis, Quiet
<1>4. w \in closing'[p].windows => closing'[p] = closing[p]
  BY DEF Quiet, NoClosing
<1> QED BY <1>1, <1>2, <1>3, <1>4

LEMMA QuietOInv ==
    ASSUME InOrderEvents, OInv, TInv', CommitsWholeWindows', Quiet
    PROVE  OInv'
<1>1. TypeOK /\ TypeOK'
  BY DEF OInv, TInv
<1>2. LogInOrder'
  <2>1. CASE log' = log
    BY <2>1 DEF OInv, LogInOrder
  <2>2. CASE \E q \in Partitions : Produce(q)
    BY <1>1, <2>2, ProduceInOrder DEF OInv
  <2> QED BY <2>1, <2>2 DEF Quiet
<1> QED BY <1>1, <1>2, QuietBegins, QuietOpen, QuietPending, QuietWhole DEF OInv

-----------------------------------------------------------------------------
(* Adding a message                                                        *)

(* A message comes in time, its stamp is the new watermark, and it is      *)
(* recorded as the last of its window.                                     *)
LEMMA AddInOrder ==
    ASSUME InOrderEvents, OInv, NEW p \in Partitions, AddMessage(p)
    PROVE  /\ pos[p] \in 0 .. Len(log[p]) - 1
           /\ mgr'[p] = [mgr[p] EXCEPT
                !.maxTs = log[p][pos[p] + 1],
                !.emitted = Origin(mgr[p], log[p][pos[p] + 1]),
                !.windows[WinOf(p, pos[p])][pos[p]] = @ + 1]
           /\ pending' = [pending EXCEPT ![p] =
                Tracker!Record(@, pos[p], WinOf(p, pos[p]))]
           /\ pos' = [pos EXCEPT ![p] = pos[p] + 1]
           /\ mgr[p].emitted # None => mgr[p].emitted < WinOf(p, pos[p])
<1> DEFINE m == pos[p]
           ts == log[p][m + 1]
<1>0. TypeOK
  BY DEF OInv, TInv
<1>1. m \in 0 .. Len(log[p]) - 1
  BY <1>0, LogFacts DEF AddMessage
<1>2. ts \in Stamps /\ ts \in Int /\ Timestamp(ts) = ts /\ WinOf(p, m) = Win(ts)
      /\ WinOf(p, m) \in Nat
  BY <1>0, <1>1, LogFacts, StampFacts DEF WinOf
<1>3. mgr[p] \in Managers
  BY <1>0 DEF TypeOK
<1>4. ASSUME mgr[p].emitted # None
      PROVE  /\ mgr[p].emitted < WinOf(p, m)
             /\ mgr[p].maxTs \in Int /\ mgr[p].maxTs <= ts
  <2>1. /\ m > 0 /\ mgr[p].maxTs = log[p][m] /\ mgr[p].emitted < WinOf(p, m - 1)
        /\ mgr[p].emitted \in Int
    BY <1>3, <1>4 DEF OInv, OpenIsSoFar, Managers
  <2>2. /\ m - 1 \in 0 .. Len(log[p]) - 1 /\ m - 1 <= m /\ (m - 1) + 1 = m
        /\ m \in 1 .. Len(log[p]) /\ m + 1 \in 1 .. Len(log[p])
    BY <1>0, <1>1, <2>1, LogFacts
  <2>3. WinOf(p, m - 1) <= WinOf(p, m) /\ WinOf(p, m - 1) \in Nat
    <3> HIDE DEF m
    <3> QED BY <1>0, <1>1, <2>2, WindowsInOrder, LogFacts DEF OInv
  <2>4. log[p][m] <= log[p][m + 1]
    BY <2>2 DEF OInv, LogInOrder
  <2>5. log[p][m] \in Int
    <3>1. log[p][(m - 1) + 1] \in Int
      BY <1>0, <2>2, LogFacts
    <3> QED BY <2>2, <3>1
  <2> QED BY <1>2, <2>1, <2>3, <2>4, <2>5
<1>5. ~IsLate(mgr[p], ts)
  <2>1. CASE mgr[p].emitted = None
    BY <2>1 DEF IsLate
  <2>2. CASE mgr[p].emitted # None
    <3>1. mgr[p].emitted \in Int
      BY <1>3, <2>2 DEF Managers
    <3> QED BY <1>2, <1>4, <2>2, <3>1 DEF IsLate
  <2> QED BY <2>1, <2>2
<1>6. Watermark(mgr[p], ts) = ts
  <2>1. CASE mgr[p].emitted = None
    BY <2>1 DEF OInv, BeginsAtWindow, NewManager, Watermark
  <2>2. CASE mgr[p].emitted # None
    BY <1>2, <1>4, <2>2 DEF Watermark
  <2> QED BY <2>1, <2>2
<1>7. /\ mgr' = [mgr EXCEPT ![p] = Add(@, m, ts)]
      /\ pending' = [pending EXCEPT ![p] = Tracker!Record(@, m, Win(ts))]
      /\ pos' = [pos EXCEPT ![p] = m + 1]
  BY <1>2, <1>5 DEF AddMessage
<1>8. Add(mgr[p], m, ts) = [mgr[p] EXCEPT !.maxTs = ts, !.emitted = Origin(mgr[p], ts),
                                          !.windows[Win(ts)][m] = @ + 1]
  BY <1>5, <1>6 DEF Add
<1>9. mgr'[p] = Add(mgr[p], m, ts)
  BY <1>0, <1>7 DEF TypeOK
<1> HIDE DEF m, ts
<1> QED BY <1>1, <1>2, <1>4, <1>7, <1>8, <1>9 DEF m, ts

LEMMA AddOpen ==
    ASSUME InOrderEvents, OInv, NEW p \in Partitions, AddMessage(p)
    PROVE  OpenIsSoFar' /\ BeginsAtWindow'
<1> DEFINE m == pos[p]
           ts == log[p][m + 1]
           W == WinOf(p, m)
<1>0. TypeOK /\ log' = log /\ mgr[p] \in Managers
  BY DEF OInv, TInv, AddMessage, TypeOK
<1>1. /\ m \in 0 .. Len(log[p]) - 1 /\ m \in Messages
      /\ pos' = [pos EXCEPT ![p] = m + 1]
      /\ mgr[p].emitted # None => mgr[p].emitted < W
      /\ W \in Windows /\ W \in Nat /\ W = Win(ts)
  BY <1>0, AddInOrder, LogFacts DEF WinOf
<1>2. \A q \in Partitions : q # p => /\ mgr'[q] = mgr[q] /\ pos'[q] = pos[q]
                                     /\ pending'[q] = pending[q]
  BY <1>0 DEF AddMessage, TypeOK
<1>3. /\ mgr'[p].maxTs = ts
      /\ mgr'[p].emitted = Origin(mgr[p], ts)
      /\ mgr'[p].windows = [mgr[p].windows EXCEPT ![W][m] = @ + 1]
      /\ pos'[p] = m + 1
  <2>1. mgr'[p] = [mgr[p] EXCEPT !.maxTs = ts, !.emitted = Origin(mgr[p], ts),
                                 !.windows[W][m] = @ + 1]
    BY AddInOrder
  <2>2. pos'[p] = m + 1
    BY <1>0, <1>1 DEF TypeOK
  <2> HIDE DEF m, ts, W
  <2> QED BY <1>0, <2>1, <2>2 DEF Managers
<1>4. mgr'[p].emitted \in Int /\ mgr'[p].emitted # None /\ mgr'[p].emitted < W
  <2>1. \A e \in Int : e # None
    BY NoneAssumption
  <2>2. Origin(mgr[p], ts) = IF mgr[p].emitted = None THEN W - 1 ELSE mgr[p].emitted
    BY <1>1 DEF Origin
  <2>3. mgr[p].emitted = None \/ (mgr[p].emitted \in Int /\ mgr[p].emitted < W)
    BY <1>0, <1>1 DEF Managers
  <2> HIDE DEF m, ts, W
  <2> QED BY <1>1, <1>3, <2>1, <2>2, <2>3
<1>5. ASSUME NEW w \in Windows, w > mgr'[p].emitted
      PROVE  mgr'[p].windows[w] = SoFar(p, w)'
  <2>1. SoFar(p, w)' = [o \in Messages |-> IF o < m + 1 /\ Belongs(p, o, w) THEN 1 ELSE 0]
    BY <1>0, <1>3 DEF SoFar, Belongs
  <2>2. /\ mgr[p].windows[w] \in Bags
        /\ mgr'[p].windows[w] = IF w = W THEN [mgr[p].windows[w] EXCEPT ![m] = @ + 1]
                                ELSE mgr[p].windows[w]
    <3> HIDE DEF m, W
    <3>1. mgr[p].windows \in [Windows -> Bags]
      BY <1>0 DEF Managers
    <3> QED BY <1>3, <3>1
  <2>3. mgr[p].windows[w] = SoFar(p, w)
    <3>1. CASE mgr[p].emitted # None
      <4>1. mgr[p].emitted = mgr'[p].emitted
        BY <1>3, <3>1 DEF Origin
      <4> QED BY <1>5, <3>1, <4>1 DEF OInv, OpenIsSoFar
    <3>2. CASE mgr[p].emitted = None
      <4>1. mgr[p] = NewManager /\ StartsWindow(p, m)
        BY <3>2 DEF OInv, BeginsAtWindow
      <4>2. mgr[p].windows[w] = NoEvents
        BY <4>1 DEF NewManager
      <4>3. W <= w /\ w \in Nat
        <5>1. mgr'[p].emitted = W - 1 /\ w \in Nat
          BY <1>1, <1>3, <3>2, WindowsAreNat DEF Origin
        <5> QED BY <1>1, <1>5, <5>1
      <4>4. ASSUME NEW o \in Messages, o < m PROVE ~Belongs(p, o, w)
        <5>1. /\ o \in 0 .. Len(log[p]) - 1 /\ m - 1 \in 0 .. Len(log[p]) - 1
              /\ o <= m - 1 /\ m > 0
          BY <1>0, <1>1, <4>4, MessagesAssumption, LogFacts
        <5>2. WinOf(p, o) <= WinOf(p, m - 1) /\ WinOf(p, m - 1) < W
              /\ WinOf(p, o) \in Nat /\ WinOf(p, m - 1) \in Nat
          BY <1>0, <4>1, <5>1, WindowsInOrder, LogFacts DEF StartsWindow, OInv
        <5>3. WinOf(p, o) # w
          BY <1>1, <4>3, <5>2
        <5> QED BY <5>3 DEF Belongs, WinOf
      <4> HIDE DEF m
      <4> QED BY <4>2, <4>4 DEF SoFar, NoEvents, m
    <3> QED BY <3>1, <3>2
  <2>4. Belongs(p, m, w) <=> w = W
    <3>1. m < Len(log[p])
      BY <1>0, <1>1, LogFacts
    <3> QED BY <3>1 DEF Belongs, WinOf
  <2>5. \A o \in Messages : (o < m + 1) <=> (o < m \/ o = m)
    <3>1. m \in Nat
      BY <1>0, LogFacts
    <3> QED BY <3>1, MessagesAssumption
  <2>6. ~(m < m) /\ SoFar(p, w)[m] = 0
    BY <1>1 DEF SoFar
  <2>7. \A o \in Messages : mgr'[p].windows[w][o] =
           IF o < m + 1 /\ Belongs(p, o, w) THEN 1 ELSE 0
    <3> SUFFICES ASSUME NEW o \in Messages
                 PROVE  mgr'[p].windows[w][o] =
                          IF o < m + 1 /\ Belongs(p, o, w) THEN 1 ELSE 0
      OBVIOUS
    <3> HIDE DEF m, W
    <3>1. CASE o = m
      <4>1. mgr'[p].windows[w][m] = IF w = W THEN mgr[p].windows[w][m] + 1
                                    ELSE mgr[p].windows[w][m]
        BY <1>1, <2>2 DEF Bags
      <4>2. mgr[p].windows[w][m] = 0
        BY <2>3, <2>6
      <4>3. m < m + 1
        BY <1>1
      <4> QED BY <2>4, <3>1, <4>1, <4>2, <4>3
    <3>2. CASE o # m
      <4>1. mgr'[p].windows[w][o] = mgr[p].windows[w][o]
        BY <2>2, <3>2 DEF Bags
      <4>2. SoFar(p, w)[o] = IF o < m /\ Belongs(p, o, w) THEN 1 ELSE 0
        BY DEF SoFar, m
      <4> QED BY <2>3, <2>5, <3>2, <4>1, <4>2
    <3> QED BY <3>1, <3>2
  <2>8. mgr'[p].windows[w] \in Bags
    <3> HIDE DEF m, W
    <3>1. mgr[p].windows[w] \in [Messages -> Nat]
      BY <2>2 DEF Bags
    <3>2. CASE w = W
      <4>1. mgr'[p].windows[w] = [mgr[p].windows[w] EXCEPT ![m] = @ + 1]
        BY <2>2, <3>2
      <4> QED BY <3>1, <4>1, OneMoreIsABag DEF Bags
    <3>3. CASE w # W
      BY <2>2, <3>3
    <3> QED BY <3>2, <3>3
  <2> QED BY <2>1, <2>7, <2>8 DEF Bags
<1>6. OpenIsSoFar'
  <2> SUFFICES ASSUME NEW q \in Partitions, mgr'[q].emitted # None
               PROVE  /\ pos'[q] > 0
                      /\ mgr'[q].maxTs = log[q][pos'[q]]
                      /\ mgr'[q].emitted < Win(log[q][(pos'[q] - 1) + 1])
                      /\ \A w \in Windows :
                            w > mgr'[q].emitted => mgr'[q].windows[w] = SoFar(q, w)'
    BY <1>0 DEF OpenIsSoFar, WinOf
  <2>1. CASE q = p
    <3>1. pos'[p] > 0 /\ (pos'[p] - 1) + 1 = m + 1
      <4>1. m \in Nat
        BY <1>0 DEF TypeOK
      <4>2. pos'[p] = m + 1
        BY <1>3
      <4> HIDE DEF m
      <4> QED BY <4>1, <4>2
    <3> QED BY <1>1, <1>3, <1>4, <1>5, <2>1, <3>1
  <2>2. CASE q # p
    <3>1. \A w \in Windows : SoFar(q, w)' = SoFar(q, w)
      BY <1>0, <1>2, <2>2 DEF SoFar, Belongs
    <3> QED BY <1>2, <2>2, <3>1 DEF OInv, OpenIsSoFar, WinOf
  <2> QED BY <2>1, <2>2
<1>7. BeginsAtWindow'
  <2> SUFFICES ASSUME NEW q \in Partitions, mgr'[q].emitted = None
               PROVE  /\ mgr'[q] = NewManager /\ pending'[q] = Tracker!NoPending
                      /\ StartsWindow(q, pos[q])'
    BY DEF BeginsAtWindow
  <2>1. q # p
    BY <1>4
  <2> QED BY <1>0, <1>2, <2>1 DEF OInv, BeginsAtWindow, StartsWindow, WinOf
<1> QED BY <1>6, <1>7

LEMMA AddPending ==
    ASSUME InOrderEvents, OInv, NEW p \in Partitions, AddMessage(p)
    PROVE  PendingIsComplete'
<1> DEFINE m == pos[p]
           W == WinOf(p, m)
<1>0. TypeOK /\ log' = log /\ pending[p] \in Tracker!Pending /\ pos \in [Partitions -> Nat]
      /\ pending \in [Partitions -> Tracker!Pending]
  BY DEF OInv, TInv, AddMessage, TypeOK
<1>1. /\ m \in 0 .. Len(log[p]) - 1 /\ m \in Messages /\ m \in Nat
      /\ pos'[p] = m + 1
      /\ W \in Windows /\ W \in Nat
      /\ pending'[p] = Tracker!Record(pending[p], m, W)
  <2>1. /\ m \in 0 .. Len(log[p]) - 1
        /\ pos' = [pos EXCEPT ![p] = m + 1]
        /\ pending' = [pending EXCEPT ![p] = Tracker!Record(@, m, W)]
    BY AddInOrder
  <2>2. m \in Messages /\ m \in Nat /\ W \in Windows /\ W \in Nat
    BY <1>0, <2>1, LogFacts
  <2> HIDE DEF m, W
  <2> QED BY <1>0, <2>1, <2>2
<1>2. \A v \in Windows : pending[p][v] < m /\ pending[p][v] \in Int
  BY <1>0 DEF OInv, TInv, PendingBelowPosition, Tracker!Pending
<1>3. /\ pending'[p][W] = m
      /\ \A v \in Windows : v # W => pending'[p][v] = pending[p][v]
  BY <1>0, <1>1, <1>2 DEF Tracker!Record, Tracker!Pending
<1>4. ASSUME NEW w \in Windows, pending'[p][w] # -1
      PROVE  /\ Belongs(p, pending'[p][w], w)
             /\ \A o \in 0 .. m : w <= WinOf(p, o) => pending'[p][WinOf(p, o)] >= o
  <2>1. Belongs(p, m, W)
    BY <1>0, <1>1, LogFacts DEF Belongs, WinOf
  <2>2. ASSUME NEW o \in 0 .. m
        PROVE  WinOf(p, o) <= W /\ WinOf(p, o) \in Nat /\ WinOf(p, o) \in Windows
    <3>1. o \in 0 .. Len(log[p]) - 1 /\ o <= m
      BY <1>0, <1>1, LogFacts
    <3> QED BY <1>0, <1>1, <3>1, WindowsInOrder, LogFacts DEF OInv
  <2>3. CASE w = W
    <3>1. \A o \in 0 .. m : W <= WinOf(p, o) => WinOf(p, o) = W /\ m >= o
      BY <1>1, <2>2
    <3> QED BY <1>3, <2>1, <2>3, <3>1
  <2>4. CASE w # W
    <3>1. /\ Belongs(p, pending[p][w], w) /\ pending'[p][w] = pending[p][w]
          /\ \A o \in 0 .. m - 1 : w <= WinOf(p, o) => pending[p][WinOf(p, o)] >= o
      BY <1>3, <1>4, <2>4 DEF OInv, PendingIsComplete
    <3>2. ASSUME NEW o \in 0 .. m, w <= WinOf(p, o) PROVE pending'[p][WinOf(p, o)] >= o
      <4>1. CASE WinOf(p, o) = W
        BY <1>1, <1>3, <4>1
      <4>2. CASE WinOf(p, o) # W
        <5>1. o # m /\ o \in 0 .. m - 1
          BY <1>1, <4>2
        <5> QED BY <1>3, <2>2, <3>1, <3>2, <4>2, <5>1
      <4> QED BY <4>1, <4>2
    <3> QED BY <3>1, <3>2
  <2> QED BY <2>3, <2>4
<1> SUFFICES ASSUME NEW q \in Partitions, NEW w \in Windows, pending'[q][w] # -1
             PROVE  /\ Belongs(q, pending'[q][w], w)
                    /\ \A o \in 0 .. pos'[q] - 1 :
                          w <= WinOf(q, o) => pending'[q][WinOf(q, o)] >= o
  BY <1>0 DEF PendingIsComplete, Belongs, WinOf
<1>5. CASE q = p
  <2>1. pos'[p] - 1 = m
    BY <1>1
  <2> QED BY <1>4, <1>5, <2>1
<1>6. CASE q # p
  <2>1. pos'[q] = pos[q] /\ pending'[q] = pending[q]
    BY <1>0, <1>6 DEF AddMessage
  <2> QED BY <2>1 DEF OInv, PendingIsComplete
<1> QED BY <1>5, <1>6

LEMMA AddOInv ==
    ASSUME InOrderEvents, OInv, NEW p \in Partitions, AddMessage(p)
    PROVE  OInv'
<1>1. UNCHANGED <<log, committed, store, closing>>
  BY DEF AddMessage
<1>2. TInv'
  BY AddTInv DEF OInv
<1>3. LogInOrder' /\ CommitsWholeWindows' /\ ShownIsWhole' /\ ClosingIsWhole'
  BY <1>1 DEF OInv, LogInOrder, CommitsWholeWindows, ShownIsWhole, ClosingIsWhole,
              StartsWindow, Over, Whole, Belongs, WinOf
<1> QED BY <1>2, <1>3, AddOpen, AddPending DEF OInv

-----------------------------------------------------------------------------
(* Closing and committing windows                                          *)

(* What closes is behind the last message added, so nothing of it is still *)
(* to come.                                                                *)
LEMMA ClosesWhole ==
    ASSUME InOrderEvents, OInv, NEW p \in Partitions, ClosesNow(p)
    PROVE  /\ mgr[p] \in Managers /\ Clock(p) \in Int /\ Closes(mgr[p], Clock(p))
           /\ mgr[p].emitted # None
           /\ NewestClosed(Clock(p)) \in Int
           /\ NewestClosed(Clock(p)) < WinOf(p, pos[p] - 1)
           /\ \A w \in Windows : w \in Popped(mgr[p], Clock(p)) =>
                 Over(p, w) /\ mgr[p].windows[w] = Whole(p, w)
<1> DEFINE last == Len(log[p]) - 1
<1>0. TypeOK
  BY DEF OInv, TInv
<1>1. mgr[p] \in Managers /\ Clock(p) \in Int /\ Closes(mgr[p], Clock(p))
  BY <1>0, ClockType
<1>2. /\ mgr[p].emitted \in Int /\ NewestClosed(Clock(p)) \in Int
      /\ Resume(mgr[p], Clock(p)) \in Int
      /\ mgr[p].emitted <= Resume(mgr[p], Clock(p))
  BY <1>1, ResumeBounds
<1>3. /\ mgr[p].emitted # None /\ pos[p] > 0 /\ mgr[p].maxTs = log[p][pos[p]]
      /\ \A w \in Windows : w > mgr[p].emitted => mgr[p].windows[w] = SoFar(p, w)
  BY <1>2, NoneAssumption DEF OInv, OpenIsSoFar
<1>4. /\ Len(log[p]) \in Nat /\ pos[p] \in Nat /\ pos[p] <= Len(log[p])
      /\ pos[p] - 1 \in 0 .. Len(log[p]) - 1 /\ (pos[p] - 1) + 1 = pos[p]
      /\ last \in 0 .. Len(log[p]) - 1 /\ Len(log[p]) > 0
  BY <1>0, <1>3, LogFacts
<1>5. Clock(p) = log[p][(pos[p] - 1) + 1]
  BY <1>3, <1>4 DEF Clock, InOrderEvents
<1>6. NewestClosed(Clock(p)) < WinOf(p, pos[p] - 1) /\ WinOf(p, pos[p] - 1) \in Nat
  <2>1. Clock(p) - Grace \in Int /\ Clock(p) - Grace <= Clock(p)
    BY <1>1, GraceAssumption
  <2>2. Win(Clock(p) - Grace) <= Win(Clock(p)) /\ Win(Clock(p) - Grace) \in Int
        /\ Win(Clock(p)) \in Int
    BY <1>1, <2>1, WinFacts
  <2>3. Win(Clock(p)) = WinOf(p, pos[p] - 1)
    BY <1>5 DEF WinOf
  <2> QED BY <1>0, <1>4, <2>2, <2>3, LogFacts DEF NewestClosed
<1>7. ASSUME NEW w \in Windows, w \in Popped(mgr[p], Clock(p))
      PROVE  Over(p, w) /\ mgr[p].windows[w] = Whole(p, w)
  <2>1. w \in Nat /\ mgr[p].emitted < w /\ w < WinOf(p, pos[p] - 1)
    BY <1>2, <1>6, <1>7, WindowsAreNat DEF Popped
  <2>2. ASSUME NEW o \in 0 .. Len(log[p]) - 1, pos[p] <= o PROVE w < WinOf(p, o)
    <3>1. WinOf(p, pos[p] - 1) <= WinOf(p, o) /\ WinOf(p, o) \in Nat
      <4>1. pos[p] - 1 <= o
        BY <1>4, <2>2
      <4> QED BY <1>0, <1>4, <4>1, WindowsInOrder, LogFacts DEF OInv
    <3> QED BY <1>6, <2>1, <3>1
  <2>3. Over(p, w)
    <3>1. CASE pos[p] <= last
      BY <1>4, <2>2, <3>1 DEF Over
    <3>2. CASE ~(pos[p] <= last)
      <4>1. last = pos[p] - 1
        BY <1>4, <3>2
      <4> QED BY <1>4, <2>1, <4>1 DEF Over
    <3> QED BY <3>1, <3>2
  <2>4. ASSUME NEW o \in Messages, Belongs(p, o, w) PROVE o < pos[p]
    <3>1. o \in 0 .. Len(log[p]) - 1 /\ WinOf(p, o) = w /\ o \in Nat
      BY <1>4, <2>4, MessagesAssumption DEF Belongs, WinOf
    <3> QED BY <1>4, <2>1, <2>2, <3>1
  <2>5. SoFar(p, w) = Whole(p, w)
    BY <2>4 DEF SoFar, Whole
  <2> QED BY <1>3, <2>1, <2>3, <2>5
<1> QED BY <1>1, <1>2, <1>3, <1>6, <1>7

LEMMA FlushOInv ==
    ASSUME InOrderEvents, OInv, Flush
    PROVE  OInv'
<1>0. /\ TypeOK /\ TInv' /\ UNCHANGED <<log, committed, store, pos, pending>>
  BY FlushTInv DEF OInv, TInv, Flush
<1>1. ASSUME NEW p \in Partitions, ClosesNow(p)
      PROVE  /\ mgr'[p].emitted = NewestClosed(Clock(p))
             /\ mgr'[p].maxTs = mgr[p].maxTs
             /\ \A w \in Windows :
                   w > NewestClosed(Clock(p)) => mgr'[p].windows[w] = mgr[p].windows[w]
             /\ closing'[p].windows = Popped(mgr[p], Clock(p))
             /\ \A w \in Windows : w \in Popped(mgr[p], Clock(p)) =>
                   closing'[p].slices[w] = mgr[p].windows[w]
  <2>1. mgr'[p] = PopClosed(mgr[p], Clock(p))
        /\ closing'[p].windows = Popped(mgr[p], Clock(p))
        /\ closing'[p].slices = Summaries(mgr[p], Clock(p))
    BY <1>1 DEF Flush
  <2>2. mgr[p] \in Managers /\ NewestClosed(Clock(p)) \in Int
    BY <1>1, ClosesWhole
  <2>3. \A w \in Windows : w \in Popped(mgr[p], Clock(p)) =>
           closing'[p].slices[w] = mgr[p].windows[w]
    BY <2>1 DEF Summaries
  <2>4. /\ mgr'[p].emitted = NewestClosed(Clock(p)) /\ mgr'[p].maxTs = mgr[p].maxTs
        /\ mgr'[p].windows = [w \in Windows |->
              IF w <= NewestClosed(Clock(p)) THEN NoEvents ELSE mgr[p].windows[w]]
    BY <2>1, <2>2 DEF PopClosed, Managers
  <2>5. \A w \in Windows : w > NewestClosed(Clock(p)) => ~(w <= NewestClosed(Clock(p)))
    BY <2>2, WindowsAreNat
  <2> QED BY <2>1, <2>3, <2>4, <2>5
<1>2. ASSUME NEW p \in Partitions, ~ClosesNow(p)
      PROVE  mgr'[p] = mgr[p] /\ closing'[p].windows = {}
  BY <1>2 DEF Flush, NoClosing
<1>3. BeginsAtWindow'
  <2> SUFFICES ASSUME NEW p \in Partitions, mgr'[p].emitted = None
               PROVE  /\ mgr'[p] = NewManager /\ pending[p] = Tracker!NoPending
                      /\ StartsWindow(p, pos[p])'
    BY <1>0 DEF BeginsAtWindow
  <2>1. ~ClosesNow(p)
    BY <1>1, ClosesWhole, NoneAssumption
  <2> QED BY <1>0, <1>2, <2>1 DEF OInv, BeginsAtWindow, StartsWindow, WinOf
<1>4. OpenIsSoFar'
  <2> SUFFICES ASSUME NEW p \in Partitions, mgr'[p].emitted # None
               PROVE  /\ pos[p] > 0
                      /\ mgr'[p].maxTs = log[p][pos[p]]
                      /\ mgr'[p].emitted < WinOf(p, pos[p] - 1)
                      /\ \A w \in Windows :
                            w > mgr'[p].emitted => mgr'[p].windows[w] = SoFar(p, w)
    BY <1>0 DEF OpenIsSoFar, WinOf, SoFar, Belongs
  <2>1. CASE ClosesNow(p)
    <3>1. /\ mgr[p].emitted # None /\ mgr[p].emitted \in Int
          /\ NewestClosed(Clock(p)) \in Int
          /\ NewestClosed(Clock(p)) < WinOf(p, pos[p] - 1)
          /\ mgr[p].emitted < NewestClosed(Clock(p))
      BY <2>1, ClosesWhole, ResumeBounds DEF Closes
    <3>2. \A w \in Windows : w > NewestClosed(Clock(p)) => w > mgr[p].emitted
      BY <3>1, WindowsAreNat
    <3> QED BY <1>1, <2>1, <3>1, <3>2 DEF OInv, OpenIsSoFar
  <2>2. CASE ~ClosesNow(p)
    BY <1>2, <2>2 DEF OInv, OpenIsSoFar
  <2> QED BY <2>1, <2>2
<1>5. ClosingIsWhole'
  <2> SUFFICES ASSUME NEW p \in Partitions, NEW w \in Windows, w \in closing'[p].windows
               PROVE  Over(p, w) /\ closing'[p].slices[w] = Whole(p, w)
    BY <1>0 DEF ClosingIsWhole, Over, Whole, Belongs, WinOf
  <2> QED BY <1>1, <1>2, ClosesWhole
<1>6. LogInOrder' /\ CommitsWholeWindows' /\ ShownIsWhole' /\ PendingIsComplete'
  BY <1>0 DEF OInv, LogInOrder, CommitsWholeWindows, ShownIsWhole, PendingIsComplete,
              StartsWindow, Over, Whole, Belongs, WinOf
<1> QED BY <1>0, <1>3, <1>4, <1>5, <1>6 DEF OInv

(* The offset that a commit releases is the first of an open window.       *)
LEMMA ReleaseStartsWindow ==
    ASSUME InOrderEvents, OInv, NEW p \in Partitions, Release(p) # None
    PROVE  Release(p) \in Nat /\ StartsWindow(p, Release(p))
<1> DEFINE done == Tracker!Done(pending[p], mgr[p].emitted)
<1>0. TypeOK /\ pending[p] \in Tracker!Pending /\ pos[p] \in Nat /\ mgr[p] \in Managers
  BY DEF OInv, TInv, TypeOK
<1>1. Release(p) = Tracker!SafeOffset(pending[p], mgr[p].emitted)
  BY DEF Release
<1>2. PICK w \in done : /\ pending[p][w] \in Nat
                        /\ Release(p) = pending[p][w] + 1
                        /\ \A u \in done : pending[p][u] <= pending[p][w]
  <2>1. \A u \in Windows : pending[p][u] < pos[p]
    BY DEF OInv, TInv, PendingBelowPosition
  <2> HIDE DEF done
  <2> QED BY <1>0, <1>1, <2>1, SafeOffsetFacts DEF done
<1> DEFINE h == pending[p][w]
           o == h + 1
<1>3. w \in Windows /\ h # -1 /\ w <= mgr[p].emitted /\ h \in Nat /\ w \in Nat
  BY <1>2, WindowsAreNat DEF Tracker!Done
<1>4. mgr[p].emitted # None /\ mgr[p].emitted \in Int
  <2>1. mgr[p].emitted # None
    BY <1>3 DEF OInv, BeginsAtWindow, Tracker!NoPending
  <2> QED BY <1>0, <2>1 DEF Managers
<1>5. /\ pos[p] > 0 /\ mgr[p].emitted < WinOf(p, pos[p] - 1)
      /\ Belongs(p, h, w)
      /\ \A n \in 0 .. pos[p] - 1 : w <= WinOf(p, n) => pending[p][WinOf(p, n)] >= n
      /\ h < pos[p]
  BY <1>3, <1>4 DEF OInv, OpenIsSoFar, PendingIsComplete, TInv, PendingBelowPosition
<1>6. h # pos[p] - 1
  <2>1. WinOf(p, h) = w
    BY <1>5 DEF Belongs, WinOf
  <2>2. WinOf(p, pos[p] - 1) \in Nat
    <3>1. pos[p] - 1 \in 0 .. Len(log[p]) - 1
      BY <1>0, <1>5, LogFacts
    <3> QED BY <1>0, <3>1, LogFacts
  <2> QED BY <1>3, <1>4, <1>5, <2>1, <2>2
<1>7. /\ o \in 0 .. pos[p] - 1 /\ o \in 0 .. Len(log[p]) - 1 /\ h \in 0 .. Len(log[p]) - 1
      /\ o < Len(log[p]) /\ o - 1 = h /\ h <= o /\ o \in Nat
  <2>1. Len(log[p]) \in Nat /\ pos[p] <= Len(log[p])
    BY <1>0, LogFacts
  <2> HIDE DEF h
  <2> QED BY <1>0, <1>3, <1>5, <1>6, <2>1
<1>8. /\ WinOf(p, h) = w /\ w <= WinOf(p, o)
      /\ WinOf(p, o) \in Windows /\ WinOf(p, o) \in Nat
  <2>1. WinOf(p, h) = w
    BY <1>5 DEF Belongs, WinOf
  <2> HIDE DEF h, o
  <2> QED BY <1>0, <1>7, <2>1, WindowsInOrder, LogFacts DEF OInv
<1>9. w < WinOf(p, o)
  <2>1. pending[p][WinOf(p, o)] >= o
    BY <1>5, <1>7, <1>8
  <2>2. WinOf(p, o) \notin done
    <3>1. pending[p][WinOf(p, o)] \in Int
      BY <1>0, <1>8 DEF Tracker!Pending
    <3>2. ~(pending[p][WinOf(p, o)] <= h)
      <4> HIDE DEF h
      <4> QED BY <1>3, <2>1, <3>1
    <3> QED BY <1>2, <3>2
  <2>3. w # WinOf(p, o)
    BY <1>2, <2>2
  <2> QED BY <1>3, <1>8, <2>3
<1> HIDE DEF h, o
<1>10. Release(p) = o
  BY <1>2 DEF o, h
<1> QED BY <1>7, <1>8, <1>9, <1>10 DEF StartsWindow

LEMMA CommitForWhole ==
    ASSUME InOrderEvents, OInv, NEW done \in SUBSET Partitions,
           log' = log, committed' = CommitFor(done)
    PROVE  CommitsWholeWindows'
<1> SUFFICES ASSUME NEW p \in Partitions
             PROVE  committed'[p] \in Nat /\ StartsWindow(p, committed[p])'
  BY DEF CommitsWholeWindows
<1>1. committed'[p] \in Nat /\ StartsWindow(p, committed'[p])
  <2>1. committed'[p] = IF p \in done /\ Release(p) # None THEN Release(p) ELSE committed[p]
    BY DEF CommitFor
  <2> QED BY <2>1, ReleaseStartsWindow DEF OInv, CommitsWholeWindows
<1> QED BY <1>1 DEF StartsWindow, WinOf

-----------------------------------------------------------------------------
(* All the steps                                                           *)

LEMMA InitOInv == InOrderEvents /\ InitialCommit = 0 /\ Init => OInv
<1> SUFFICES ASSUME InOrderEvents, InitialCommit = 0, Init PROVE OInv
  OBVIOUS
<1>1. \A p \in Partitions : /\ committed[p] = 0 /\ pos[p] = 0 /\ log[p] = <<>>
                            /\ mgr[p] = NewManager /\ closing[p] = NoClosing
                            /\ pending[p] = Tracker!NoPending
                            /\ \A w \in Windows : store.slices[w][p] = None
  BY DEF Init, Redis!EmptyStore, Redis!NoHash
<1>2. LogInOrder
  BY <1>1 DEF LogInOrder
<1>3. CommitsWholeWindows /\ BeginsAtWindow
  BY <1>1 DEF CommitsWholeWindows, BeginsAtWindow, StartsWindow
<1>4. OpenIsSoFar /\ PendingIsComplete
  BY <1>1 DEF OpenIsSoFar, PendingIsComplete, NewManager, Tracker!NoPending
<1>5. ShownIsWhole /\ ClosingIsWhole
  BY <1>1 DEF ShownIsWhole, ClosingIsWhole, NoClosing
<1> QED BY <1>2, <1>3, <1>4, <1>5, InitTInv DEF OInv

LEMMA DieIsNew ==
    ASSUME Die, NEW p \in Partitions
    PROVE  IsNew(p) /\ closing'[p] = NoClosing
BY DEF Die, IsNew, StartsWindow

LEMMA EndOInv ==
    ASSUME InOrderEvents, OInv, WriteFails \/ CommitFails \/ Crash \/ Shutdown
    PROVE  OInv'
<1>1. /\ TInv' /\ Die /\ log' = log
      /\ store' = store \/ SliceReachesRedis
  BY EndTInv DEF OInv, WriteFails, CommitFails, Crash, Shutdown
<1>2. Quiet
  BY <1>1, DieIsNew DEF Quiet
<1>3. CommitsWholeWindows'
  <2>1. CASE CommitFails
    BY <1>1, <2>1, CommitForWhole DEF CommitFails
  <2>2. CASE WriteFails \/ Crash \/ Shutdown
    BY <1>1, <2>2 DEF WriteFails, Crash, Shutdown, OInv, CommitsWholeWindows,
                      StartsWindow, WinOf
  <2> QED BY <2>1, <2>2
<1> QED BY <1>1, <1>2, <1>3, QuietOInv

LEMMA StartOInv ==
    ASSUME InOrderEvents, OInv, Start
    PROVE  OInv'
<1>1. /\ TInv' /\ UNCHANGED <<log, committed, store, mgr, pending, closing>>
      /\ pc = "down" /\ pos' = [p \in Partitions |-> StartPosition(p)]
  BY StartTInv DEF OInv, Start
<1>2. ASSUME NEW p \in Partitions PROVE IsNew(p)
  <2>1. committed[p] \in Nat /\ committed[p] # None /\ StartsWindow(p, committed[p])
    BY NoneAssumption DEF OInv, CommitsWholeWindows
  <2>2. pos'[p] = committed[p]
    BY <1>1, <2>1 DEF StartPosition
  <2>3. mgr'[p] = NewManager /\ pending'[p] = Tracker!NoPending
    BY <1>1 DEF OInv, TInv, DownIsEmpty
  <2> QED BY <1>1, <2>1, <2>2, <2>3 DEF IsNew, StartsWindow, WinOf
<1>3. Quiet
  BY <1>1, <1>2 DEF Quiet
<1>4. CommitsWholeWindows'
  BY <1>1 DEF OInv, CommitsWholeWindows, StartsWindow, WinOf
<1> QED BY <1>1, <1>3, <1>4, QuietOInv

LEMMA CommitOInv ==
    ASSUME InOrderEvents, OInv, Commit
    PROVE  OInv'
<1>1. TInv' /\ UNCHANGED <<log, store, mgr, pos>>
  BY CommitTInv DEF OInv, Commit
<1>2. Quiet
  BY <1>1 DEF Quiet, Commit, Stays
<1>3. CommitsWholeWindows'
  BY <1>1, CommitForWhole DEF Commit
<1> QED BY <1>1, <1>2, <1>3, QuietOInv

LEMMA OtherOInv ==
    ASSUME InOrderEvents, OInv,
           \/ UNCHANGED vars \/ Tick \/ (\E p \in Partitions : Produce(p)) \/ Poll
           \/ FlushNothing \/ Write
    PROVE  OInv'
<1>1. TInv' /\ TypeOK
  <2>1. [Next]_vars
    BY DEF Next
  <2> QED BY <2>1, NextTInv DEF OInv, TInv
<1>2. /\ UNCHANGED <<committed, mgr, pos, pending, closing>>
      /\ log' = log \/ (\E q \in Partitions : Produce(q))
      /\ store' = store \/ SliceReachesRedis
  BY DEF vars, memory, Tick, Produce, Poll, FlushNothing, Write
<1>3. Quiet
  BY <1>2 DEF Quiet, Stays
<1>4. CommitsWholeWindows'
  <2> SUFFICES ASSUME NEW p \in Partitions
               PROVE  committed[p] \in Nat /\ StartsWindow(p, committed[p])'
    BY <1>2 DEF CommitsWholeWindows
  <2>1. committed[p] \in Nat /\ StartsWindow(p, committed[p])
    BY DEF OInv, CommitsWholeWindows
  <2>2. \A c \in Nat : StartsWindow(p, c) => StartsWindow(p, c)'
    BY <1>1, <1>2, StartsWindowStays
  <2> QED BY <1>2, <2>1, <2>2 DEF StartsWindow, WinOf
<1> QED BY <1>1, <1>3, <1>4, QuietOInv

LEMMA NextOInv == InOrderEvents /\ OInv /\ [Next]_vars => OInv'
<1> SUFFICES ASSUME InOrderEvents, OInv, [Next]_vars PROVE OInv'
  OBVIOUS
<1>1. CASE \E p \in Partitions : AddMessage(p)
  BY <1>1, AddOInv
<1> QED BY <1>1, FlushOInv, EndOInv, StartOInv, CommitOInv, OtherOInv DEF Next

LEMMA OInvFinal ==
    OInv /\ [Next]_vars =>
        \A w \in Windows, p \in Partitions :
            store.slices[w][p] # None => store'.slices[w][p] \in {store.slices[w][p], None}
<1> SUFFICES ASSUME OInv, [Next]_vars, NEW w \in Windows, NEW p \in Partitions,
                    store.slices[w][p] # None
             PROVE  store'.slices[w][p] \in {store.slices[w][p], None}
  OBVIOUS
<1>1. store' = store \/ SliceReachesRedis
  BY DEF Next, vars, Tick, Produce, Start, Poll, AddMessage, FlushNothing, Flush, Write,
         WriteFails, Commit, CommitFails, Crash, Shutdown
<1>2. store.slices[w][p] = Whole(p, w)
  BY DEF OInv, ShownIsWhole
<1>3. w \in closing[p].windows => closing[p].slices[w] = Whole(p, w)
  BY DEF OInv, ClosingIsWhole
<1> QED BY <1>1, <1>2, <1>3, WrittenSlices DEF SliceReachesRedis

(* In event mode, for messages that carry their time and come in its order *)
(* and a group with a committed offset, a slice in Redis never changes: a  *)
(* replay writes what was there.                                           *)
THEOREM InOrderSlicesAreFinal ==
    ASSUME TimeSource = "event", Stamps \subseteq 1 .. MaxTime, Disorder = 0,
           InitialCommit = 0
    PROVE  Spec => SlicesAreFinal
<1>0. InOrderEvents
  BY DEF InOrderEvents
<1>1. Spec => []OInv
  <2>1. Init => OInv
    BY <1>0, InitOInv
  <2>2. OInv /\ [Next]_vars => OInv'
    BY <1>0, NextOInv
  <2> QED BY <2>1, <2>2, PTL DEF Spec
<1>2. OInv /\ [Next]_vars =>
        [\A w \in Windows, p \in Partitions :
            store.slices[w][p] # None =>
                store'.slices[w][p] \in {store.slices[w][p], None}]_vars
  BY OInvFinal
<1> QED BY <1>1, <1>2, PTL DEF Spec, SlicesAreFinal

-----------------------------------------------------------------------------
(* What arrival mode promises holds for messages in order too              *)

LEMMA EventsInOrder ==
    ASSUME InOrderEvents, OInv, BInv, NEW p \in Partitions, AddMessage(p)
    PROVE  AddsInOrder(p)
<1> DEFINE m == pos[p]
           ts == log[p][m + 1]
<1>0. TypeOK /\ mgr[p] \in Managers /\ pending[p] \in Tracker!Pending
  BY DEF OInv, TInv, TypeOK
<1>1. /\ m \in 0 .. Len(log[p]) - 1
      /\ mgr[p].emitted # None => mgr[p].emitted < WinOf(p, m)
  BY AddInOrder
<1>2. ts \in Stamps /\ Timestamp(ts) = ts /\ WinOf(p, m) = Win(ts) /\ WinOf(p, m) \in Nat
  BY <1>0, <1>1, LogFacts, StampFacts DEF WinOf
<1>3. ~IsLate(mgr[p], ts)
  BY <1>0, <1>1, <1>2 DEF IsLate, Managers
<1>4. ASSUME NEW w \in Windows, NEW o \in Nat, o < m, Belongs(p, o, w)
      PROVE  w <= Win(ts)
  <2>1. o \in 0 .. Len(log[p]) - 1 /\ o <= m /\ WinOf(p, o) = w
    BY <1>1, <1>4 DEF Belongs, WinOf
  <2> HIDE DEF m, ts
  <2> QED BY <1>0, <1>1, <1>2, <2>1, WindowsInOrder DEF OInv
<1>5. ASSUME NEW w \in Windows, pending[p][w] # -1
      PROVE  pending[p][w] \in Nat /\ pending[p][w] < m /\ Belongs(p, pending[p][w], w)
  BY <1>0, <1>5 DEF Tracker!Pending, OInv, TInv, PendingBelowPosition, PendingIsComplete
<1>6. ASSUME NEW w \in Windows, NEW o \in Messages, mgr[p].windows[w][o] > 0
      PROVE  o \in Nat /\ o < m /\ Belongs(p, o, w)
  <2>1. mgr[p].emitted # None /\ mgr[p].emitted < w /\ o < m
    BY <1>6 DEF BInv, OpenAboveReleasable
  <2>2. w > mgr[p].emitted
    BY <1>0, <2>1, WindowsAreNat DEF Managers
  <2>3. mgr[p].windows[w] = SoFar(p, w)
    BY <2>1, <2>2 DEF OInv, OpenIsSoFar
  <2> QED BY <1>6, <2>1, <2>3, MessagesAssumption DEF SoFar
<1>7. ASSUME NEW w \in Windows, Reached(p, w) PROVE w <= Win(ts)
  BY <1>4, <1>5, <1>6, <1>7 DEF Reached
<1> QED BY <1>2, <1>3, <1>7 DEF AddsInOrder

LEMMA InOrderSInv ==
    ASSUME InOrderEvents, InitialCommit = 0
    PROVE  Spec => [](OInv /\ SInv)
<1>1. Init => OInv /\ SInv
  BY InitOInv, InitSInv
<1>2. OInv /\ SInv /\ [Next]_vars => OInv' /\ SInv'
  <2> SUFFICES ASSUME OInv, SInv, [Next]_vars PROVE OInv' /\ SInv'
    OBVIOUS
  <2>1. \A p \in Partitions : AddMessage(p) => AddsInOrder(p)
    BY EventsInOrder DEF SInv
  <2> QED BY <2>1, NextOInv, NextSInv
<1> QED BY <1>1, <1>2, PTL DEF Spec

(* In event mode, for messages that carry their time and come in its order *)
(* and a group with a committed offset, no offset is committed while its   *)
(* message is only in memory.                                              *)
THEOREM InOrderOffsetsWithheld ==
    ASSUME TimeSource = "event", Stamps \subseteq 1 .. MaxTime, Disorder = 0,
           InitialCommit = 0
    PROVE  Spec => []WithheldUntilWritten
<1>1. InOrderEvents
  BY DEF InOrderEvents
<1>2. SInv => WithheldUntilWritten
  BY BInvWithheld DEF SInv
<1> QED BY <1>1, <1>2, InOrderSInv, PTL

(* Under the same conditions no message the position has passed is ever    *)
(* unaccounted for, whatever crashes.                                      *)
THEOREM InOrderNotSkipped ==
    ASSUME TimeSource = "event", Stamps \subseteq 1 .. MaxTime, Disorder = 0,
           InitialCommit = 0
    PROVE  Spec => []NothingSkipped
<1>1. InOrderEvents
  BY DEF InOrderEvents
<1> QED BY <1>1, InOrderSInv, SInvNotSkipped, PTL

(* Under the same conditions the aggregator implements CommitAfterWrite in *)
(* event mode as well.                                                     *)
THEOREM InOrderImplementsCommitAfterWrite ==
    ASSUME TimeSource = "event", Stamps \subseteq 1 .. MaxTime, Disorder = 0,
           InitialCommit = 0
    PROVE  Spec => ImplementsCommitAfterWrite
<1>1. InOrderEvents
  BY DEF InOrderEvents
<1>2. Init => Abstract!Init
  BY InitRefines
<1>3. SInv /\ [Next]_vars => [Abstract!Next]_(Abstract!vars)
  BY StepRefines DEF AbstractNext
<1> QED BY <1>1, <1>2, <1>3, InOrderSInv, PTL
        DEF Spec, ImplementsCommitAfterWrite, Abstract!Spec
=============================================================================
