------------------------- MODULE WindowManagerProofs -------------------------
(***************************************************************************)
(* Proofs that a WindowManager loses no event, counts none twice and       *)
(* summarises no window twice, for every window size, grace, gap limit,    *)
(* set of messages and sequence of calls.                                  *)
(***************************************************************************)
EXTENDS WindowManager, WindowingProofs

(* Once windows are emitted, none up to the last of them is summarised     *)
(* again or open: what EmittedAtMostOnce needs to be inductive.            *)
EmittedAreBehind ==
    \A w \in Windows :
        times[w] > 0 => mgr.emitted # None /\ w <= mgr.emitted

IInv ==
    /\ TypeOK
    /\ Conservation
    /\ OpenAheadOfEmitted
    /\ EmittedAreBehind
    /\ EmittedAtMostOnce

LEMMA InitIInv == Init => IInv
<1> SUFFICES ASSUME Init PROVE IInv
  OBVIOUS
<1>1. TypeOK
  BY NewManagerType, NoEventsType DEF Init, TypeOK, NewManager
<1>2. Conservation
  BY DEF Init, Conservation, NewManager, NoEvents
<1>3. OpenAheadOfEmitted /\ EmittedAreBehind /\ EmittedAtMostOnce
  BY DEF Init, OpenAheadOfEmitted, EmittedAreBehind, EmittedAtMostOnce, NewManager
<1> QED BY <1>1, <1>2, <1>3 DEF IInv

LEMMA AddPreserves ==
    ASSUME IInv, NEW m \in Messages, NEW ts \in 0 .. MaxTime, AddEvent(m, ts)
    PROVE  IInv'
<1> DEFINE w == Win(ts)
<1>1. w \in Windows /\ w \in Nat
  BY WinFacts, WindowsAreNat, MaxTimeAssumption
<1>2. /\ mgr \in Managers
      /\ fed \in [Windows -> Bags]
      /\ emission \in [Windows -> Bags]
      /\ times \in [Windows -> Nat]
      /\ mgr' = Add(mgr, m, ts)
      /\ fed' = [fed EXCEPT ![w][m] = @ + 1]
      /\ emission' = emission /\ times' = times
  BY DEF IInv, TypeOK, AddEvent
<1>3. TypeOK'
  <2>1. mgr' \in Managers
    BY <1>2, AddType
  <2>2. fed' \in [Windows -> Bags]
    BY <1>1, <1>2 DEF Bags
  <2>3. mgr'.emitted # None => mgr'.emitted >= -1
    BY <1>1, <1>2 DEF Add, Origin, Managers, IInv, TypeOK
  <2>4. origin' \in Int \cup {None}
    BY <1>1 DEF AddEvent, IInv, TypeOK
  <2> QED BY <1>2, <2>1, <2>2, <2>3, <2>4 DEF TypeOK
<1>4. CASE IsLate(mgr, ts)
  <2>1. /\ mgr'.windows = mgr.windows
        /\ mgr'.emitted = mgr.emitted
        /\ mgr'.late = [mgr.late EXCEPT ![w][m] = @ + 1]
    BY <1>2, <1>4 DEF Add, Managers
  <2>2. Conservation'
    <3> SUFFICES ASSUME NEW v \in Windows, NEW k \in Messages
                 PROVE  fed'[v][k] = mgr'.windows[v][k] + emission'[v][k] + mgr'.late[v][k]
      BY DEF Conservation
    <3>1. /\ fed[v][k] = mgr.windows[v][k] + emission[v][k] + mgr.late[v][k]
          /\ fed[v][k] \in Nat /\ mgr.windows[v][k] \in Nat
          /\ emission[v][k] \in Nat /\ mgr.late[v][k] \in Nat
      BY <1>2 DEF IInv, Conservation, Managers, Bags
    <3>2. CASE v = w /\ k = m
      BY <1>1, <1>2, <2>1, <3>1, <3>2 DEF Managers, Bags
    <3>3. CASE ~(v = w /\ k = m)
      BY <1>1, <1>2, <2>1, <3>1, <3>3 DEF Managers, Bags
    <3> QED BY <3>2, <3>3
  <2>3. (OpenAheadOfEmitted /\ EmittedAreBehind /\ EmittedAtMostOnce)'
    BY <1>2, <2>1 DEF IInv, OpenAheadOfEmitted, EmittedAreBehind, EmittedAtMostOnce
  <2> QED BY <1>3, <2>2, <2>3 DEF IInv
<1>5. CASE ~IsLate(mgr, ts)
  <2>1. /\ mgr'.windows = [mgr.windows EXCEPT ![w][m] = @ + 1]
        /\ mgr'.emitted = Origin(mgr, ts)
        /\ mgr'.late = mgr.late
    BY <1>2, <1>5 DEF Add, Managers
  <2>2. Conservation'
    <3> SUFFICES ASSUME NEW v \in Windows, NEW k \in Messages
                 PROVE  fed'[v][k] = mgr'.windows[v][k] + emission'[v][k] + mgr'.late[v][k]
      BY DEF Conservation
    <3>1. /\ fed[v][k] = mgr.windows[v][k] + emission[v][k] + mgr.late[v][k]
          /\ fed[v][k] \in Nat /\ mgr.windows[v][k] \in Nat
          /\ emission[v][k] \in Nat /\ mgr.late[v][k] \in Nat
      BY <1>2 DEF IInv, Conservation, Managers, Bags
    <3>2. CASE v = w /\ k = m
      BY <1>1, <1>2, <2>1, <3>1, <3>2 DEF Managers, Bags
    <3>3. CASE ~(v = w /\ k = m)
      BY <1>1, <1>2, <2>1, <3>1, <3>3 DEF Managers, Bags
    <3> QED BY <3>2, <3>3
  <2>3. /\ Origin(mgr, ts) \in Int
        /\ Origin(mgr, ts) < w
        /\ mgr.emitted # None => Origin(mgr, ts) = mgr.emitted
    BY <1>1, <1>2, <1>5, NoneAssumption DEF Origin, IsLate, Managers
  <2>4. OpenAheadOfEmitted'
    <3> SUFFICES ASSUME NEW v \in Windows, mgr'.windows[v] # NoEvents
                 PROVE  mgr'.emitted # None /\ v > mgr'.emitted
      BY DEF OpenAheadOfEmitted
    <3>1. CASE v = w
      BY <1>1, <2>1, <2>3, <3>1, NoneAssumption
    <3>2. CASE v # w
      <4>1. mgr.windows[v] # NoEvents
        BY <1>2, <2>1, <3>2 DEF Managers, Bags
      <4> QED BY <2>1, <2>3, <4>1 DEF IInv, OpenAheadOfEmitted
    <3> QED BY <3>1, <3>2
  <2>5. EmittedAreBehind' /\ EmittedAtMostOnce'
    BY <1>2, <2>1, <2>3 DEF IInv, EmittedAreBehind, EmittedAtMostOnce
  <2> QED BY <1>3, <2>2, <2>4, <2>5 DEF IInv
<1> QED BY <1>4, <1>5

LEMMA PopPreserves ==
    ASSUME IInv, NEW clock \in 0 .. MaxTime, Pop(clock)
    PROVE  IInv'
<1> DEFINE newest == NewestClosed(clock)
           resume == Resume(mgr, clock)
<1>1. /\ mgr \in Managers
      /\ emission \in [Windows -> Bags]
      /\ times \in [Windows -> Nat]
      /\ clock \in Int
      /\ Closes(mgr, clock)
      /\ mgr' = PopClosed(mgr, clock)
      /\ fed' = fed /\ origin' = origin
  BY MaxTimeAssumption DEF IInv, TypeOK, Pop
<1>2. /\ mgr.emitted \in Int /\ newest \in Int /\ resume \in Int
      /\ mgr.emitted <= resume /\ resume < newest
  BY <1>1, ResumeBounds
<1>3. /\ mgr'.emitted = newest
      /\ \A w \in Windows : mgr'.windows[w] = IF w <= newest THEN NoEvents ELSE mgr.windows[w]
      /\ \A w \in Windows, m \in Messages :
            mgr'.late[w][m] = mgr.late[w][m] + Dropped(mgr, clock)[w][m]
  BY <1>1 DEF PopClosed, Managers
<1>4. /\ \A w \in Windows, m \in Messages :
            emission'[w][m] = emission[w][m] + Summaries(mgr, clock)[w][m]
      /\ \A w \in Windows :
            times'[w] = IF w \in Popped(mgr, clock) THEN times[w] + 1 ELSE times[w]
  BY DEF Pop
<1>5. TypeOK'
  <2>1. mgr' \in Managers
    BY <1>1, PopClosedType
  <2>2. emission' \in [Windows -> Bags]
    <3>1. Summaries(mgr, clock) \in [Windows -> Bags]
      BY <1>1, SummariesType
    <3> QED BY <1>1, <3>1 DEF Pop, Bags
  <2>3. times' \in [Windows -> Nat]
    BY <1>1 DEF Pop
  <2>4. mgr'.emitted >= -1
    BY <1>2, <1>3, NoneAssumption DEF IInv, TypeOK
  <2> QED BY <1>1, <2>1, <2>2, <2>3, <2>4 DEF IInv, TypeOK
<1>6. Conservation'
  <2> SUFFICES ASSUME NEW w \in Windows, NEW m \in Messages
               PROVE  fed[w][m] = mgr'.windows[w][m] + emission'[w][m] + mgr'.late[w][m]
    BY <1>1 DEF Conservation
  <2>1. /\ w \in Int
        /\ mgr.windows[w][m] \in Nat /\ emission[w][m] \in Nat /\ mgr.late[w][m] \in Nat
        /\ fed[w][m] = mgr.windows[w][m] + emission[w][m] + mgr.late[w][m]
        /\ NoEvents[m] = 0
    BY <1>1, WindowsAreNat DEF IInv, Conservation, Managers, Bags, NoEvents
  <2>2. CASE w > newest
    <3>1. Summaries(mgr, clock)[w][m] = 0 /\ Dropped(mgr, clock)[w][m] = 0
      BY <1>2, <2>1, <2>2 DEF Summaries, Dropped, Popped
    <3> QED BY <1>2, <1>3, <1>4, <2>1, <2>2, <3>1
  <2>3. CASE w <= newest /\ w > resume
    <3>1. Summaries(mgr, clock)[w][m] = mgr.windows[w][m] /\ Dropped(mgr, clock)[w][m] = 0
      BY <1>2, <2>1, <2>3 DEF Summaries, Dropped, Popped
    <3> QED BY <1>2, <1>3, <1>4, <2>1, <2>3, <3>1
  <2>4. CASE w <= resume
    <3>1. Summaries(mgr, clock)[w][m] = 0 /\ Dropped(mgr, clock)[w][m] = mgr.windows[w][m]
      BY <1>2, <2>1, <2>4 DEF Summaries, Dropped, Popped
    <3> QED BY <1>2, <1>3, <1>4, <2>1, <2>4, <3>1
  <2> QED BY <1>2, <2>1, <2>2, <2>3, <2>4
<1>7. OpenAheadOfEmitted'
  <2> SUFFICES ASSUME NEW w \in Windows, mgr'.windows[w] # NoEvents
               PROVE  w > mgr'.emitted
    BY <1>2, <1>3, NoneAssumption DEF OpenAheadOfEmitted
  <2> QED BY <1>2, <1>3, WindowsAreNat
<1>8. EmittedAreBehind'
  <2> SUFFICES ASSUME NEW w \in Windows, times'[w] > 0
               PROVE  w <= newest
    BY <1>2, <1>3, NoneAssumption DEF EmittedAreBehind
  <2>1. CASE w \in Popped(mgr, clock)
    BY <1>2, <2>1 DEF Popped
  <2>2. CASE w \notin Popped(mgr, clock)
    <3>1. w <= mgr.emitted
      BY <1>4, <2>2 DEF IInv, EmittedAreBehind
    <3> QED BY <1>2, <3>1, WindowsAreNat
  <2> QED BY <2>1, <2>2
<1>9. EmittedAtMostOnce'
  <2> SUFFICES ASSUME NEW w \in Windows
               PROVE  times'[w] <= 1
    BY DEF EmittedAtMostOnce
  <2>1. CASE w \in Popped(mgr, clock)
    <3>1. w \in Int /\ w > mgr.emitted
      BY <1>2, <2>1 DEF Popped
    <3>2. times[w] = 0
      BY <1>1, <1>2, <3>1 DEF IInv, EmittedAreBehind
    <3> QED BY <1>4, <2>1, <3>2
  <2>2. CASE w \notin Popped(mgr, clock)
    BY <1>4, <2>2 DEF IInv, EmittedAtMostOnce
  <2> QED BY <2>1, <2>2
<1> QED BY <1>5, <1>6, <1>7, <1>8, <1>9 DEF IInv

LEMMA NextIInv == IInv /\ [Next]_vars => IInv'
<1> SUFFICES ASSUME IInv, [Next]_vars PROVE IInv'
  OBVIOUS
<1>1. CASE \E m \in Messages, ts \in 0 .. MaxTime : AddEvent(m, ts)
  BY <1>1, AddPreserves
<1>2. CASE \E clock \in 0 .. MaxTime : Pop(clock)
  BY <1>2, PopPreserves
<1>3. CASE UNCHANGED vars
  BY <1>3 DEF vars, IInv, TypeOK, Conservation, OpenAheadOfEmitted,
              EmittedAreBehind, EmittedAtMostOnce
<1> QED BY <1>1, <1>2, <1>3 DEF Next

LEMMA Invariance == Spec => []IInv
BY InitIInv, NextIInv, PTL DEF Spec

(* The manager's record is always well formed.                             *)
THEOREM ManagerTypeCorrect == Spec => []TypeOK
<1>1. IInv => TypeOK
  BY DEF IInv
<1> QED BY <1>1, Invariance, PTL

(* No event given to a manager is ever lost without trace or counted       *)
(* twice.                                                                  *)
THEOREM ManagerConserves == Spec => []Conservation
<1>1. IInv => Conservation
  BY DEF IInv
<1> QED BY <1>1, Invariance, PTL

(* A manager summarises no window twice, whatever its clock does.          *)
THEOREM ManagerEmitsOnce == Spec => []EmittedAtMostOnce
<1>1. IInv => EmittedAtMostOnce
  BY DEF IInv
<1> QED BY <1>1, Invariance, PTL

(* A manager never holds a window open that it will not look at again.     *)
THEOREM ManagerLooksAhead == Spec => []OpenAheadOfEmitted
<1>1. IInv => OpenAheadOfEmitted
  BY DEF IInv
<1> QED BY <1>1, Invariance, PTL

-----------------------------------------------------------------------------
(* Gaps                                                                    *)

(* Emission starts from the origin, and stays within the windows there     *)
(* are: what GapFree needs to speak of windows only.                       *)
OriginFits ==
    IF mgr.emitted = None THEN origin = None
    ELSE origin \in Int /\ -1 <= origin /\ mgr.emitted <= Win(MaxTime)

LEMMA EmittedWindow ==
    IInv /\ OriginFits /\ mgr.emitted # None =>
        /\ origin \in Int /\ mgr.emitted \in Int
        /\ origin + 1 .. mgr.emitted \subseteq Windows
<1> SUFFICES ASSUME IInv, OriginFits, mgr.emitted # None
             PROVE  /\ origin \in Int /\ mgr.emitted \in Int
                    /\ origin + 1 .. mgr.emitted \subseteq Windows
  OBVIOUS
<1>1. /\ origin \in Int /\ -1 <= origin /\ mgr.emitted <= Win(MaxTime)
      /\ mgr.emitted \in Int /\ Win(MaxTime) \in Int
  BY WinFacts, MaxTimeAssumption DEF OriginFits, IInv, TypeOK, Managers
<1> QED BY <1>1 DEF Windows

LEMMA InitGaps == Init => OriginFits /\ GapFree
BY DEF Init, NewManager, OriginFits, GapFree

LEMMA AddGaps ==
    ASSUME IInv, OriginFits, GapFree,
           NEW m \in Messages, NEW ts \in 0 .. MaxTime, AddEvent(m, ts)
    PROVE  OriginFits' /\ GapFree'
<1>1. /\ Win(ts) \in Int /\ 0 <= Win(ts) /\ Win(ts) <= Win(MaxTime) /\ Win(MaxTime) \in Int
      /\ mgr \in Managers /\ times' = times
      /\ origin' = IF origin = None THEN Win(ts) - 1 ELSE origin
  BY WinFacts, MaxTimeAssumption DEF Windows, AddEvent, IInv, TypeOK
<1>2. mgr'.emitted = IF mgr.emitted = None THEN Win(ts) - 1 ELSE mgr.emitted
  BY <1>1 DEF AddEvent, Add, Origin, IsLate, Managers
<1>3. CASE mgr.emitted = None
  <2>1. mgr'.emitted = origin' /\ origin' \in Int /\ -1 <= origin' /\ origin' <= Win(MaxTime)
    BY <1>1, <1>2, <1>3 DEF OriginFits
  <2>2. origin' + 1 .. mgr'.emitted = {}
    <3>1. \A x \in Int : x + 1 .. x = {}
      OBVIOUS
    <3> QED BY <2>1, <3>1, Zenon
  <2>3. GapFree'
    BY <2>2 DEF GapFree
  <2> QED BY <2>1, <2>3, NoneAssumption DEF OriginFits
<1>4. CASE mgr.emitted # None
  <2>1. mgr'.emitted = mgr.emitted /\ origin' = origin
    BY <1>1, <1>2, <1>4, NoneAssumption DEF OriginFits
  <2> QED BY <1>1, <2>1 DEF OriginFits, GapFree, Emitted
<1> QED BY <1>3, <1>4

(* A call that emits either continues after the last window emitted, or    *)
(* leaves one more hole, followed by the MaxGap windows it emits.          *)
LEMMA PopGaps ==
    ASSUME IInv, OriginFits, GapFree, NEW clock \in 0 .. MaxTime, Pop(clock)
    PROVE  OriginFits' /\ GapFree'
<1> DEFINE e == mgr.emitted
           n == NewestClosed(clock)
           r == Resume(mgr, clock)
<1>1. /\ mgr \in Managers /\ clock \in Int /\ Closes(mgr, clock)
      /\ mgr'.emitted = n /\ origin' = origin
      /\ \A w \in Windows : times'[w] = IF w \in r + 1 .. n THEN times[w] + 1 ELSE times[w]
  BY MaxTimeAssumption DEF IInv, TypeOK, Pop, PopClosed, Popped, Managers
<1>2. /\ e \in Int /\ n \in Int /\ r \in Int /\ e <= r /\ r < n
      /\ e # None /\ n # None /\ MaxGap \in Nat \ {0}
      /\ r = e \/ r + MaxGap = n
  BY <1>1, ResumeBounds, NoneAssumption, MaxGapAssumption DEF Resume
<1>3. n <= Win(MaxTime)
  <2>1. Win(clock - Grace) <= Win(MaxTime) /\ Win(clock - Grace) \in Int /\ Win(MaxTime) \in Int
    BY WinFacts, GraceAssumption, MaxTimeAssumption
  <2> QED BY <2>1 DEF NewestClosed
<1> HIDE DEF e, n, r
<1>4. OriginFits'
  BY <1>1, <1>2, <1>3 DEF OriginFits, e
<1>5. origin \in Int /\ -1 <= origin /\ origin + 1 .. n \subseteq Windows
  <2>1. origin \in Int /\ -1 <= origin /\ Win(MaxTime) \in Int
    BY <1>2, WinFacts, MaxTimeAssumption DEF OriginFits, e
  <2> QED BY <1>2, <1>3, <2>1 DEF Windows
<1>6. \A w \in origin + 1 .. n :
        /\ w <= e => (Emitted(w)' <=> Emitted(w))
        /\ e < w /\ w <= r => ~Emitted(w)'
        /\ r < w => Emitted(w)'
  <2> SUFFICES ASSUME NEW w \in origin + 1 .. n
               PROVE  /\ w <= e => (Emitted(w)' <=> Emitted(w))
                      /\ e < w /\ w <= r => ~Emitted(w)'
                      /\ r < w => Emitted(w)'
    OBVIOUS
  <2>1. w \in Windows /\ w \in Int /\ times[w] \in Nat
    BY <1>5 DEF IInv, TypeOK
  <2>2. w > e => times[w] = 0
    BY <1>2, <2>1 DEF IInv, EmittedAreBehind, e
  <2> QED BY <1>1, <1>2, <2>1, <2>2 DEF Emitted
<1>7. ASSUME NEW w \in origin + 1 .. n
      PROVE  \/ Emitted(w)'
             \/ \E v \in w + 1 .. n :
                   /\ \A u \in w .. v - 1 : ~Emitted(u)'
                   /\ \A u \in v .. v + MaxGap - 1 : u <= n /\ Emitted(u)'
  <2>1. CASE w > r
    BY <1>6, <2>1
  <2>2. CASE w <= e /\ Emitted(w)
    BY <1>6, <2>2
  <2>3. CASE w <= e /\ ~Emitted(w)
    <3>1. w \in origin + 1 .. e
      BY <1>2, <1>5, <2>3
    <3>2. PICK v \in w + 1 .. e :
             /\ \A u \in w .. v - 1 : ~Emitted(u)
             /\ \A u \in v .. v + MaxGap - 1 : u <= e /\ Emitted(u)
      BY <1>2, <2>3, <3>1 DEF GapFree, e
    <3>3. v \in w + 1 .. n
      BY <1>2, <3>2
    <3>4. ASSUME NEW u \in w .. v - 1 PROVE ~Emitted(u)'
      <4>1. u \in origin + 1 .. n /\ u <= e
        BY <1>2, <1>5, <3>2
      <4> QED BY <1>6, <3>2, <4>1
    <3>5. ASSUME NEW u \in v .. v + MaxGap - 1 PROVE u <= n /\ Emitted(u)'
      <4>1. u <= e /\ Emitted(u)
        BY <3>2
      <4>2. u \in origin + 1 .. n
        BY <1>2, <1>5, <3>2, <4>1
      <4> QED BY <1>6, <4>1, <4>2
    <3> QED BY <3>3, <3>4, <3>5
  <2>4. CASE e < w /\ w <= r
    <3>1. r + MaxGap = n
      BY <1>2, <1>5, <2>4
    <3> DEFINE v == r + 1
    <3>2. v \in w + 1 .. n
      BY <1>2, <1>5, <2>4
    <3>3. ASSUME NEW u \in w .. v - 1 PROVE ~Emitted(u)'
      <4>1. u \in origin + 1 .. n /\ e < u /\ u <= r
        BY <1>2, <1>5, <2>4
      <4> QED BY <1>6, <4>1
    <3>4. ASSUME NEW u \in v .. v + MaxGap - 1 PROVE u <= n /\ Emitted(u)'
      <4>1. u \in origin + 1 .. n /\ r < u
        BY <1>2, <1>5, <2>4, <3>1
      <4> QED BY <1>6, <4>1
    <3> HIDE DEF v
    <3> QED BY <3>2, <3>3, <3>4
  <2> QED BY <1>2, <1>5, <2>1, <2>2, <2>3, <2>4
<1>8. GapFree'
  BY <1>1, <1>7 DEF GapFree
<1> QED BY <1>4, <1>8

LEMMA NextGaps == IInv /\ OriginFits /\ GapFree /\ [Next]_vars => (OriginFits /\ GapFree)'
<1> SUFFICES ASSUME IInv, OriginFits, GapFree, [Next]_vars PROVE (OriginFits /\ GapFree)'
  OBVIOUS
<1>1. CASE UNCHANGED vars
  BY <1>1 DEF vars, OriginFits, GapFree, Emitted
<1> QED BY <1>1, AddGaps, PopGaps DEF Next

(* The series a manager emits is gap-free, except where a jump of the      *)
(* clock made it resynchronise, and then MaxGap windows in a row follow.   *)
THEOREM ManagerGapFree == Spec => []GapFree
BY Invariance, InitGaps, NextGaps, PTL DEF Spec
=============================================================================
