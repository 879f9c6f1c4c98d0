--------------------------- MODULE WindowingProofs ---------------------------
(***************************************************************************)
(* What the operators of Windowing return and preserve, for every value of *)
(* the constants.                                                          *)
(***************************************************************************)
EXTENDS Windowing, WellFoundedInduction, TLAPS

(* A bounded, non-empty set of naturals has a greatest element.            *)
LEMMA GreatestExists ==
    ASSUME NEW S, S \subseteq Nat, S # {}, NEW b \in Nat, \A x \in S : x < b
    PROVE  \E x \in S : \A y \in S : y <= x
<1> DEFINE T == {b - x : x \in S}
<1>1. T \subseteq Nat
  <2> SUFFICES ASSUME NEW x \in S PROVE b - x \in Nat
    OBVIOUS
  <2> QED OBVIOUS
<1>2. T # {}
  OBVIOUS
<1>3. IsWellFoundedOn(OpToRel(<, Nat), Nat)
  BY NatLessThanWellFounded
<1>4. \E m \in T : \A n \in T : ~ <<n, m>> \in OpToRel(<, Nat)
  <2> HIDE DEF T
  <2> QED BY <1>1, <1>2, <1>3, WFMin
<1>5. \E m \in T : \A n \in T : ~ (n < m)
  BY <1>1, <1>4 DEF OpToRel
<1> QED BY <1>5

(* align() never mixes up the order of timestamps, and maps the timestamps *)
(* considered to the windows considered.                                   *)
LEMMA WinFacts ==
    ASSUME NEW s \in Int, NEW t \in Int
    PROVE  /\ Win(t) \in Int
           /\ s <= t => Win(s) <= Win(t)
           /\ t \in 0 .. MaxTime => Win(t) \in Windows
BY SizeAssumption, MaxTimeAssumption DEF Win, Windows

LEMMA WindowsAreNat == Windows \subseteq Nat
BY SizeAssumption, MaxTimeAssumption DEF Win, Windows

LEMMA NoEventsType == NoEvents \in Bags
BY DEF NoEvents, Bags

LEMMA NewManagerType == NewManager \in Managers
BY NoEventsType DEF NewManager, Managers

(* add() keeps the manager well formed.                                    *)
LEMMA AddType ==
    ASSUME NEW mgr \in Managers, NEW m \in Messages, NEW ts \in 0 .. MaxTime
    PROVE  Add(mgr, m, ts) \in Managers
<1> DEFINE w == Win(ts)
<1>1. w \in Windows /\ w \in Int
  BY WinFacts, MaxTimeAssumption
<1>2. Watermark(mgr, ts) \in Nat
  BY MaxTimeAssumption DEF Watermark, Managers
<1>3. CASE IsLate(mgr, ts)
  <2>1. [mgr.late EXCEPT ![w][m] = @ + 1] \in [Windows -> Bags]
    BY <1>1 DEF Managers, Bags
  <2> QED BY <1>2, <1>3, <2>1 DEF Add, Managers
<1>4. CASE ~IsLate(mgr, ts)
  <2>1. [mgr.windows EXCEPT ![w][m] = @ + 1] \in [Windows -> Bags]
    BY <1>1 DEF Managers, Bags
  <2>2. Origin(mgr, ts) \in Int \cup {None}
    BY <1>1 DEF Origin, Managers
  <2> QED BY <1>2, <1>4, <2>1, <2>2 DEF Add, Managers
<1> QED BY <1>3, <1>4

(* Emission never resumes behind what was emitted, nor ahead of what it is *)
(* to emit: a call that emits anything emits at least one window.          *)
LEMMA ResumeBounds ==
    ASSUME NEW mgr \in Managers, NEW clock \in Int, Closes(mgr, clock)
    PROVE  /\ mgr.emitted \in Int
           /\ NewestClosed(clock) \in Int
           /\ Resume(mgr, clock) \in Int
           /\ mgr.emitted <= Resume(mgr, clock)
           /\ Resume(mgr, clock) < NewestClosed(clock)
<1>1. mgr.emitted \in Int
  BY DEF Closes, Managers
<1>2. NewestClosed(clock) \in Int
  BY WinFacts, GraceAssumption DEF NewestClosed
<1> QED BY <1>1, <1>2, MaxGapAssumption DEF Closes, Resume

LEMMA SummariesType ==
    ASSUME NEW mgr \in Managers, NEW clock
    PROVE  Summaries(mgr, clock) \in [Windows -> Bags]
BY NoEventsType DEF Summaries, Managers

LEMMA DroppedType ==
    ASSUME NEW mgr \in Managers, NEW clock
    PROVE  Dropped(mgr, clock) \in [Windows -> Bags]
BY NoEventsType DEF Dropped, Managers

(* pop_closed() keeps the manager well formed.                             *)
LEMMA PopClosedType ==
    ASSUME NEW mgr \in Managers, NEW clock \in Int, Closes(mgr, clock)
    PROVE  PopClosed(mgr, clock) \in Managers
<1>1. NewestClosed(clock) \in Int
  BY ResumeBounds
<1>2. [w \in Windows |->
          IF w <= NewestClosed(clock) THEN NoEvents ELSE mgr.windows[w]]
        \in [Windows -> Bags]
  BY NoEventsType DEF Managers
<1>3. [w \in Windows |->
          [m \in Messages |-> mgr.late[w][m] + Dropped(mgr, clock)[w][m]]]
        \in [Windows -> Bags]
  BY DroppedType DEF Managers, Bags
<1> QED BY <1>1, <1>2, <1>3 DEF PopClosed, Managers
=============================================================================
