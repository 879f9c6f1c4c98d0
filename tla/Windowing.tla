------------------------------ MODULE Windowing ------------------------------
(***************************************************************************)
(* The tumbling-window bookkeeping of src/pipeline/consumer/window.py, as  *)
(* operators on the record a WindowManager keeps.                          *)
(*                                                                         *)
(* Time is counted in ticks.  A window is named by its number: window w    *)
(* covers [w * Size, (w + 1) * Size), so the code's start is w * Size and  *)
(* start - size is w - 1.  What a window counted is the bag of the         *)
(* messages that were added to it; totals, per-wiki counters and the JSON  *)
(* summary are functions of that bag.  A window the code has not created   *)
(* is the empty bag: add() is the only place that creates one.             *)
(***************************************************************************)
EXTENDS Integers

CONSTANTS
    Size,      \* WINDOW_SECONDS, in ticks
    Grace,     \* WINDOW_GRACE_SECONDS, in ticks
    MaxGap,    \* MAX_GAP_WINDOWS
    MaxTime,   \* bound: the latest timestamp, or clock reading, considered
    Messages,  \* the identities of the messages of one partition
    None       \* Python's None

ASSUME SizeAssumption == Size \in Nat \ {0}
ASSUME GraceAssumption == Grace \in Nat
ASSUME MaxGapAssumption == MaxGap \in Nat \ {0}
ASSUME MaxTimeAssumption == MaxTime \in Nat
ASSUME NoneAssumption == None \notin Int

(* WindowManager.align: the number of the window that holds ts. *)
Win(ts) == ts \div Size

Windows == 0 .. Win(MaxTime)
Bags == [Messages -> Nat]
NoEvents == [m \in Messages |-> 0]

(* emitted is _emitted_through, maxTs is _max_ts.  late refines the        *)
(* counter late_events: which message was discarded from which window.     *)
Managers == [emitted : Int \cup {None},
             maxTs   : Nat \cup {None},
             windows : [Windows -> Bags],
             late    : [Windows -> Bags]]

NewManager == [emitted |-> None,
               maxTs   |-> None,
               windows |-> [w \in Windows |-> NoEvents],
               late    |-> [w \in Windows |-> NoEvents]]

-----------------------------------------------------------------------------
(* add() *)

(* Mutation of IsLate: < for <=. *)
IsLateOnlyBefore(mgr, ts) == mgr.emitted # None /\ Win(ts) < mgr.emitted

IsLate(mgr, ts) == mgr.emitted # None /\ Win(ts) <= mgr.emitted

(* Mutations of Origin: one window of history is back-filled, or all of it. *)
OriginBackfills(mgr, ts) == IF mgr.emitted = None THEN Win(ts) - 2 ELSE mgr.emitted
OriginIsEpoch(mgr, ts) == IF mgr.emitted = None THEN -1 ELSE mgr.emitted

(* The first event defines the origin: the window before it counts as      *)
(* already emitted.                                                        *)
Origin(mgr, ts) == IF mgr.emitted = None THEN Win(ts) - 1 ELSE mgr.emitted

Watermark(mgr, ts) == IF mgr.maxTs = None \/ ts > mgr.maxTs THEN ts ELSE mgr.maxTs

(* Mutation of Add: windows are closed intervals, so an event on a boundary *)
(* counts in both.                                                         *)
AddToBothOnBoundary(mgr, m, ts) ==
    IF IsLate(mgr, ts)
    THEN [mgr EXCEPT !.maxTs = Watermark(mgr, ts), !.late[Win(ts)][m] = @ + 1]
    ELSE [mgr EXCEPT !.maxTs = Watermark(mgr, ts),
                     !.emitted = Origin(mgr, ts),
                     !.windows = [w \in Windows |->
                        IF w = Win(ts) \/ (w + 1) * Size = ts
                        THEN [@[w] EXCEPT ![m] = @ + 1] ELSE @[w]]]

Add(mgr, m, ts) ==
    IF IsLate(mgr, ts)
    THEN [mgr EXCEPT !.maxTs = Watermark(mgr, ts),
                     !.late[Win(ts)][m] = @ + 1]
    ELSE [mgr EXCEPT !.maxTs = Watermark(mgr, ts),
                     !.emitted = Origin(mgr, ts),
                     !.windows[Win(ts)][m] = @ + 1]

-----------------------------------------------------------------------------
(* pop_closed() *)

(* Mutation of NewestClosed: the window that holds the clock is closed.    *)
NewestClosedIsCurrent(clock) == Win(clock - Grace)

NewestClosed(clock) == Win(clock - Grace) - 1

(* Mutation of Closes: the early return for an old clock is dropped.       *)
ClosesWhenever(mgr, clock) == mgr.emitted # None

Closes(mgr, clock) == mgr.emitted # None /\ NewestClosed(clock) > mgr.emitted

(* The window after which emission resumes: _emitted_through, unless more  *)
(* than MaxGap windows are due.                                            *)
Resume(mgr, clock) ==
    IF NewestClosed(clock) - mgr.emitted > MaxGap
    THEN NewestClosed(clock) - MaxGap
    ELSE mgr.emitted

(* Mutation of Popped: windows without events are left out.                *)
PoppedIfAny(mgr, clock) ==
    {w \in Resume(mgr, clock) + 1 .. NewestClosed(clock) :
        w \in Windows /\ mgr.windows[w] # NoEvents}

(* The windows one call emits, oldest first, those without events too. *)
Popped(mgr, clock) == Resume(mgr, clock) + 1 .. NewestClosed(clock)

(* What each emitted summary counts. *)
Summaries(mgr, clock) ==
    [w \in Windows |-> IF w \in Popped(mgr, clock) THEN mgr.windows[w] ELSE NoEvents]

(* Mutation of Dropped: < for <=. *)
DroppedOnlyBefore(mgr, clock) ==
    [w \in Windows |-> IF w < Resume(mgr, clock) THEN mgr.windows[w] ELSE NoEvents]

(* _drop_before: the events of the windows a resynchronisation skips.      *)
Dropped(mgr, clock) ==
    [w \in Windows |-> IF w <= Resume(mgr, clock) THEN mgr.windows[w] ELSE NoEvents]

PopClosed(mgr, clock) ==
    [mgr EXCEPT
        !.emitted = NewestClosed(clock),
        !.windows = [w \in Windows |->
                        IF w <= NewestClosed(clock) THEN NoEvents ELSE mgr.windows[w]],
        !.late = [w \in Windows |->
                    [m \in Messages |-> mgr.late[w][m] + Dropped(mgr, clock)[w][m]]]]
=============================================================================
