---------------------------- MODULE WindowManager ----------------------------
(***************************************************************************)
(* One WindowManager of src/pipeline/consumer/window.py under a caller     *)
(* that may do anything the interface allows: events of any timestamp, in  *)
(* any order, and pop_closed with any clock reading, a reading earlier     *)
(* than the previous one included (time.time() steps, DESIGN.md section 2).*)
(***************************************************************************)
EXTENDS Windowing

CONSTANT MaxAdds      \* bound: how often one message is added

ASSUME MaxAddsAssumption == MaxAdds \in Nat

VARIABLES
    mgr,      \* the manager
    fed,      \* history: what add() was given, by window
    emission, \* history: what the summaries of each window counted
    times,    \* history: how many summaries each window has had
    origin    \* history: the window before the first event's, None before it

vars == <<mgr, fed, emission, times, origin>>

Init ==
    /\ mgr = NewManager
    /\ fed = [w \in Windows |-> NoEvents]
    /\ emission = [w \in Windows |-> NoEvents]
    /\ times = [w \in Windows |-> 0]
    /\ origin = None

AddedBefore(m) == {w \in Windows : fed[w][m] > 0}

AddEvent(m, ts) ==
    /\ \A w \in AddedBefore(m) : fed[w][m] < MaxAdds
    /\ AddedBefore(m) \subseteq {Win(ts)}
    /\ mgr' = Add(mgr, m, ts)
    /\ fed' = [fed EXCEPT ![Win(ts)][m] = @ + 1]
    /\ origin' = IF origin = None THEN Win(ts) - 1 ELSE origin
    /\ UNCHANGED <<emission, times>>

(* A call that emits something; a call that returns [] changes nothing.    *)
Pop(clock) ==
    /\ Closes(mgr, clock)
    /\ mgr' = PopClosed(mgr, clock)
    /\ emission' = [w \in Windows |->
                      [m \in Messages |-> emission[w][m] + Summaries(mgr, clock)[w][m]]]
    /\ times' = [w \in Windows |->
                   IF w \in Popped(mgr, clock) THEN times[w] + 1 ELSE times[w]]
    /\ UNCHANGED <<fed, origin>>

Next ==
    \/ \E m \in Messages, ts \in 0 .. MaxTime : AddEvent(m, ts)
    \/ \E clock \in 0 .. MaxTime : Pop(clock)

Spec == Init /\ [][Next]_vars

-----------------------------------------------------------------------------

(* The record the manager keeps has the shape window.py gives it, and no   *)
(* window before the first one of the epoch is ever waited for.            *)
TypeOK ==
    /\ mgr \in Managers
    /\ mgr.emitted # None => mgr.emitted >= -1
    /\ fed \in [Windows -> Bags]
    /\ emission \in [Windows -> Bags]
    /\ times \in [Windows -> Nat]
    /\ origin \in Int \cup {None}

(* No event is lost without trace and none is counted twice: every event   *)
(* given to add() is in its open window, or in the one summary of its      *)
(* window, or in late_events, whatever the order of calls and however the  *)
(* clock jumps (window.py add, pop_closed and _drop_before together).      *)
Conservation ==
    \A w \in Windows, m \in Messages :
        fed[w][m] = mgr.windows[w][m] + emission[w][m] + mgr.late[w][m]

(* A window is summarised at most once, even when the clock steps back and *)
(* events for it keep arriving: otherwise the second summary, without the  *)
(* first one's events, would replace it in Redis.                          *)
EmittedAtMostOnce == \A w \in Windows : times[w] <= 1

(* An open window is never one the manager believes emitted: pop_closed    *)
(* only looks ahead of _emitted_through, so such a window would stay in    *)
(* memory for ever, with its offsets.                                      *)
OpenAheadOfEmitted ==
    \A w \in Windows : mgr.windows[w] # NoEvents => mgr.emitted # None /\ w > mgr.emitted

(* The series is gap-free (pop_closed's docstring): of the windows between *)
(* the origin and the last one emitted, only those a resynchronisation     *)
(* skipped are missing, and what follows such a hole is a full run of      *)
(* MaxGap windows.                                                         *)
Emitted(w) == times[w] > 0
GapFree ==
    mgr.emitted # None =>
        \A w \in origin + 1 .. mgr.emitted :
            \/ Emitted(w)
            \/ \E v \in w + 1 .. mgr.emitted :
                  /\ \A u \in w .. v - 1 : ~Emitted(u)
                  /\ \A u \in v .. v + MaxGap - 1 : u <= mgr.emitted /\ Emitted(u)
=============================================================================
