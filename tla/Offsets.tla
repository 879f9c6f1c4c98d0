------------------------------- MODULE Offsets -------------------------------
(***************************************************************************)
(* OffsetTracker of src/pipeline/consumer/offsets.py, for one partition:   *)
(* per window, the highest offset that contributed to it.  The dictionary  *)
(* is a function on all the windows, with -1 (the default that record()    *)
(* compares with) where it has no entry.                                   *)
(***************************************************************************)
EXTENDS Integers

CONSTANTS
    PendingWindows,  \* the windows an offset may be recorded under
    NoOffset         \* Python's None, "nothing is releasable"

Pending == [PendingWindows -> Nat \cup {-1}]
NoPending == [w \in PendingWindows |-> -1]

(* record() *)
Record(pending, offset, w) ==
    [pending EXCEPT ![w] = IF offset > @ THEN offset ELSE @]

(* Mutation of Done: windows that are still open count too.                *)
DoneAll(pending, through) == {w \in PendingWindows : pending[w] # -1}

(* The windows release_partition() finds done. *)
Done(pending, through) == {w \in PendingWindows : pending[w] # -1 /\ w <= through}

Highest(pending, through) ==
    CHOOSE o \in {pending[w] : w \in Done(pending, through)} :
        \A w \in Done(pending, through) : pending[w] <= o

(* Mutation of SafeOffset: the next-offset convention is applied twice.    *)
SafeOffsetPlusTwo(pending, through) ==
    IF Done(pending, through) = {} THEN NoOffset ELSE Highest(pending, through) + 2

(* The value release_partition() returns: the next offset to read. *)
SafeOffset(pending, through) ==
    IF Done(pending, through) = {} THEN NoOffset ELSE Highest(pending, through) + 1

(* The entries release_partition() leaves. *)
Released(pending, through) ==
    [w \in PendingWindows |-> IF w \in Done(pending, through) THEN -1 ELSE pending[w]]
=============================================================================
