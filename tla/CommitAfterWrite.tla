-------------------------- MODULE CommitAfterWrite --------------------------
(***************************************************************************)
(* What the aggregator promises about the offsets of a partition, and all  *)
(* that Kafka and an operator need to know of it: messages are settled     *)
(* (counted in a window that reached Redis, or discarded as late) in       *)
(* whatever order and grouping, and the committed offset moves forward     *)
(* only, over settled messages only (docs/DESIGN.md section 1, "Half       *)
(* one").  A crash changes nothing here: that is the promise.              *)
(***************************************************************************)
EXTENDS Integers

CONSTANTS Partitions, Messages, InitialCommit, None

VARIABLES
    end,       \* the end of each partition's log
    settled,   \* the offsets that are accounted for
    committed  \* the committed offset, None before the first commit

vars == <<end, settled, committed>>

Init ==
    /\ end = [p \in Partitions |-> 0]
    /\ settled = [p \in Partitions |-> {}]
    /\ committed = [p \in Partitions |-> InitialCommit]

Append(p) ==
    /\ end' = [end EXCEPT ![p] = @ + 1]
    /\ UNCHANGED <<settled, committed>>

(* Messages of the log are accounted for, of several partitions at once:   *)
(* one flush writes the windows of all of them.                            *)
Settle(more) ==
    /\ \A p \in Partitions : \A o \in more[p] : o < end[p]
    /\ settled' = [p \in Partitions |-> settled[p] \cup more[p]]
    /\ UNCHANGED <<end, committed>>

SafeFor(p, offset) ==
    /\ committed[p] = None \/ committed[p] < offset
    /\ \A o \in Messages :
          (committed[p] # None => committed[p] <= o) /\ o < offset => o \in settled[p]

Commit(offsets) ==
    /\ \A p \in Partitions : offsets[p] # committed[p] => SafeFor(p, offsets[p])
    /\ committed' = offsets
    /\ UNCHANGED <<end, settled>>

Next ==
    \/ \E p \in Partitions : Append(p)
    \/ \E more \in [Partitions -> SUBSET Messages] : Settle(more)
    \/ \E offsets \in [Partitions -> Messages \cup {o + 1 : o \in Messages} \cup {InitialCommit}] :
          Commit(offsets)

Spec == Init /\ [][Next]_vars
=============================================================================
