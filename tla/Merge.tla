------------------------------- MODULE Merge -------------------------------
(***************************************************************************)
(* What the summary of a window says of its events (TumblingWindow of      *)
(* src/pipeline/consumer/window.py), and how the summaries of a window's   *)
(* partitions are put together again (src/pipeline/merge.py).              *)
(*                                                                         *)
(* A slice is the set of the events it counts.  edit_types is counted as   *)
(* edits_per_wiki is, and rates and the order of the output are left out.  *)
(***************************************************************************)
EXTENDS Naturals, FiniteSets, FiniteSetsExt, Functions

CONSTANTS
    WikiOf,     \* the wiki of each event
    UserOf,     \* its user: a number, so that users have the order of names
    Bots,       \* the events that bots made
    TopEditors  \* TOP_EDITORS

ASSUME EventsAssumption == DOMAIN WikiOf = DOMAIN UserOf /\ Bots \subseteq DOMAIN UserOf
ASSUME TopEditorsAssumption == TopEditors \in Nat \ {0}

(* A Counter after the events. *)
Tally(events, of) ==
    [x \in {of[e] : e \in events} |-> Cardinality({e \in events : of[e] = x})]

(* Counter.most_common(TOP_EDITORS).  Ties go by who came first, which a   *)
(* set of events leaves open: any cut with nobody above it left out.       *)
MostCommon(tally) ==
    LET size == Min({TopEditors, Cardinality(DOMAIN tally)}) IN
    {Restrict(tally, top) : top \in
        {us \in kSubset(size, DOMAIN tally) :
            \A u \in us, v \in DOMAIN tally \ us : tally[v] <= tally[u]}}

Totals(events) ==
    [total |-> Cardinality(events), bots |-> Cardinality(events \cap Bots)]

(* snapshot() *)
Snapshots(events) ==
    {[counts |-> Totals(events), wikis |-> Tally(events, WikiOf), editors |-> top] :
        top \in MostCommon(Tally(events, UserOf))}

(* Mutation of AddedUp: a later slice replaces the count of an earlier one. *)
Replaced(tallies) ==
    [x \in UNION {DOMAIN tallies[p] : p \in DOMAIN tallies} |->
        tallies[CHOOSE p \in DOMAIN tallies : x \in DOMAIN tallies[p]][x]]

(* The loops of merge_partials(): counts are added key by key.             *)
AddedUp(tallies) ==
    [x \in UNION {DOMAIN tallies[p] : p \in DOMAIN tallies} |->
        MapThenSumSet(LAMBDA p : tallies[p][x],
                      {p \in DOMAIN tallies : x \in DOMAIN tallies[p]})]

(* history_point(), of the counts of each slice. *)
HistoryPoint(counts) ==
    [total |-> MapThenSumSet(LAMBDA p : counts[p].total, DOMAIN counts),
     bots  |-> MapThenSumSet(LAMBDA p : counts[p].bots, DOMAIN counts)]

(* merge_partials(), of the summary of each slice: users are ranked by     *)
(* count, then by name.                                                    *)
MergePartials(slices) ==
    LET users == AddedUp([p \in DOMAIN slices |-> slices[p].editors])
        Above(u) == {v \in DOMAIN users :
                        users[v] > users[u] \/ (users[v] = users[u] /\ v < u)}
    IN  [counts  |-> HistoryPoint([p \in DOMAIN slices |-> slices[p].counts]),
         wikis   |-> AddedUp([p \in DOMAIN slices |-> slices[p].wikis]),
         editors |-> Restrict(users, {u \in DOMAIN users :
                                        Cardinality(Above(u)) < TopEditors})]
=============================================================================
