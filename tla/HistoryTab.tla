----------------------------- MODULE HistoryTab -----------------------------
(***************************************************************************)
(* The History tab of src/pipeline/api/static/index.html over the requests *)
(* that Analytics answers or refuses.                                      *)
(*                                                                         *)
(* loadHistory() suspends while its three requests are on their way, and   *)
(* is called by clicks, by the timer and by the address of the page: loads *)
(* overlap and their answers come in any order.  The three requests of a   *)
(* load are one: Promise.all() ends with all answers or the first error.   *)
(***************************************************************************)
EXTENDS Analytics, Sequences, SequencesExt

CONSTANTS
    HistoryBucket,   \* HISTORY_RANGES: the bucket each range is drawn at
    FirstRange,      \* historyRange of a new page
    EditorMaxRange,  \* EDITOR_MAX_RANGE
    ListLimit,       \* the limit= of both lists
    MaxLoads         \* bound: how many loads are on their way

ASSUME PageAssumption ==
    /\ DOMAIN HistoryBucket = Ranges
    /\ {FirstRange, EditorMaxRange} \subseteq Ranges
    /\ ListLimit \in Nat /\ MaxLoads \in Nat \ {0}

VARIABLES
    view,      \* currentView
    chosen,    \* historyRange
    timer,     \* whether historyTimer is set
    loads,     \* the loads on their way, the oldest first: [range, overtaken]
    note,      \* h-note: "", "loading" or "updated"
    banner,    \* h-banner: "", "failed" or "refused"
    drawn,     \* the range that is drawn
    aged,      \* history: what is drawn was asked for before what it replaced
    answering  \* whether the API and ClickHouse answer

page == <<view, chosen, timer>>
shown == <<note, banner, drawn, aged>>
tabVars == <<page, loads, shown, answering>>

NoRange == 0

TabInit ==
    /\ view = "live" /\ chosen = FirstRange /\ timer = FALSE
    /\ loads = <<>>
    /\ note = "" /\ banner = "" /\ drawn = NoRange /\ aged = FALSE
    /\ answering = TRUE

-----------------------------------------------------------------------------
(* Loading *)

(* loadHistory(), up to its await. *)
Load(range) ==
    /\ Len(loads) < MaxLoads
    /\ chosen' = range
    /\ loads' = Append(loads, [range |-> range, overtaken |-> FALSE])
    /\ note' = "loading"
    /\ UNCHANGED <<banner, drawn, aged, answering>>

(* Mutation of EditorRange: the editors of the whole range are asked for.  *)
EditorRangeWhole(range) == range

EditorRange(range) == IF range > EditorMaxRange THEN EditorMaxRange ELSE range

(* What the API says of the three requests of a load. *)
Refuses(range) ==
    Refused \in {TimelineTable(range, HistoryBucket[range]),
                 TopWikisTable(range, ListLimit),
                 TopEditorsTable(EditorRange(range), ListLimit)}

(* Load i is over, and nothing of it is shown: another range was picked.   *)
Discard(i) ==
    /\ loads[i].range # chosen
    /\ loads' = RemoveAt(loads, i)
    /\ UNCHANGED <<page, shown, answering>>

(* Mutation of Draw: whatever arrives is drawn. *)
DrawAnything(i) ==
    /\ answering /\ ~Refuses(loads[i].range)
    /\ drawn' = loads[i].range
    /\ aged' = loads[i].overtaken
    /\ note' = "updated"
    /\ banner' = ""
    /\ loads' = RemoveAt(loads, i)
    /\ UNCHANGED <<page, answering>>

(* Load i is drawn; older loads of its range have been overtaken.          *)
Draw(i) ==
    /\ loads[i].range = chosen
    /\ answering /\ ~Refuses(chosen)
    /\ drawn' = chosen
    /\ aged' = loads[i].overtaken
    /\ note' = "updated"
    /\ banner' = ""
    /\ loads' = RemoveAt([j \in DOMAIN loads |-> [loads[j] EXCEPT
                             !.overtaken = @ \/ (j < i /\ loads[j].range = chosen)]], i)
    /\ UNCHANGED <<page, answering>>

(* Load i fails: 400 when the API refuses, and 503 or nothing at all when  *)
(* the store or the API is down.                                           *)
Fail(i) ==
    /\ loads[i].range = chosen
    /\ \/ ~answering /\ banner' = "failed"
       \/ Refuses(chosen) /\ banner' = "refused"
    /\ note' = ""
    /\ loads' = RemoveAt(loads, i)
    /\ UNCHANGED <<page, drawn, aged, answering>>

Answer(i) == i <= Len(loads) /\ (Discard(i) \/ Draw(i) \/ Fail(i))

-----------------------------------------------------------------------------
(* What the reader and the browser do *)

(* A button of the tab: the address changes with it, without an event.     *)
Click(range) ==
    /\ view = "history"
    /\ Load(range)
    /\ UNCHANGED <<view, timer>>

(* showView() for #history, for #history/<range>, and for a range that the *)
(* page does not know, where the chosen one stays.  An address typed by    *)
(* hand with a name that every JavaScript object has (#history/constructor)*)
(* passes for a range in HISTORY_RANGES[range]; the API refuses it.  No    *)
(* link or button of the page leads there, and it is left out.             *)
OpenHistory(range) ==
    /\ view' = "history"
    /\ timer' = TRUE
    /\ Load(range)

(* showView() for anything else: what is on its way stays so. *)
OpenLive ==
    /\ view = "history"
    /\ view' = "live"
    /\ timer' = FALSE
    /\ UNCHANGED <<chosen, loads, shown, answering>>

(* Mutation of TimerFires: the timer is set for one turn only.             *)
TimerFiresOnce ==
    /\ timer
    /\ Load(chosen)
    /\ timer' = FALSE
    /\ UNCHANGED view

TimerFires ==
    /\ timer
    /\ Load(chosen)
    /\ UNCHANGED <<view, timer>>

Outage == answering' = ~answering /\ UNCHANGED <<page, loads, shown>>

TabNext ==
    \/ \E range \in Ranges : Click(range)
    \/ \E range \in Ranges : OpenHistory(range)
    \/ OpenLive
    \/ TimerFires
    \/ \E i \in 1 .. MaxLoads : Answer(i)
    \/ Outage

TabSpec == TabInit /\ [][TabNext]_tabVars

(* A request ends, and a timer that is set fires; the reader does as he    *)
(* likes, and so does ClickHouse.                                          *)
FairTabSpec ==
    /\ TabSpec
    /\ WF_tabVars(TimerFires)
    /\ \A i \in 1 .. MaxLoads : WF_tabVars(Answer(i))
-----------------------------------------------------------------------------
(* Properties *)

(* What the ranges, the buckets and the limits of the page must be for the *)
(* API to answer every load: the constants of index.html beside those of   *)
(* analytics.py.                                                           *)
PageFitsApi ==
    /\ \A range \in Ranges :
          /\ HistoryBucket[range] \in Buckets
          /\ HistoryBucket[range] <= range
          /\ range \div HistoryBucket[range] <= MaxPoints
          /\ range <= MinuteRetention
    /\ EditorMaxRange <= RawRetention
    /\ ListLimit \in 1 .. MaxLimit

(* The page never asks for what the API refuses (index.html, "the page can *)
(* never request something the API refuses"): of the two banners only one  *)
(* is ever shown.  The timer runs on the tab and nowhere else.             *)
TabTypeOK ==
    /\ view \in {"live", "history"}
    /\ chosen \in Ranges
    /\ timer = (view = "history")
    /\ loads \in BoundedSeq([range : Ranges, overtaken : BOOLEAN], MaxLoads)
    /\ note \in {"", "loading", "updated"}
    /\ banner \in {"", "failed"}
    /\ drawn \in Ranges \cup {NoRange}
    /\ {aged, answering} \subseteq BOOLEAN

(* Whatever overlaps, fails and comes late: the tab says that it is up to  *)
(* date only over the range whose button is pressed, it says that it is    *)
(* loading only while an answer for that range is still to come, and says  *)
(* neither only when nothing was asked for yet or a banner says why.       *)
ShownIsChosen ==
    CASE note = "updated" -> drawn = chosen /\ banner = ""
      [] note = "loading" -> \E i \in DOMAIN loads : loads[i].range = chosen
      [] note = "" -> banner # "" \/ (drawn = NoRange /\ loads = <<>>)

(* The tab recovers by itself: once the store answers and the reader stays *)
(* with a range, that range is drawn and no banner is left, without        *)
(* another click.                                                          *)
ChosenIsShown ==
    \A range \in Ranges :
        <>[](answering /\ view = "history" /\ chosen = range)
            => <>[](drawn = range /\ banner = "")

(* "a newer range was picked meanwhile" (index.html): an older answer does *)
(* not replace a newer one.  It does when both are of one range.           *)
NeverAged == ~aged
=============================================================================
