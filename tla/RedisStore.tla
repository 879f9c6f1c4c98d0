----------------------------- MODULE RedisStore -----------------------------
(***************************************************************************)
(* What src/pipeline/consumer/sink.py keeps in Redis, and what its Lua     *)
(* script does to it.                                                      *)
(*                                                                         *)
(* store.index is the sorted set `wiki:history` (the score of a member is  *)
(* the window itself), store.slices[w][p] the field p of the hash          *)
(* `wiki:win:<w>`.  A hash without fields does not exist in Redis.         *)
(***************************************************************************)
EXTENDS Integers, FiniteSets

CONSTANTS
    StoredWindows,  \* the window starts a summary may have
    Writers,        \* the partitions: each is a field of a window's hash
    HistoryMax,     \* HISTORY_MAX
    NoSlice         \* a field the hash does not have

NoHash == [p \in Writers |-> NoSlice]
EmptyStore == [index |-> {}, slices |-> [w \in StoredWindows |-> NoHash]]

(* An entry is <<partition, window, slice>>. *)
Entry(entries, w, p) == {e \in entries : e[1] = p /\ e[2] = w}

(* Mutation of Upsert: the whole hash is replaced (one value per window,   *)
(* without the partition in the key).                                      *)
UpsertWholeHash(store, entries) ==
    [index  |-> store.index \cup {e[2] : e \in entries},
     slices |-> [w \in StoredWindows |-> [p \in Writers |->
                    IF Entry(entries, w, p) # {}
                    THEN (CHOOSE e \in Entry(entries, w, p) : TRUE)[3]
                    ELSE IF \E q \in Writers : Entry(entries, w, q) # {}
                    THEN NoSlice ELSE store.slices[w][p]]]]

(* The first loop of the script: ZADD and HSET for each entry.  One call   *)
(* has at most one entry for a partition and window.                       *)
Upsert(store, entries) ==
    [index  |-> store.index \cup {e[2] : e \in entries},
     slices |-> [w \in StoredWindows |-> [p \in Writers |->
                    IF Entry(entries, w, p) # {}
                    THEN (CHOOSE e \in Entry(entries, w, p) : TRUE)[3]
                    ELSE store.slices[w][p]]]]

(* The lowest-ranked members beyond HistoryMax. *)
Stale(index) == {w \in index : Cardinality({v \in index : v > w}) >= HistoryMax}

(* Mutation of Trim: the hashes of trimmed windows stay.                   *)
TrimIndexOnly(store) == [store EXCEPT !.index = @ \ Stale(@)]

(* The rest of the script: trim the index and DEL the trimmed hashes. *)
Trim(store) ==
    [index  |-> store.index \ Stale(store.index),
     slices |-> [w \in StoredWindows |->
                    IF w \in Stale(store.index) THEN NoHash ELSE store.slices[w]]]

(* The whole script, which Redis runs atomically. *)
Write(store, entries) == Trim(Upsert(store, entries))

(* Redis drops the hash of w when its EXPIRE runs out; the index keeps w.  *)
ExpireHash(store, w) == [store EXCEPT !.slices[w] = NoHash]
=============================================================================
