------------------------------ MODULE Producer ------------------------------
(***************************************************************************)
(* The producer (src/pipeline/producer/produce.py): it reads Wikimedia's   *)
(* event stream and sends each usable event to Kafka, asynchronously.      *)
(* The events are numbered as Wikimedia publishes them, and are all of one *)
(* wiki, so they have one key and go to one partition.                     *)
(*                                                                         *)
(* The Kafka client is modelled as the code uses it: send() puts an event  *)
(* into a buffer or raises; the buffer of one client reaches the partition *)
(* in order and without duplicates (acks=all, enable_idempotence), except  *)
(* for events that fail after the retries, whose errback is called.  What  *)
(* becomes of the buffer of a client that main() has replaced, or whose    *)
(* process has ended, is not decided by this code: each of its events may  *)
(* still arrive, at any time, or not.                                      *)
(***************************************************************************)
EXTENDS Integers, Sequences, SequencesExt

CONSTANTS
    MaxEvents,  \* bound: how many events Wikimedia publishes
    Unusable,   \* those that do not parse, or that extract_event rejects
    MaxFaults   \* bound on how often Kafka or the process fails

ASSUME MaxEventsAssumption == MaxEvents \in Nat
ASSUME UnusableAssumption == Unusable \subseteq 1 .. MaxEvents
ASSUME MaxFaultsAssumption == MaxFaults \in Nat

VARIABLES
    published,  \* Wikimedia: the number of events published so far
    stream,     \* the events on the open connection that are not handled yet
    pc,         \* where the program is, "down" when there is no process
    running,    \* _running
    buffer,     \* the events in the buffer of the current client
    orphans,    \* the events in the buffers nobody waits for any more
    log,        \* Kafka: the partition
    sent,       \* the events counted in Stats.sent
    dropped,    \* the events counted in events_dropped
    failed,     \* the events counted in produce_errors
    forgotten,  \* history: sent events that ended with their process
    faults      \* how often something failed

counters == <<sent, dropped, failed, forgotten>>
vars == <<published, stream, pc, running, buffer, orphans, log, counters, faults>>

Events == 1 .. MaxEvents
PCs == {"down", "connect", "read", "sse error", "kafka error", "drain", "stopped"}

Init ==
    /\ published = 0
    /\ stream = <<>>
    /\ pc = "down"
    /\ running = TRUE
    /\ buffer = <<>>
    /\ orphans = {}
    /\ log = <<>>
    /\ sent = {}
    /\ dropped = {}
    /\ failed = {}
    /\ forgotten = {}
    /\ faults = 0

Fault == faults < MaxFaults /\ faults' = faults + 1

-----------------------------------------------------------------------------
(* The world *)

(* Nobody asks Wikimedia for what was published while not connected.       *)
Publish ==
    /\ published < MaxEvents
    /\ published' = published + 1
    /\ stream' = IF pc = "read" THEN Append(stream, published + 1) ELSE stream
    /\ UNCHANGED <<pc, running, buffer, orphans, log, counters, faults>>

(* Kafka takes the first event of the buffer.                              *)
Delivered ==
    /\ buffer # <<>>
    /\ log' = Append(log, Head(buffer))
    /\ buffer' = Tail(buffer)
    /\ UNCHANGED <<published, stream, pc, running, orphans, counters, faults>>

(* It fails for good, or all the answers are lost: _on_send_error().       *)
SendError ==
    /\ buffer # <<>>
    /\ Fault
    /\ log' \in {log, Append(log, Head(buffer))}
    /\ failed' = failed \cup {Head(buffer)}
    /\ buffer' = Tail(buffer)
    /\ UNCHANGED <<published, stream, pc, running, orphans, sent, dropped, forgotten>>

OrphanDelivered(e) ==
    /\ e \in orphans
    /\ log' = Append(log, e)
    /\ orphans' = orphans \ {e}
    /\ UNCHANGED <<published, stream, pc, running, buffer, counters, faults>>

OrphanFails(e) ==
    /\ e \in orphans
    /\ orphans' = orphans \ {e}
    /\ failed' = IF e \in forgotten THEN failed ELSE failed \cup {e}
    /\ UNCHANGED <<published, stream, pc, running, buffer, log, sent, dropped, forgotten,
                   faults>>

(* _stop(), on SIGTERM or SIGINT.                                          *)
Stop ==
    /\ running
    /\ pc # "down"
    /\ running' = FALSE
    /\ UNCHANGED <<published, stream, pc, buffer, orphans, log, counters, faults>>

-----------------------------------------------------------------------------
(* main() *)

(* ensure_topic() and make_producer(); a restarted process runs again.     *)
Start ==
    /\ pc = "down"
    /\ pc' = "connect"
    /\ running' = TRUE
    /\ UNCHANGED <<published, stream, buffer, orphans, log, counters, faults>>

(* The process ends and forgets what it had not delivered.                 *)
Ends(where) ==
    /\ pc' = where
    /\ stream' = <<>>
    /\ buffer' = <<>>
    /\ orphans' = orphans \cup ToSet(buffer)
    /\ forgotten' = forgotten \cup ToSet(buffer) \cup orphans
    /\ UNCHANGED <<published, running, log, sent, dropped, failed>>

Crash ==
    /\ pc \notin {"down", "stopped"}
    /\ Fault
    /\ Ends("down")

(* The while loop: stream_events() again, or the end.                      *)
Connect ==
    /\ pc = "connect"
    /\ pc' = IF running THEN "read" ELSE "drain"
    /\ UNCHANGED <<published, stream, running, buffer, orphans, log, counters, faults>>

(* requests raises, on connecting or while reading (a silent stream runs   *)
(* into the timeout): what was not handled is lost with the connection.    *)
SseError ==
    /\ pc = "read" \/ (pc = "connect" /\ running)
    /\ pc' = "sse error"
    /\ stream' = <<>>
    /\ UNCHANGED <<published, running, buffer, orphans, log, counters, faults>>

(* Wikimedia closes the connection: stream_events() returns.               *)
StreamEnds ==
    /\ pc = "read"
    /\ stream = <<>>
    /\ pc' = "connect"
    /\ UNCHANGED <<published, stream, running, buffer, orphans, log, counters, faults>>

(* Mutation of Reconnect: it makes a new Kafka client, too.                *)
ReconnectReplaces ==
    /\ pc = "sse error"
    /\ pc' = "connect"
    /\ buffer' = <<>>
    /\ orphans' = orphans \cup ToSet(buffer)
    /\ UNCHANGED <<published, stream, running, log, counters, faults>>

Reconnect ==
    /\ pc = "sse error"
    /\ pc' = "connect"
    /\ UNCHANGED <<published, stream, running, buffer, orphans, log, counters, faults>>

(* Mutations of Replace: the new client takes over the events of the old,  *)
(* or the old one's are thrown away.                                       *)
ReplaceForgets ==
    /\ pc = "kafka error"
    /\ pc' = "connect"
    /\ buffer' = <<>>
    /\ UNCHANGED <<published, stream, running, orphans, log, counters, faults>>
ReplaceKeepsBuffer ==
    /\ pc = "kafka error"
    /\ pc' = "connect"
    /\ orphans' = orphans \cup ToSet(buffer)
    /\ UNCHANGED <<published, stream, running, buffer, log, counters, faults>>

(* make_producer() in the except clause: the old client is let go of       *)
(* without being flushed or closed.                                        *)
Replace ==
    /\ pc = "kafka error"
    /\ pc' = "connect"
    /\ buffer' = <<>>
    /\ orphans' = orphans \cup ToSet(buffer)
    /\ UNCHANGED <<published, stream, running, log, counters, faults>>

(* It raises as well, and nothing catches that: main() ends undrained.     *)
ReplaceFails ==
    /\ pc = "kafka error"
    /\ Fault
    /\ Ends("down")

-----------------------------------------------------------------------------
(* stream_events(): one turn of the loop *)

Handle == pc = "read" /\ stream # <<>>

Leave ==
    /\ Handle
    /\ ~running
    /\ pc' = "connect"
    /\ stream' = <<>>
    /\ UNCHANGED <<published, running, buffer, orphans, log, counters, faults>>

DropEvent ==
    /\ Handle
    /\ running
    /\ Head(stream) \in Unusable
    /\ dropped' = dropped \cup {Head(stream)}
    /\ stream' = Tail(stream)
    /\ UNCHANGED <<published, pc, running, buffer, orphans, log, sent, failed, forgotten,
                   faults>>

(* Mutation of Send: the event is not counted as sent.                     *)
SendUncounted ==
    /\ Handle
    /\ running
    /\ Head(stream) \notin Unusable
    /\ buffer' = Append(buffer, Head(stream))
    /\ stream' = Tail(stream)
    /\ UNCHANGED <<published, pc, running, orphans, log, counters, faults>>

Send ==
    /\ Handle
    /\ running
    /\ Head(stream) \notin Unusable
    /\ buffer' = Append(buffer, Head(stream))
    /\ sent' = sent \cup {Head(stream)}
    /\ stream' = Tail(stream)
    /\ UNCHANGED <<published, pc, running, orphans, log, dropped, failed, forgotten, faults>>

(* send() raises a KafkaError (no metadata, or no room in the buffer, for  *)
(* a minute): the event in hand is not counted anywhere.                   *)
SendRaises ==
    /\ Handle
    /\ running
    /\ Head(stream) \notin Unusable
    /\ Fault
    /\ pc' = "kafka error"
    /\ stream' = <<>>
    /\ UNCHANGED <<published, running, buffer, orphans, log, counters>>

-----------------------------------------------------------------------------
(* The end of main() *)

(* Mutation of Drain: flush() is not waited for.                           *)
DrainAtOnce ==
    /\ pc = "drain"
    /\ Ends("stopped")
    /\ UNCHANGED faults

(* flush(timeout=10) has emptied the buffer, and close().                  *)
Drain ==
    /\ pc = "drain"
    /\ buffer = <<>>
    /\ Ends("stopped")
    /\ UNCHANGED faults

(* flush() raises when the ten seconds are over.                           *)
DrainTimesOut ==
    /\ pc = "drain"
    /\ buffer # <<>>
    /\ Fault
    /\ Ends("stopped")

-----------------------------------------------------------------------------
Turn == Leave \/ DropEvent \/ Send \/ SendRaises

Next ==
    \/ Publish
    \/ Delivered
    \/ SendError
    \/ \E e \in Events : OrphanDelivered(e)
    \/ \E e \in Events : OrphanFails(e)
    \/ Stop
    \/ Start
    \/ Crash
    \/ Connect
    \/ SseError
    \/ StreamEnds
    \/ Reconnect
    \/ Replace
    \/ ReplaceFails
    \/ Leave
    \/ DropEvent
    \/ Send
    \/ SendRaises
    \/ Drain
    \/ DrainTimesOut

Spec == Init /\ [][Next]_vars

(* The process is restarted, the loop does not stop by itself, Kafka       *)
(* answers, and a stream on which nothing comes runs into its timeout.     *)
Timeout == SseError /\ stream = <<>>
Main == Start \/ Connect \/ Reconnect \/ Replace \/ Turn \/ Drain

FairSpec ==
    /\ Spec
    /\ WF_vars(Main)
    /\ WF_vars(Delivered)
    /\ WF_vars(Timeout)
-----------------------------------------------------------------------------
(* Properties *)

TypeOK ==
    /\ published \in 0 .. MaxEvents
    /\ stream \in Seq(Events)
    /\ pc \in PCs
    /\ running \in BOOLEAN
    /\ buffer \in Seq(Events)
    /\ orphans \subseteq Events
    /\ log \in Seq(Events)
    /\ sent \subseteq Events \ Unusable
    /\ dropped \subseteq Unusable
    /\ failed \subseteq sent
    /\ forgotten \subseteq sent
    /\ faults \in 0 .. MaxFaults

(* An event is in Kafka once at most: neither a reconnection to Wikimedia  *)
(* nor the replacement of the Kafka client nor a restart sends it again    *)
(* (make_producer, "rather than producing the same edit twice").           *)
NotTwice == IsInjective(log)

(* "all edits for a given wiki [...] preserve their relative order"        *)
(* (produce.py, line 4), whatever reconnections to Wikimedia fall between, *)
(* as long as neither the Kafka client nor the process fails.              *)
OrderWithoutFaults ==
    faults = 0 => \A i, j \in 1 .. Len(log) : i < j => log[i] < log[j]

(* "This is the only place that loss becomes visible" (_on_send_error): an *)
(* event counted as sent is in Kafka, on its way there, or counted in      *)
(* produce_errors, or its process ended first.  In particular the          *)
(* replacement of the client makes none disappear.                         *)
SentIsAccounted ==
    \A e \in sent : e \in ToSet(log) \cup ToSet(buffer) \cup orphans \cup failed \cup forgotten

(* A stop is heard, though the program looks at the flag only between two  *)
(* events, and though the stream may fall silent; and when nothing fails,  *)
(* the program that has stopped leaves no event behind ("the graceful      *)
(* path: flushes", README.md, line 371).                                   *)
StopDrains ==
    (~running) ~> \/ running
                  \/ pc = "stopped" /\ (faults = 0 => sent \subseteq ToSet(log))
=============================================================================
