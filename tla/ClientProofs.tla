---------------------------- MODULE ClientProofs ----------------------------
(***************************************************************************)
(* Proofs about the four programs at the ends of the pipeline, each a      *)
(* client of something it shares with others: the producer (of Wikimedia   *)
(* and Kafka), the sink (of Redis), ColdPath (of ClickHouse) and the       *)
(* History tab (of the API).  They share no state: each has a section of   *)
(* its own, and its specification names of its own.                        *)
(*                                                                         *)
(* For any number of events, unusable ones and failures; of partitions     *)
(* and any order of their writes, any history length and time to live; of  *)
(* concurrent requests and health checks; of ranges and overlapping loads, *)
(* answered in any order.                                                  *)
(***************************************************************************)
EXTENDS Producer, RedisSink, ColdPath, HistoryTab,
        SetProofs, SequenceTheorems

(***************************************************************************)
(* THE PRODUCER                                                            *)
(***************************************************************************)

-----------------------------------------------------------------------------
(* Sequences that ascend                                                   *)

Ascends(s) == \A i, j \in DOMAIN s : i < j => s[i] < s[j]

LEMMA EmptyFacts == ToSet(<<>>) = {} /\ Ascends(<<>>) /\ \A S : <<>> \in Seq(S)
BY DEF ToSet, Ascends

LEMMA ToSetType == \A S, s : s \in Seq(S) => ToSet(s) \subseteq S
BY DEF ToSet

LEMMA AppendFacts ==
    ASSUME NEW s \in Seq(Events), NEW e \in Events
    PROVE  /\ Append(s, e) \in Seq(Events)
           /\ ToSet(Append(s, e)) = ToSet(s) \cup {e}
           /\ Ascends(s) /\ (\A x \in ToSet(s) : x < e) => Ascends(Append(s, e))
           /\ IsInjective(s) /\ e \notin ToSet(s) => IsInjective(Append(s, e))
<1> DEFINE t == Append(s, e)
<1>1. /\ t \in Seq(Events) /\ Len(t) = Len(s) + 1 /\ Len(s) \in Nat
      /\ DOMAIN s = 1 .. Len(s) /\ DOMAIN t = 1 .. Len(s) + 1
      /\ \A i \in 1 .. Len(s) : t[i] = s[i]
      /\ t[Len(s) + 1] = e
  BY AppendProperties, LenProperties
<1> HIDE DEF t
<1>2. ToSet(t) = ToSet(s) \cup {e}
  <2>1. \A i \in DOMAIN t : t[i] \in ToSet(s) \cup {e}
    BY <1>1 DEF ToSet
  <2>2. \A i \in DOMAIN s : s[i] \in ToSet(t)
    BY <1>1 DEF ToSet
  <2>3. e \in ToSet(t)
    <3>1. Len(s) + 1 \in DOMAIN t
      BY <1>1
    <3> QED BY <1>1, <3>1 DEF ToSet
  <2> QED BY <2>1, <2>2, <2>3 DEF ToSet
<1>3. ASSUME Ascends(s), \A x \in ToSet(s) : x < e PROVE Ascends(t)
  <2> SUFFICES ASSUME NEW i \in DOMAIN t, NEW j \in DOMAIN t, i < j PROVE t[i] < t[j]
    BY DEF Ascends
  <2>1. i \in DOMAIN s /\ t[i] = s[i] /\ s[i] \in ToSet(s)
    BY <1>1 DEF ToSet
  <2>2. CASE j = Len(s) + 1
    BY <1>1, <1>3, <2>1, <2>2
  <2>3. CASE j # Len(s) + 1
    BY <1>1, <1>3, <2>1, <2>3 DEF Ascends
  <2> QED BY <2>2, <2>3
<1>4. ASSUME IsInjective(s), e \notin ToSet(s) PROVE IsInjective(t)
  <2> SUFFICES ASSUME NEW i \in DOMAIN t, NEW j \in DOMAIN t, t[i] = t[j] PROVE i = j
    BY DEF IsInjective
  <2>1. \A k \in DOMAIN t : k # Len(s) + 1 => k \in DOMAIN s /\ t[k] = s[k] /\ t[k] # e
    BY <1>1, <1>4 DEF ToSet
  <2>2. CASE i = Len(s) + 1 \/ j = Len(s) + 1
    BY <1>1, <2>1, <2>2
  <2>3. CASE i # Len(s) + 1 /\ j # Len(s) + 1
    BY <1>4, <2>1, <2>3 DEF IsInjective
  <2> QED BY <2>2, <2>3
<1> QED BY <1>1, <1>2, <1>3, <1>4 DEF t

LEMMA TailFacts ==
    ASSUME NEW s \in Seq(Events), s # <<>>
    PROVE  /\ Head(s) \in Events /\ Tail(s) \in Seq(Events)
           /\ ToSet(s) = {Head(s)} \cup ToSet(Tail(s))
           /\ Ascends(s) => /\ Ascends(Tail(s))
                            /\ \A x \in ToSet(Tail(s)) : Head(s) < x
                            /\ Head(s) \notin ToSet(Tail(s))
<1> DEFINE t == Tail(s)
<1>1. /\ Head(s) \in Events /\ t \in Seq(Events) /\ Len(t) = Len(s) - 1
      /\ Len(s) \in Nat \ {0} /\ DOMAIN s = 1 .. Len(s) /\ DOMAIN t = 1 .. Len(s) - 1
      /\ \A i \in 1 .. Len(s) - 1 : t[i] = s[i + 1]
      /\ Head(s) = s[1]
  BY HeadTailProperties, LenProperties, EmptySeq
<1> HIDE DEF t
<1>2. ToSet(s) = {Head(s)} \cup ToSet(t)
  <2>1. ASSUME NEW i \in DOMAIN s PROVE s[i] \in {Head(s)} \cup ToSet(t)
    <3>1. CASE i = 1
      BY <1>1, <3>1
    <3>2. CASE i # 1
      <4>1. i - 1 \in DOMAIN t /\ t[i - 1] = s[i]
        BY <1>1, <3>2
      <4> QED BY <4>1 DEF ToSet
    <3> QED BY <3>1, <3>2
  <2>2. Head(s) \in ToSet(s)
    <3>1. 1 \in DOMAIN s
      BY <1>1
    <3> QED BY <1>1, <3>1 DEF ToSet
  <2>3. ASSUME NEW i \in DOMAIN t PROVE t[i] \in ToSet(s)
    <3>1. i + 1 \in DOMAIN s /\ t[i] = s[i + 1]
      BY <1>1
    <3> QED BY <3>1 DEF ToSet
  <2> QED BY <2>1, <2>2, <2>3 DEF ToSet
<1>3. ASSUME Ascends(s)
      PROVE  Ascends(t) /\ \A x \in ToSet(t) : Head(s) < x
  <2>1. ASSUME NEW i \in DOMAIN t, NEW j \in DOMAIN t, i < j PROVE t[i] < t[j]
    <3>1. i + 1 \in DOMAIN s /\ j + 1 \in DOMAIN s /\ i + 1 < j + 1
      BY <1>1, <2>1
    <3> QED BY <1>1, <1>3, <3>1 DEF Ascends
  <2>2. ASSUME NEW i \in DOMAIN t PROVE Head(s) < t[i]
    <3>1. 1 \in DOMAIN s /\ i + 1 \in DOMAIN s /\ 1 < i + 1
      BY <1>1
    <3>2. s[1] < s[i + 1]
      BY <1>3, <3>1 DEF Ascends
    <3> QED BY <1>1, <3>2
  <2> QED BY <2>1, <2>2 DEF Ascends, ToSet
<1>4. (\A x \in ToSet(t) : Head(s) < x) => Head(s) \notin ToSet(t)
  BY <1>1 DEF Events
<1> QED BY <1>1, <1>2, <1>3, <1>4 DEF t

-----------------------------------------------------------------------------
(* The inductive invariant                                                 *)

(* Wikimedia's events come in the order of their publication, and one that *)
(* is waiting on the connection was published after all that were sent.    *)
StreamIsFresh ==
    /\ Ascends(stream)
    /\ \A x \in ToSet(stream) : x <= published /\ \A e \in sent : e < x
    /\ \A e \in sent : e <= published

(* A sent event is in at most one of the log, the buffer of the current    *)
(* client and those of the clients before it.                              *)
InOnePlace ==
    /\ ToSet(log) \subseteq sent
    /\ ToSet(buffer) \subseteq sent
    /\ orphans \subseteq sent
    /\ ToSet(log) \cap ToSet(buffer) = {}
    /\ ToSet(log) \cap orphans = {}
    /\ ToSet(buffer) \cap orphans = {}
    /\ Ascends(buffer)

(* The order is that of publication until something fails: no client is    *)
(* replaced, so there is one buffer, and it follows the log.               *)
UntilAFault ==
    faults = 0 =>
        /\ pc # "kafka error"
        /\ orphans = {}
        /\ Ascends(log)
        /\ \A x \in ToSet(log), y \in ToSet(buffer) : x < y

ProducerInv ==
    /\ TypeOK
    /\ StreamIsFresh
    /\ InOnePlace
    /\ NotTwice
    /\ UntilAFault
    /\ SentIsAccounted

LEMMA InitProducerInv == Init => ProducerInv
<1> SUFFICES ASSUME Init PROVE ProducerInv
  OBVIOUS
<1>1. TypeOK
  BY EmptyFacts, MaxEventsAssumption, MaxFaultsAssumption DEF Init, TypeOK, PCs
<1>2. StreamIsFresh /\ InOnePlace /\ UntilAFault /\ SentIsAccounted
  BY EmptyFacts DEF Init, StreamIsFresh, InOnePlace, UntilAFault, SentIsAccounted
<1>3. NotTwice
  BY DEF Init, NotTwice, IsInjective
<1> QED BY <1>1, <1>2, <1>3 DEF ProducerInv

LEMMA FaultType == TypeOK /\ Fault => faults' \in 0 .. MaxFaults /\ faults' # 0
BY MaxFaultsAssumption DEF TypeOK, Fault

(* Steps of the program and of Wikimedia that send nothing: what was on    *)
(* the connection stays, or is lost with it.                               *)
LEMMA ControlIInv ==
    ASSUME ProducerInv, UNCHANGED <<published, buffer, orphans, log, counters>>,
           stream' \in {stream, <<>>}, running' \in BOOLEAN, pc' \in PCs,
           faults' \in 0 .. MaxFaults, faults' # 0 \/ (faults = 0 /\ pc' # "kafka error")
    PROVE  ProducerInv'
<1>1. UNCHANGED <<sent, dropped, failed, forgotten>>
  BY DEF counters
<1>2. TypeOK'
  BY <1>1, EmptyFacts DEF ProducerInv, TypeOK
<1>3. StreamIsFresh'
  BY <1>1, EmptyFacts DEF ProducerInv, StreamIsFresh
<1>4. InOnePlace' /\ NotTwice' /\ SentIsAccounted'
  BY <1>1 DEF ProducerInv, InOnePlace, NotTwice, SentIsAccounted
<1>5. UntilAFault'
  BY DEF ProducerInv, UntilAFault
<1> QED BY <1>2, <1>3, <1>4, <1>5 DEF ProducerInv

(* The process ends: what its buffer held is left to the network.          *)
LEMMA EndsIInv ==
    ASSUME ProducerInv, NEW where \in PCs, where # "kafka error", Ends(where),
           faults' \in 0 .. MaxFaults, faults' = 0 => faults = 0 /\ buffer = <<>>
    PROVE  ProducerInv'
<1>1. /\ UNCHANGED <<published, running, log, sent, dropped, failed>>
      /\ pc' = where /\ stream' = <<>> /\ buffer' = <<>>
      /\ orphans' = orphans \cup ToSet(buffer)
      /\ forgotten' = forgotten \cup ToSet(buffer) \cup orphans
  BY DEF Ends
<1>2. TypeOK'
  BY <1>1, EmptyFacts DEF ProducerInv, TypeOK, InOnePlace
<1>3. StreamIsFresh'
  BY <1>1, EmptyFacts DEF ProducerInv, StreamIsFresh
<1>4. InOnePlace' /\ NotTwice'
  BY <1>1, EmptyFacts DEF ProducerInv, InOnePlace, NotTwice
<1>5. UntilAFault'
  BY <1>1, EmptyFacts DEF ProducerInv, UntilAFault
<1>6. SentIsAccounted'
  BY <1>1 DEF ProducerInv, SentIsAccounted
<1> QED BY <1>2, <1>3, <1>4, <1>5, <1>6 DEF ProducerInv

LEMMA PublishIInv == ProducerInv /\ Publish => ProducerInv'
<1> SUFFICES ASSUME ProducerInv, Publish PROVE ProducerInv'
  OBVIOUS
<1>1. /\ UNCHANGED <<pc, running, buffer, orphans, log, sent, dropped, failed, forgotten, faults>>
      /\ published' = published + 1
      /\ stream' \in {stream, Append(stream, published + 1)}
  BY DEF Publish, counters
<1>2. /\ published \in Nat /\ published' \in 0 .. MaxEvents /\ published + 1 \in Events
      /\ stream \in Seq(Events) /\ sent \subseteq Nat /\ ToSet(stream) \subseteq Nat
  BY <1>1, MaxEventsAssumption, ToSetType DEF Publish, ProducerInv, TypeOK, Events
<1>3. /\ stream' \in Seq(Events)
      /\ ToSet(stream') \subseteq ToSet(stream) \cup {published + 1}
      /\ Ascends(stream')
  <2>1. \A x \in ToSet(stream) : x < published + 1
    BY <1>2 DEF ProducerInv, StreamIsFresh
  <2> QED BY <1>1, <1>2, <2>1, AppendFacts DEF ProducerInv, StreamIsFresh
<1>4. TypeOK'
  BY <1>1, <1>2, <1>3 DEF ProducerInv, TypeOK
<1>5. StreamIsFresh'
  <2>1. \A x \in ToSet(stream) : x <= published' /\ \A e \in sent : e < x
    BY <1>1, <1>2 DEF ProducerInv, StreamIsFresh
  <2>2. \A e \in sent : e <= published' /\ e < published + 1
    BY <1>1, <1>2 DEF ProducerInv, StreamIsFresh
  <2> QED BY <1>1, <1>2, <1>3, <2>1, <2>2 DEF StreamIsFresh
<1>6. InOnePlace' /\ NotTwice' /\ UntilAFault' /\ SentIsAccounted'
  BY <1>1 DEF ProducerInv, InOnePlace, NotTwice, UntilAFault, SentIsAccounted
<1> QED BY <1>4, <1>5, <1>6 DEF ProducerInv

(* The first event of the buffer leaves it: for the log, as failed, or     *)
(* both when only the answer was lost.                                     *)
LEMMA BufferIInv == ProducerInv /\ (Delivered \/ SendError) => ProducerInv'
<1> SUFFICES ASSUME ProducerInv, Delivered \/ SendError PROVE ProducerInv'
  OBVIOUS
<1> DEFINE e == Head(buffer)
<1>1. /\ UNCHANGED <<published, stream, pc, running, orphans, sent, dropped, forgotten>>
      /\ buffer # <<>>
      /\ buffer' = Tail(buffer)
      /\ log' \in {log, Append(log, e)}
      /\ failed' = failed \/ failed' = failed \cup {e}
      /\ failed' = failed => log' = Append(log, e) \/ e \in failed
      /\ faults' \in 0 .. MaxFaults /\ (faults' = 0 => faults = 0 /\ log' = Append(log, e))
  <2>1. TypeOK /\ faults \in 0 .. MaxFaults
    BY DEF ProducerInv, TypeOK
  <2>2. CASE Delivered
    BY <2>1, <2>2 DEF Delivered, counters
  <2>3. CASE SendError
    BY <2>1, <2>3, FaultType DEF SendError
  <2> QED BY <2>2, <2>3
<1>2. /\ log \in Seq(Events) /\ e \in Events /\ buffer' \in Seq(Events)
      /\ ToSet(buffer) = {e} \cup ToSet(buffer')
      /\ Ascends(buffer') /\ \A x \in ToSet(buffer') : e < x
      /\ e \notin ToSet(buffer')
  BY <1>1, TailFacts DEF ProducerInv, TypeOK, InOnePlace
<1> HIDE DEF e
<1>3. e \in sent /\ e \notin ToSet(log) /\ e \notin orphans
  BY <1>2 DEF ProducerInv, InOnePlace
<1>4. /\ log' \in Seq(Events)
      /\ ToSet(log) \subseteq ToSet(log') /\ ToSet(log') \subseteq ToSet(log) \cup {e}
      /\ IsInjective(log')
      /\ log' = Append(log, e) => e \in ToSet(log')
  <2>1. IsInjective(log)
    BY DEF ProducerInv, NotTwice
  <2>2. /\ Append(log, e) \in Seq(Events)
        /\ ToSet(Append(log, e)) = ToSet(log) \cup {e}
        /\ IsInjective(Append(log, e))
    BY <1>2, <1>3, <2>1, AppendFacts
  <2>3. CASE log' = Append(log, e)
    BY <2>2, <2>3
  <2>4. CASE log' # Append(log, e)
    BY <1>1, <1>2, <2>1, <2>4
  <2> QED BY <2>3, <2>4
<1>5. TypeOK'
  BY <1>1, <1>2, <1>3, <1>4 DEF ProducerInv, TypeOK
<1>6. StreamIsFresh' /\ NotTwice'
  BY <1>1, <1>4 DEF ProducerInv, StreamIsFresh, NotTwice
<1>7. InOnePlace'
  BY <1>1, <1>2, <1>3, <1>4 DEF ProducerInv, InOnePlace
<1>8. UntilAFault'
  <2> SUFFICES ASSUME faults' = 0 PROVE UntilAFault'
    BY DEF UntilAFault
  <2>1. faults = 0 /\ log' = Append(log, e)
    BY <1>1
  <2>2. /\ pc # "kafka error" /\ orphans = {} /\ Ascends(log)
        /\ \A x \in ToSet(log), y \in ToSet(buffer) : x < y
    BY <2>1 DEF ProducerInv, UntilAFault
  <2>3. Ascends(log')
    BY <1>2, <2>1, <2>2, AppendFacts
  <2>4. \A x \in ToSet(log'), y \in ToSet(buffer') : x < y
    BY <1>2, <1>4, <2>2
  <2> QED BY <1>1, <2>2, <2>3, <2>4 DEF UntilAFault
<1>9. SentIsAccounted'
  BY <1>1, <1>2, <1>4 DEF ProducerInv, SentIsAccounted
<1> QED BY <1>5, <1>6, <1>7, <1>8, <1>9 DEF ProducerInv

(* An event of a client that was given up arrives after all, or does not.  *)
LEMMA OrphanIInv ==
    ProducerInv /\ (\E e \in Events : OrphanDelivered(e) \/ OrphanFails(e)) => ProducerInv'
<1> SUFFICES ASSUME ProducerInv, NEW e \in Events, OrphanDelivered(e) \/ OrphanFails(e) PROVE ProducerInv'
  OBVIOUS
<1>1. /\ UNCHANGED <<published, stream, pc, running, buffer, sent, dropped, forgotten, faults>>
      /\ e \in orphans
      /\ orphans' = orphans \ {e}
      /\ log' \in {log, Append(log, e)}
      /\ failed' \in {failed, failed \cup {e}}
      /\ log' = Append(log, e) \/ e \in failed' \/ e \in forgotten
  BY DEF OrphanDelivered, OrphanFails, counters
<1>2. /\ e \in sent /\ e \notin ToSet(log) /\ e \notin ToSet(buffer)
      /\ log \in Seq(Events) /\ faults # 0
  BY <1>1 DEF ProducerInv, TypeOK, InOnePlace, UntilAFault
<1>3. /\ log' \in Seq(Events)
      /\ ToSet(log) \subseteq ToSet(log') /\ ToSet(log') \subseteq ToSet(log) \cup {e}
      /\ IsInjective(log')
      /\ log' = Append(log, e) => e \in ToSet(log')
  BY <1>1, <1>2, AppendFacts DEF ProducerInv, NotTwice
<1>4. TypeOK'
  BY <1>1, <1>2, <1>3 DEF ProducerInv, TypeOK
<1>5. StreamIsFresh' /\ NotTwice' /\ UntilAFault'
  BY <1>1, <1>2, <1>3 DEF ProducerInv, StreamIsFresh, NotTwice, UntilAFault
<1>6. InOnePlace'
  BY <1>1, <1>2, <1>3 DEF ProducerInv, InOnePlace
<1>7. SentIsAccounted'
  BY <1>1, <1>3 DEF ProducerInv, SentIsAccounted
<1> QED BY <1>4, <1>5, <1>6, <1>7 DEF ProducerInv

(* The new client starts with an empty buffer, and only after a failure.   *)
LEMMA ReplaceIInv == ProducerInv /\ Replace => ProducerInv'
<1> SUFFICES ASSUME ProducerInv, Replace PROVE ProducerInv'
  OBVIOUS
<1>1. /\ UNCHANGED <<published, stream, running, log, sent, dropped, failed, forgotten, faults>>
      /\ pc = "kafka error" /\ pc' = "connect"
      /\ buffer' = <<>>
      /\ orphans' = orphans \cup ToSet(buffer)
  BY DEF Replace, counters
<1>2. TypeOK'
  BY <1>1, EmptyFacts, ToSetType DEF ProducerInv, TypeOK, PCs
<1>3. StreamIsFresh' /\ NotTwice' /\ SentIsAccounted'
  BY <1>1 DEF ProducerInv, StreamIsFresh, NotTwice, SentIsAccounted
<1>4. InOnePlace'
  BY <1>1, EmptyFacts DEF ProducerInv, InOnePlace
<1>5. UntilAFault'
  BY <1>1 DEF ProducerInv, UntilAFault
<1> QED BY <1>2, <1>3, <1>4, <1>5 DEF ProducerInv

LEMMA DropEventIInv == ProducerInv /\ DropEvent => ProducerInv'
<1> SUFFICES ASSUME ProducerInv, DropEvent PROVE ProducerInv'
  OBVIOUS
<1>1. /\ UNCHANGED <<published, pc, running, buffer, orphans, log, sent, failed, forgotten, faults>>
      /\ stream # <<>> /\ stream' = Tail(stream)
      /\ dropped' = dropped \cup {Head(stream)} /\ Head(stream) \in Unusable
  BY DEF DropEvent, Handle
<1>2. /\ stream' \in Seq(Events) /\ ToSet(stream') \subseteq ToSet(stream) /\ Ascends(stream')
  BY <1>1, TailFacts DEF ProducerInv, TypeOK, StreamIsFresh
<1>3. TypeOK'
  BY <1>1, <1>2 DEF ProducerInv, TypeOK
<1>4. StreamIsFresh'
  BY <1>1, <1>2 DEF ProducerInv, StreamIsFresh
<1>5. InOnePlace' /\ NotTwice' /\ UntilAFault' /\ SentIsAccounted'
  BY <1>1 DEF ProducerInv, InOnePlace, NotTwice, UntilAFault, SentIsAccounted
<1> QED BY <1>3, <1>4, <1>5 DEF ProducerInv

(* The event in hand is newer than all that were sent, so it is in none of *)
(* the buffers and not in the log.                                         *)
LEMMA SendIInv == ProducerInv /\ Send => ProducerInv'
<1> SUFFICES ASSUME ProducerInv, Send PROVE ProducerInv'
  OBVIOUS
<1> DEFINE e == Head(stream)
<1>1. /\ UNCHANGED <<published, pc, running, orphans, log, dropped, failed, forgotten, faults>>
      /\ stream # <<>> /\ stream' = Tail(stream)
      /\ e \notin Unusable
      /\ buffer' = Append(buffer, e)
      /\ sent' = sent \cup {e}
  BY DEF Send, Handle
<1>2. /\ e \in Events /\ stream' \in Seq(Events)
      /\ ToSet(stream) = {e} \cup ToSet(stream')
      /\ Ascends(stream') /\ \A x \in ToSet(stream') : e < x
  BY <1>1, TailFacts DEF ProducerInv, TypeOK, StreamIsFresh
<1> HIDE DEF e
<1>3. \A x \in sent : x < e
  BY <1>2 DEF ProducerInv, StreamIsFresh
<1>4. e \notin sent
  BY <1>2, <1>3 DEF Events
<1>5. /\ buffer' \in Seq(Events) /\ ToSet(buffer') = ToSet(buffer) \cup {e}
      /\ Ascends(buffer')
  <2>1. \A x \in ToSet(buffer) : x < e
    BY <1>3 DEF ProducerInv, InOnePlace
  <2> QED BY <1>1, <1>2, <2>1, AppendFacts DEF ProducerInv, TypeOK, InOnePlace
<1>6. TypeOK'
  BY <1>1, <1>2, <1>5 DEF ProducerInv, TypeOK
<1>7. StreamIsFresh'
  BY <1>1, <1>2 DEF ProducerInv, StreamIsFresh
<1>8. InOnePlace'
  BY <1>1, <1>4, <1>5 DEF ProducerInv, InOnePlace
<1>9. NotTwice' /\ SentIsAccounted'
  BY <1>1, <1>5 DEF ProducerInv, NotTwice, SentIsAccounted
<1>10. UntilAFault'
  <2>1. \A x \in ToSet(log) : x < e
    BY <1>3 DEF ProducerInv, InOnePlace
  <2> QED BY <1>1, <1>5, <2>1 DEF ProducerInv, UntilAFault
<1> QED BY <1>6, <1>7, <1>8, <1>9, <1>10 DEF ProducerInv

LEMMA NextProducerInv == ProducerInv /\ [Next]_vars => ProducerInv'
<1> SUFFICES ASSUME ProducerInv, [Next]_vars PROVE ProducerInv'
  OBVIOUS
<1>1. TypeOK /\ running \in BOOLEAN /\ faults \in 0 .. MaxFaults /\ pc \in PCs
  BY DEF ProducerInv, TypeOK
<1>2. CASE UNCHANGED vars
  <2>1. faults = 0 => pc # "kafka error"
    BY DEF ProducerInv, UntilAFault
  <2> QED BY <1>1, <1>2, <2>1, ControlIInv DEF vars
<1>3. CASE Stop
  <2>1. faults = 0 => pc # "kafka error"
    BY DEF ProducerInv, UntilAFault
  <2> QED BY <1>1, <1>3, <2>1, ControlIInv DEF Stop
<1>4. CASE Start \/ Connect \/ SseError \/ StreamEnds \/ Reconnect \/ Leave
  BY <1>1, <1>4, ControlIInv DEF Start, Connect, SseError, StreamEnds, Reconnect, Leave, PCs
<1>5. CASE SendRaises
  BY <1>1, <1>5, ControlIInv, FaultType DEF SendRaises, PCs
<1>6. CASE Crash \/ ReplaceFails \/ DrainTimesOut
  BY <1>1, <1>6, EndsIInv, FaultType DEF Crash, ReplaceFails, DrainTimesOut, PCs
<1>7. CASE Drain
  BY <1>1, <1>7, EndsIInv DEF Drain, PCs
<1> QED BY <1>2, <1>3, <1>4, <1>5, <1>6, <1>7, PublishIInv, BufferIInv, OrphanIInv,
           ReplaceIInv, DropEventIInv, SendIInv DEF Next

LEMMA ProducerInvariant == Spec => []ProducerInv
BY InitProducerInv, NextProducerInv, PTL DEF Spec

(* The program's state keeps its shape; in particular only usable events   *)
(* are sent, and only sent ones fail.                                      *)
THEOREM ProducerTypeCorrect == Spec => []TypeOK
<1>1. ProducerInv => TypeOK
  BY DEF ProducerInv
<1> QED BY <1>1, ProducerInvariant, PTL

(* No event is in Kafka twice, however often the connection to Wikimedia,  *)
(* the Kafka client or the process is replaced.                            *)
THEOREM ProducerSendsOnce == Spec => []NotTwice
<1>1. ProducerInv => NotTwice
  BY DEF ProducerInv
<1> QED BY <1>1, ProducerInvariant, PTL

(* Until Kafka or the process fails, the partition holds the events in the *)
(* order in which they were published.                                     *)
THEOREM ProducerKeepsOrder == Spec => []OrderWithoutFaults
<1>1. ProducerInv => OrderWithoutFaults
  <2> SUFFICES ASSUME ProducerInv, faults = 0 PROVE \A i, j \in 1 .. Len(log) : i < j => log[i] < log[j]
    BY DEF OrderWithoutFaults
  <2>1. Ascends(log) /\ DOMAIN log = 1 .. Len(log)
    BY LenProperties DEF ProducerInv, UntilAFault, TypeOK
  <2> QED BY <2>1 DEF Ascends
<1> QED BY <1>1, ProducerInvariant, PTL

(* An event counted as sent is in Kafka, on its way there, counted as an   *)
(* error, or went with its process: none disappears.                       *)
THEOREM ProducerAccountsForSent == Spec => []SentIsAccounted
<1>1. ProducerInv => SentIsAccounted
  BY DEF ProducerInv
<1> QED BY <1>1, ProducerInvariant, PTL

(***************************************************************************)
(* THE WINDOW HISTORY IN REDIS                                             *)
(***************************************************************************)

-----------------------------------------------------------------------------
(* The inductive invariant                                                 *)

(* What a partition wrote is in the history, is not of the future, and     *)
(* stands until the hash that holds it is due to expire.                   *)
LastFits ==
    \A w \in StoredWindows, p \in Writers :
        last[w][p] # NoSlice =>
            /\ w \in listed
            /\ last[w][p] <= clock
            /\ Live(w) => last[w][p] + TTL <= expires[w]

SinkInv ==
    /\ SinkTypeOK
    /\ IsFiniteSet(listed)
    /\ HistoryIsNewest
    /\ LastFits
    /\ SlicesAreLastWritten

LEMMA IndexIsNewest == HistoryIsNewest => store.index = NewestOf(listed, HistoryMax)
BY DEF HistoryIsNewest, NewestOf, Above

LEMMA InitSinkInv == SinkInit => SinkInv
<1> SUFFICES ASSUME SinkInit PROVE SinkInv
  OBVIOUS
<1> USE DEF SinkInit
<1>1. /\ store.index = {} /\ store.slices = [w \in StoredWindows |-> NoHash]
      /\ \A w \in StoredWindows : ~Live(w)
  BY DEF EmptyStore, Live
<1>2. SinkTypeOK
  BY <1>1, MaxClockAssumption DEF SinkTypeOK, NoHash
<1>3. IsFiniteSet(listed)
  BY FS_EmptySet
<1>4. HistoryIsNewest
  BY <1>1 DEF HistoryIsNewest
<1>5. LastFits /\ SlicesAreLastWritten
  BY <1>1 DEF LastFits, SlicesAreLastWritten, NoHash
<1> QED BY <1>2, <1>3, <1>4, <1>5 DEF SinkInv

-----------------------------------------------------------------------------
(* What a batch does to the store: the union is trimmed to its newest, the *)
(* hashes of trimmed windows go, and of the others only the fields of the  *)
(* batch's partition change.                                               *)
Overwritten(p, B, w) == [q \in Writers |-> IF q = p /\ w \in B THEN clock
                                            ELSE store.slices[w][q]]

LEMMA WriteIInv ==
    ASSUME SinkInv, NEW p \in Writers, NEW from \in StoredWindows, NEW to \in StoredWindows,
           WriteBatch(p, from, to)
    PROVE  SinkInv'
<1> DEFINE B == from .. to
           T == store.index \cup B
<1>1. /\ B \subseteq StoredWindows /\ IsFiniteSet(B) /\ StoredWindows \subseteq Int
      /\ store'.index = NewestOf(T, HistoryMax)
      /\ \A w \in T \ NewestOf(T, HistoryMax) : store'.slices[w] = NoHash
      /\ \A w \in StoredWindows : w \notin T \ NewestOf(T, HistoryMax) =>
           store'.slices[w] = Overwritten(p, B, w)
  <2> DEFINE E == Batch(p, from, to)
             mid == Upsert(store, E)
  <2>1. B \subseteq StoredWindows /\ IsFiniteSet(B) /\ StoredWindows \subseteq Int
    BY StoredWindowsAssumption, FS_Interval
  <2> HIDE DEF B
  <2>2. E = {<<p, w, clock>> : w \in B}
    BY DEF Batch, B
  <2> HIDE DEF E
  <2>3. \A w \in B : Entry(E, w, p) = {<<p, w, clock>>}
    BY <2>2 DEF Entry
  <2>4. \A w, q : ~(q = p /\ w \in B) => Entry(E, w, q) = {}
    BY <2>2 DEF Entry
  <2>5. {e[2] : e \in E} = B
    <3>1. \A e \in E : e[2] \in B
      BY <2>2
    <3>2. \A w \in B : <<p, w, clock>> \in E /\ <<p, w, clock>>[2] = w
      BY <2>2
    <3> QED BY <3>1, <3>2, Zenon
  <2>6. mid.index = T
    BY <2>5 DEF Upsert, B
  <2>7. \A w \in StoredWindows :
          mid.slices[w] = [q \in Writers |-> IF q = p /\ w \in B THEN clock
                                             ELSE store.slices[w][q]]
    <3> SUFFICES ASSUME NEW w \in StoredWindows
                 PROVE mid.slices[w] = [q \in Writers |-> IF q = p /\ w \in B THEN clock
                                                          ELSE store.slices[w][q]]
      OBVIOUS
    <3>1. mid.slices[w] = [q \in Writers |-> IF Entry(E, w, q) # {}
                              THEN (CHOOSE e \in Entry(E, w, q) : TRUE)[3]
                              ELSE store.slices[w][q]]
      BY DEF Upsert
    <3>2. ASSUME NEW q \in Writers
          PROVE (IF Entry(E, w, q) # {} THEN (CHOOSE e \in Entry(E, w, q) : TRUE)[3]
                                        ELSE store.slices[w][q])
                = (IF q = p /\ w \in B THEN clock ELSE store.slices[w][q])
      <4>1. CASE q = p /\ w \in B
        <5>1. Entry(E, w, q) = {<<p, w, clock>>}
          BY <2>3, <4>1
        <5>2. (CHOOSE e \in Entry(E, w, q) : TRUE) = <<p, w, clock>>
          BY <5>1
        <5> QED BY <4>1, <5>1, <5>2
      <4>2. CASE ~(q = p /\ w \in B)
        BY <2>4, <4>2
      <4> QED BY <4>1, <4>2
    <3> QED BY <3>1, <3>2
  <2>8. T \subseteq StoredWindows /\ IsFiniteSet(T)
    <3>1. IsFiniteSet(store.index)
      <4>1. store.index \in SUBSET listed
        BY DEF SinkInv, HistoryIsNewest
      <4> QED BY <4>1, FS_Subset DEF SinkInv
    <3> QED BY <2>1, <3>1, FS_Union DEF B, SinkInv, SinkTypeOK
  <2>9. Stale(T) = T \ NewestOf(T, HistoryMax)
    <3>1. \A w \in T : Cardinality(Above(T, w)) \in Nat
      BY <2>1, <2>8, AboveFacts
    <3>2. \A a \in Nat : a >= HistoryMax <=> ~(a < HistoryMax)
      BY HistoryMaxAssumption
    <3>3. Stale(T) = {w \in T : Cardinality(Above(T, w)) >= HistoryMax}
      BY DEF Stale, Above
    <3> QED BY <3>1, <3>2, <3>3, Zenon DEF NewestOf
  <2>10. store' = Trim(mid)
    BY DEF WriteBatch, Write, E
  <2> HIDE DEF mid
  <2>11. store'.index = T \ Stale(T)
    BY <2>6, <2>10 DEF Trim
  <2>12. \A w \in StoredWindows :
           store'.slices[w] = IF w \in Stale(T) THEN NoHash ELSE mid.slices[w]
    BY <2>6, <2>10 DEF Trim
  <2>13. NewestOf(T, HistoryMax) \subseteq T
    BY DEF NewestOf
  <2> QED BY <2>1, <2>7, <2>8, <2>9, <2>11, <2>12, <2>13 DEF B, Overwritten
<1>2. /\ expires' = [w \in StoredWindows |->
                       IF store'.slices[w] = NoHash THEN 0
                       ELSE IF w \in B THEN clock + TTL
                       ELSE expires[w]]
      /\ last' = [w \in StoredWindows |->
                    IF w \in B THEN [last[w] EXCEPT ![p] = clock] ELSE last[w]]
      /\ listed' = listed \cup B /\ clock' = clock
  BY DEF WriteBatch
<1>3. /\ T = store.index \cup B /\ NewestOf(T, HistoryMax) \subseteq T /\ T \subseteq StoredWindows
      /\ listed \subseteq StoredWindows /\ IsFiniteSet(listed)
      /\ store.index = NewestOf(listed, HistoryMax) /\ NewestOf(listed, HistoryMax) \subseteq listed
      /\ clock \in 0 .. MaxClock
  BY <1>1, IndexIsNewest DEF SinkInv, SinkTypeOK, NewestOf
<1>4. store' = [index |-> store'.index, slices |-> store'.slices]
      /\ store'.slices = [w \in StoredWindows |-> store'.slices[w]]
  BY DEF WriteBatch, Write, Trim
<1> HIDE DEF B, T
<1>5. \A w \in StoredWindows, q \in Writers :
        last'[w][q] = IF q = p /\ w \in B THEN clock ELSE last[w][q]
  BY <1>2 DEF SinkInv, SinkTypeOK
<1>6. \A w \in StoredWindows : w \notin B /\ w \notin T \ NewestOf(T, HistoryMax) =>
        store'.slices[w] = store.slices[w]
  <2> SUFFICES ASSUME NEW w \in StoredWindows, w \notin B, w \notin T \ NewestOf(T, HistoryMax)
               PROVE store'.slices[w] = store.slices[w]
    OBVIOUS
  <2>1. store'.slices[w] = [q \in Writers |-> store.slices[w][q]]
    BY <1>1 DEF Overwritten
  <2>2. store.slices[w] \in [Writers -> 0 .. MaxClock \cup {NoSlice}]
    BY DEF SinkInv, SinkTypeOK
  <2> QED BY <2>1, <2>2
<1>7. ASSUME NEW w \in StoredWindows, Live(w)'
      PROVE  w \in store'.index /\ (w \notin B => store'.slices[w] = store.slices[w] /\ Live(w))
  <2>1. store'.slices[w] # NoHash /\ w \notin T \ NewestOf(T, HistoryMax)
    BY <1>1, <1>7 DEF Live
  <2>2. w \notin B => store'.slices[w] = store.slices[w] /\ Live(w)
    BY <1>6, <2>1 DEF Live
  <2>3. w \in T
    BY <1>3, <2>2 DEF SinkInv, HistoryIsNewest
  <2> QED BY <1>1, <2>1, <2>2, <2>3
<1>8. SinkTypeOK'
  <2>1. \A w \in StoredWindows : store'.slices[w] \in [Writers -> 0 .. MaxClock \cup {NoSlice}]
    <3> SUFFICES ASSUME NEW w \in StoredWindows
                 PROVE store'.slices[w] \in [Writers -> 0 .. MaxClock \cup {NoSlice}]
      OBVIOUS
    <3>1. NoHash \in [Writers -> 0 .. MaxClock \cup {NoSlice}]
      BY DEF NoHash
    <3>2. store.slices[w] \in [Writers -> 0 .. MaxClock \cup {NoSlice}]
      BY DEF SinkInv, SinkTypeOK
    <3>3. Overwritten(p, B, w) \in [Writers -> 0 .. MaxClock \cup {NoSlice}]
      BY <1>3, <3>2 DEF Overwritten
    <3> QED BY <1>1, <3>1, <3>3
  <2>2. store'.slices \in [StoredWindows -> [Writers -> 0 .. MaxClock \cup {NoSlice}]]
    BY <1>4, <2>1
  <2>3. \A w \in StoredWindows :
          last'[w] \in [Writers -> 0 .. MaxClock \cup {NoSlice}]
    BY <1>2, <1>3 DEF SinkInv, SinkTypeOK
  <2>4. last' \in [StoredWindows -> [Writers -> 0 .. MaxClock \cup {NoSlice}]]
    BY <1>2, <2>3
  <2>5. expires' \in [StoredWindows -> Nat]
    <3>1. clock + TTL \in Nat
      BY <1>3, TTLAssumption, MaxClockAssumption
    <3> QED BY <1>2, <3>1 DEF SinkInv, SinkTypeOK
  <2>6. store'.index \subseteq StoredWindows /\ listed' \subseteq StoredWindows
    BY <1>1, <1>2, <1>3
  <2> QED BY <1>2, <1>3, <2>2, <2>4, <2>5, <2>6 DEF SinkTypeOK
<1>9. IsFiniteSet(listed')
  BY <1>1, <1>2, <1>3, FS_Union
<1>10. store'.index = NewestOf(listed \cup B, HistoryMax)
  <2>1. listed \subseteq Int /\ B \subseteq Int
    BY <1>1, <1>3
  <2>2. NewestOf(NewestOf(listed, HistoryMax) \cup B, HistoryMax) = NewestOf(listed \cup B, HistoryMax)
    BY <1>1, <1>3, <2>1, NewestOfUnion, HistoryMaxAssumption
  <2> QED BY <1>1, <1>3, <2>2
<1>11. HistoryIsNewest'
  BY <1>2, <1>7, <1>10 DEF HistoryIsNewest, NewestOf, Above
<1>12. LastFits'
  <2> SUFFICES ASSUME NEW w \in StoredWindows, NEW q \in Writers, last'[w][q] # NoSlice
               PROVE  /\ w \in listed' /\ last'[w][q] <= clock
                      /\ Live(w)' => last'[w][q] + TTL <= expires'[w]
    BY <1>2 DEF LastFits
  <2>1. last'[w][q] \in 0 .. MaxClock /\ clock \in Int /\ TTL \in Nat
    BY <1>3, <1>8, TTLAssumption DEF SinkTypeOK
  <2>2. w \in listed' /\ last'[w][q] <= clock
    BY <1>2, <1>3, <1>5, <2>1 DEF SinkInv, LastFits
  <2>3. ASSUME Live(w)' PROVE last'[w][q] + TTL <= expires'[w]
    <3>1. expires'[w] = IF w \in B THEN clock + TTL ELSE expires[w]
      BY <1>2, <2>3 DEF Live
    <3>2. CASE w \in B
      BY <2>1, <2>2, <3>1, <3>2
    <3>3. CASE w \notin B
      BY <1>5, <1>7, <2>3, <3>1, <3>3 DEF SinkInv, LastFits
    <3> QED BY <3>2, <3>3
  <2> QED BY <2>2, <2>3
<1>13. SlicesAreLastWritten'
  <2> SUFFICES ASSUME NEW w \in StoredWindows, NEW q \in Writers
               PROVE  \/ store'.slices[w][q] = last'[w][q]
                      \/ /\ store'.slices[w][q] = NoSlice
                         /\ w \in store'.index => last'[w][q] + TTL <= clock
    BY <1>2 DEF SlicesAreLastWritten
  <2>1. CASE w \in T \ NewestOf(T, HistoryMax)
    BY <1>1, <2>1 DEF NoHash
  <2>2. CASE w \notin T \ NewestOf(T, HistoryMax)
    <3>1. store'.slices[w][q] = IF q = p /\ w \in B THEN clock ELSE store.slices[w][q]
      <4>1. store'.slices[w] = Overwritten(p, B, w)
        BY <1>1, <2>2
      <4> QED BY <4>1 DEF Overwritten
    <3>2. CASE q = p /\ w \in B
      BY <1>5, <3>1, <3>2
    <3>3. CASE ~(q = p /\ w \in B) /\ (w \in store.index \/ w \notin store'.index)
      <4>1. store'.slices[w][q] = store.slices[w][q]
        BY <3>1, <3>3
      <4>2. last'[w][q] = last[w][q]
        BY <1>5, <3>3
      <4>3. \/ store.slices[w][q] = last[w][q]
            \/ /\ store.slices[w][q] = NoSlice
               /\ w \in store.index => last[w][q] + TTL <= clock
        BY DEF SinkInv, SlicesAreLastWritten
      <4> HIDE DEF T
      <4> QED BY <3>3, <4>1, <4>2, <4>3
    <3>4. CASE ~(q = p /\ w \in B) /\ w \notin store.index /\ w \in store'.index
      <4>1. w \notin listed
        <5>1. listed \subseteq Int /\ B \subseteq Int
          BY <1>1, <1>3
        <5>2. w \in NewestOf(listed \cup B, HistoryMax)
          BY <1>10, <3>4
        <5>3. w \in listed => w \in NewestOf(listed, HistoryMax)
          BY <1>1, <1>3, <5>1, <5>2, NewestOfFewer, HistoryMaxAssumption
        <5> QED BY <1>3, <3>4, <5>3
      <4>2. last[w][q] = NoSlice
        BY <4>1 DEF SinkInv, LastFits
      <4>3. store.slices[w][q] = NoSlice
        BY <4>2 DEF SinkInv, SlicesAreLastWritten
      <4> QED BY <1>5, <3>1, <3>4, <4>2, <4>3
    <3> QED BY <3>2, <3>3, <3>4
  <2> QED BY <2>1, <2>2
<1> QED BY <1>8, <1>9, <1>11, <1>12, <1>13 DEF SinkInv

LEMMA ExpireIInv ==
    ASSUME SinkInv, NEW w \in StoredWindows, Expire(w)
    PROVE  SinkInv'
<1>1. /\ Live(w) /\ expires[w] <= clock /\ UNCHANGED <<clock, last, listed>>
      /\ store'.index = store.index
      /\ store'.slices = [store.slices EXCEPT ![w] = NoHash]
      /\ expires' = [expires EXCEPT ![w] = 0]
  BY DEF Expire, ExpireHash, Live
<1>2. /\ store'.slices[w] = NoHash
      /\ \A v \in StoredWindows : v # w => /\ store'.slices[v] = store.slices[v]
                                           /\ expires'[v] = expires[v]
  BY <1>1 DEF SinkInv, SinkTypeOK
<1>3. \A v \in StoredWindows : Live(v)' => Live(v) /\ v # w
  BY <1>2 DEF Live
<1>4. SinkTypeOK'
  <2>1. NoHash \in [Writers -> 0 .. MaxClock \cup {NoSlice}]
    BY DEF NoHash
  <2> QED BY <1>1, <2>1 DEF SinkInv, SinkTypeOK
<1>5. IsFiniteSet(listed') /\ HistoryIsNewest'
  BY <1>1, <1>3 DEF SinkInv, HistoryIsNewest
<1>6. LastFits'
  BY <1>1, <1>2, <1>3 DEF SinkInv, LastFits
<1>7. SlicesAreLastWritten'
  <2> SUFFICES ASSUME NEW v \in StoredWindows, NEW q \in Writers
               PROVE  \/ store'.slices[v][q] = last[v][q]
                      \/ /\ store'.slices[v][q] = NoSlice
                         /\ v \in store.index => last[v][q] + TTL <= clock
    BY <1>1 DEF SlicesAreLastWritten
  <2>1. CASE v # w
    BY <1>2, <2>1 DEF SinkInv, SlicesAreLastWritten
  <2>2. CASE v = w
    <3>1. store'.slices[v][q] = NoSlice
      BY <1>2, <2>2 DEF NoHash
    <3>2. CASE last[v][q] # NoSlice
      <4>1. last[v][q] + TTL <= expires[v]
        BY <1>1, <2>2, <3>2 DEF SinkInv, LastFits
      <4>2. last[v][q] \in Int /\ expires[v] \in Int /\ clock \in Int /\ TTL \in Int
        BY <3>2, TTLAssumption DEF SinkInv, SinkTypeOK
      <4> QED BY <1>1, <2>2, <3>1, <4>1, <4>2
    <3> QED BY <3>1, <3>2
  <2> QED BY <2>1, <2>2
<1> QED BY <1>4, <1>5, <1>6, <1>7 DEF SinkInv

LEMMA TickIInv == SinkInv /\ Tick => SinkInv'
<1> SUFFICES ASSUME SinkInv, Tick PROVE SinkInv'
  OBVIOUS
<1>1. clock < MaxClock /\ clock' = clock + 1 /\ UNCHANGED <<store, expires, last, listed>>
  BY DEF Tick
<1>2. SinkTypeOK'
  BY <1>1, MaxClockAssumption DEF SinkInv, SinkTypeOK
<1>3. IsFiniteSet(listed') /\ HistoryIsNewest'
  BY <1>1 DEF SinkInv, HistoryIsNewest, Live
<1>4. /\ clock \in Int /\ TTL \in Int
      /\ \A w \in StoredWindows, p \in Writers : last[w][p] # NoSlice => last[w][p] \in Int
  BY TTLAssumption DEF SinkInv, SinkTypeOK
<1>5. LastFits'
  BY <1>1, <1>4 DEF SinkInv, LastFits, Live
<1>6. SlicesAreLastWritten'
  <2> SUFFICES ASSUME NEW w \in StoredWindows, NEW p \in Writers
               PROVE  \/ store.slices[w][p] = last[w][p]
                      \/ /\ store.slices[w][p] = NoSlice
                         /\ w \in store.index => last[w][p] + TTL <= clock + 1
    BY <1>1 DEF SlicesAreLastWritten
  <2> QED BY <1>4 DEF SinkInv, SlicesAreLastWritten
<1> QED BY <1>2, <1>3, <1>5, <1>6 DEF SinkInv

LEMMA NextSinkInv == SinkInv /\ [SinkNext]_sinkVars => SinkInv'
<1> SUFFICES ASSUME SinkInv, [SinkNext]_sinkVars PROVE SinkInv'
  OBVIOUS
<1>1. CASE UNCHANGED sinkVars
  BY <1>1 DEF sinkVars, SinkInv, SinkTypeOK, HistoryIsNewest, LastFits, SlicesAreLastWritten, Live
<1> QED BY <1>1, WriteIInv, ExpireIInv, TickIInv DEF SinkNext

LEMMA SinkInvariant == SinkSpec => []SinkInv
BY InitSinkInv, NextSinkInv, PTL DEF SinkSpec

-----------------------------------------------------------------------------
(* The index, the hashes and their expiry keep their shape.                *)
THEOREM RedisTypeCorrect == SinkSpec => []SinkTypeOK
<1>1. SinkInv => SinkTypeOK
  BY DEF SinkInv
<1> QED BY <1>1, SinkInvariant, PTL

(* The history is the newest HistoryMax windows ever written, however the  *)
(* partitions' batches interleave, and nothing is kept beside it.          *)
THEOREM RedisHistoryIsNewest == SinkSpec => []HistoryIsNewest
<1>1. SinkInv => HistoryIsNewest
  BY DEF SinkInv
<1> QED BY <1>1, SinkInvariant, PTL

(* What a partition's field shows is the partition's last write, unless it *)
(* expired or its window left the history.                                 *)
THEOREM RedisSlicesAreLastWritten == SinkSpec => []SlicesAreLastWritten
<1>1. SinkInv => SlicesAreLastWritten
  BY DEF SinkInv
<1> QED BY <1>1, SinkInvariant, PTL

(***************************************************************************)
(* THE CLICKHOUSE CLIENT                                                   *)
(***************************************************************************)

Answers(r) == Request(r) \/ Connected(r) \/ ConnectFails(r) \/ Answered(r)
Recovers(r) == QueryLost(r) \/ Reset(r) \/ Closed(r) \/ GivesUp(r)

LEMMA NextIs ==
    ColdNext <=> GoesDown \/ ComesBack \/ \E r \in Requests : Answers(r) \/ Recovers(r)
BY DEF ColdNext, Answers, Recovers

(* A step of one request leaves the others where they are.                 *)
LEMMA GoFacts ==
    ASSUME ColdTypeOK, NEW r \in Requests, NEW place, NEW c, Go(r, place, c)
    PROVE  /\ at'[r] = place /\ using'[r] = c
           /\ \A q \in Requests : q # r => at'[q] = at[q] /\ using'[q] = using[q]
           /\ at' = [at EXCEPT ![r] = place] /\ using' = [using EXCEPT ![r] = c]
BY DEF Go, ColdTypeOK

LEMMA FinishFacts ==
    ASSUME ColdTypeOK, NEW r \in Requests, NEW is503 \in BOOLEAN, Finish(r, is503)
    PROVE  /\ Go(r, "idle", None)
           /\ refused' \in [Requests -> BOOLEAN]
           /\ \A q \in Requests : refused'[q] = IF q = r THEN is503 ELSE refused[q]
BY DEF Finish, ColdTypeOK

-----------------------------------------------------------------------------
(* Type correctness                                                        *)

LEMMA InitTypeOK == ColdInit => ColdTypeOK
BY MaxOutagesAssumption DEF ColdInit, ColdTypeOK, Places

LEMMA OutageTypeOK == ColdTypeOK /\ (GoesDown \/ ComesBack) => ColdTypeOK'
<1> SUFFICES ASSUME ColdTypeOK, GoesDown \/ ComesBack PROVE ColdTypeOK'
  OBVIOUS
<1>1. CASE ComesBack
  BY <1>1 DEF ComesBack, ColdTypeOK
<1>2. CASE GoesDown
  <2>1. UNCHANGED <<open, client, at, using, refused>> /\ up' = FALSE
    BY <1>2 DEF GoesDown
  <2>2. outages' \in 0 .. MaxOutages
    BY <1>2, MaxOutagesAssumption DEF GoesDown, ColdTypeOK
  <2>3. broken' \subseteq Clients
    BY <1>2 DEF GoesDown, ColdTypeOK
  <2>4. sawDown' \in [Requests -> BOOLEAN]
    BY <1>2 DEF GoesDown, ColdTypeOK
  <2> QED BY <2>1, <2>2, <2>3, <2>4 DEF ColdTypeOK
<1> QED BY <1>1, <1>2

(* What a request may do to where it is and to the client it uses without  *)
(* breaking the types: it uses a client exactly while it queries or closes *)
(* it, and it closes none that is installed.                               *)
LEMMA GoType ==
    ASSUME ColdTypeOK, NEW r \in Requests, NEW place \in Places, NEW c \in Clients \cup {None},
           Go(r, place, c),
           c # None <=> place \in {"querying", "closing"},
           place = "closing" => c # client',
           \A q \in Requests : q # r /\ at[q] = "closing" => using[q] # client'
    PROVE  /\ at' \in [Requests -> Places]
           /\ using' \in [Requests -> Clients \cup {None}]
           /\ \A q \in Requests : using'[q] # None <=> at'[q] \in {"querying", "closing"}
           /\ \A q \in Requests : at'[q] = "closing" => using'[q] # client'
<1>1. /\ at' \in [Requests -> Places]
      /\ using' \in [Requests -> Clients \cup {None}]
  BY DEF Go, ColdTypeOK
<1>2. \A q \in Requests : using'[q] # None <=> at'[q] \in {"querying", "closing"}
  <2> SUFFICES ASSUME NEW q \in Requests
               PROVE  using'[q] # None <=> at'[q] \in {"querying", "closing"}
    OBVIOUS
  <2>1. CASE q = r
    BY <2>1, GoFacts
  <2>2. CASE q # r
    BY <2>2, GoFacts DEF ColdTypeOK
  <2> QED BY <2>1, <2>2
<1>3. \A q \in Requests : at'[q] = "closing" => using'[q] # client'
  <2> SUFFICES ASSUME NEW q \in Requests, at'[q] = "closing" PROVE using'[q] # client'
    OBVIOUS
  <2>1. CASE q = r
    BY <2>1, GoFacts
  <2>2. CASE q # r
    BY <2>2, GoFacts
  <2> QED BY <2>1, <2>2
<1> QED BY <1>1, <1>2, <1>3

LEMMA IdleType ==
    ASSUME ColdTypeOK, NEW r \in Requests, NEW is503 \in BOOLEAN, Finish(r, is503),
           client' \in {client, None}
    PROVE  /\ at' \in [Requests -> Places]
           /\ using' \in [Requests -> Clients \cup {None}]
           /\ \A q \in Requests : using'[q] # None <=> at'[q] \in {"querying", "closing"}
           /\ \A q \in Requests : at'[q] = "closing" => using'[q] # client'
           /\ refused' \in [Requests -> BOOLEAN]
<1>1. Go(r, "idle", None) /\ refused' \in [Requests -> BOOLEAN]
  BY FinishFacts
<1>2. \A q \in Requests : at[q] = "closing" => using[q] # client'
  BY DEF ColdTypeOK
<1> QED BY <1>1, <1>2, GoType DEF Places

LEMMA AnswersTypeOK == ColdTypeOK /\ (\E r \in Requests : Answers(r)) => ColdTypeOK'
<1> SUFFICES ASSUME ColdTypeOK, NEW r \in Requests, Answers(r) PROVE ColdTypeOK'
  OBVIOUS
<1>1. CASE Request(r)
  <2>1. UNCHANGED <<up, outages, open, broken, client>>
    BY <1>1 DEF Request
  <2>2. /\ sawDown' \in [Requests -> BOOLEAN]
        /\ refused' \in [Requests -> BOOLEAN]
    BY <1>1 DEF Request, ColdTypeOK
  <2>3. /\ client \in Clients \cup {None}
        /\ \A q \in Requests : at[q] = "closing" => using[q] # client'
    BY <2>1 DEF ColdTypeOK
  <2>4. CASE client = None
    <3>1. Go(r, "connecting", None)
      BY <1>1, <2>4 DEF Request
    <3> QED BY <2>1, <2>2, <2>3, <3>1, GoType DEF ColdTypeOK, Places
  <2>5. CASE client # None
    <3>1. Go(r, "querying", client)
      BY <1>1, <2>5 DEF Request
    <3> QED BY <2>1, <2>2, <2>3, <2>5, <3>1, GoType DEF ColdTypeOK, Places
  <2> QED BY <2>4, <2>5
<1>2. CASE Connected(r)
  <2>1. UNCHANGED <<up, outages, sawDown, refused>>
    BY <1>2 DEF Connected
  <2>2. PICK c \in Clients \ InUse :
          /\ open' = (open \cap InUse) \cup {c}
          /\ client' = c
          /\ broken' = broken \ {c}
          /\ Go(r, "querying", c)
    BY <1>2 DEF Connected
  <2>3. /\ open' \subseteq Clients /\ broken' \subseteq Clients
        /\ client' \in Clients \cup {None}
    BY <2>2 DEF ColdTypeOK
  <2>4. c # None /\ \A q \in Requests : using[q] # client'
    BY <2>2, NoneAssumption DEF InUse
  <2> QED BY <2>1, <2>2, <2>3, <2>4, GoType DEF ColdTypeOK, Places
<1>3. CASE ConnectFails(r)
  <2>1. Finish(r, TRUE) /\ UNCHANGED <<up, outages, open, broken, client, sawDown>>
    BY <1>3 DEF ConnectFails
  <2> QED BY <2>1, IdleType DEF ColdTypeOK
<1>4. CASE Answered(r)
  <2>1. Finish(r, FALSE) /\ UNCHANGED <<up, outages, open, broken, client, sawDown>>
    BY <1>4 DEF Answered
  <2> QED BY <2>1, IdleType DEF ColdTypeOK
<1> QED BY <1>1, <1>2, <1>3, <1>4 DEF Answers

LEMMA RecoversTypeOK == ColdTypeOK /\ (\E r \in Requests : Recovers(r)) => ColdTypeOK'
<1> SUFFICES ASSUME ColdTypeOK, NEW r \in Requests, Recovers(r) PROVE ColdTypeOK'
  OBVIOUS
<1>1. CASE QueryLost(r)
  <2>1. /\ Go(r, "raised", None)
        /\ UNCHANGED <<up, outages, open, broken, client, sawDown, refused>>
    BY <1>1 DEF QueryLost
  <2>2. \A q \in Requests : at[q] = "closing" => using[q] # client'
    BY <2>1 DEF ColdTypeOK
  <2> QED BY <2>1, <2>2, GoType DEF ColdTypeOK, Places
<1>2. CASE Reset(r)
  <2>1. client' = None /\ UNCHANGED <<up, outages, open, broken, sawDown>>
    BY <1>2 DEF Reset
  <2>2. CASE client = None
    <3>1. Finish(r, TRUE)
      BY <1>2, <2>2 DEF Reset
    <3> QED BY <2>1, <3>1, IdleType DEF ColdTypeOK
  <2>3. CASE client # None
    <3>1. Go(r, "closing", client) /\ UNCHANGED refused /\ client \in Clients
      BY <1>2, <2>3 DEF Reset, ColdTypeOK
    <3>2. \A q \in Requests : at[q] = "closing" => using[q] # client'
      BY <2>1 DEF ColdTypeOK
    <3> QED BY <2>1, <2>3, <3>1, <3>2, GoType DEF ColdTypeOK, Places
  <2> QED BY <2>2, <2>3
<1>3. CASE Closed(r)
  <2>1. Finish(r, TRUE) /\ UNCHANGED <<up, outages, broken, client, sawDown>>
    BY <1>3 DEF Closed
  <2>2. open' \subseteq Clients
    BY <1>3 DEF Closed, ColdTypeOK
  <2> QED BY <2>1, <2>2, IdleType DEF ColdTypeOK
<1>4. CASE GivesUp(r)
  <2>1. Finish(r, TRUE) /\ UNCHANGED <<up, outages, open, broken, client, sawDown>>
    BY <1>4 DEF GivesUp
  <2> QED BY <2>1, IdleType DEF ColdTypeOK
<1> QED BY <1>1, <1>2, <1>3, <1>4 DEF Recovers

LEMMA NextTypeOK == ColdTypeOK /\ [ColdNext]_coldVars => ColdTypeOK'
<1> SUFFICES ASSUME ColdTypeOK, [ColdNext]_coldVars PROVE ColdTypeOK'
  OBVIOUS
<1>1. CASE UNCHANGED coldVars
  BY <1>1 DEF coldVars, ColdTypeOK
<1> QED BY <1>1, NextIs, OutageTypeOK, AnswersTypeOK, RecoversTypeOK

(* The state of the client and of every request keeps its shape; in        *)
(* particular the installed client is never one that a request closes.     *)
THEOREM ColdPathTypeCorrect == ColdSpec => []ColdTypeOK
BY InitTypeOK, NextTypeOK, PTL DEF ColdSpec

-----------------------------------------------------------------------------
(* No refusal without an outage                                            *)

(* Until the first outage, whatever is referred to is open: a client that  *)
(* another request's connection has replaced goes on serving the requests  *)
(* that query it, because nobody closes it.                                *)
AllIsWell ==
    /\ up
    /\ broken = {}
    /\ client # None => client \in open
    /\ \A r \in Requests :
          /\ ~sawDown[r]
          /\ ~refused[r]
          /\ at[r] \in {"idle", "connecting", "querying"}
          /\ at[r] = "querying" => using[r] \in open

ColdInv == ColdTypeOK /\ (outages = 0 => AllIsWell)

LEMMA InitColdInv == ColdInit => ColdInv
BY InitTypeOK DEF ColdInit, ColdInv, AllIsWell

LEMMA OutageIInv == ColdInv /\ (GoesDown \/ ComesBack) => ColdInv'
<1> SUFFICES ASSUME ColdInv, GoesDown \/ ComesBack PROVE ColdInv'
  OBVIOUS
<1>1. ColdTypeOK'
  BY OutageTypeOK DEF ColdInv
<1>2. CASE GoesDown
  <2>1. outages' # 0
    BY <1>2 DEF GoesDown, ColdInv, ColdTypeOK
  <2> QED BY <1>1, <2>1 DEF ColdInv
<1>3. CASE ComesBack
  BY <1>1, <1>3 DEF ComesBack, ColdInv, AllIsWell
<1> QED BY <1>2, <1>3

LEMMA AnswersIInv == ColdInv /\ (\E r \in Requests : Answers(r)) => ColdInv'
<1> SUFFICES ASSUME ColdInv, NEW r \in Requests, Answers(r) PROVE ColdInv'
  OBVIOUS
<1>1. ColdTypeOK /\ ColdTypeOK'
  BY AnswersTypeOK DEF ColdInv
<1>2. UNCHANGED <<up, outages>>
  BY DEF Answers, Request, Connected, ConnectFails, Answered
<1> SUFFICES ASSUME outages = 0 PROVE AllIsWell'
  BY <1>1, <1>2 DEF ColdInv
<1>3. AllIsWell
  BY DEF ColdInv
<1>4. CASE Request(r)
  <2>1. UNCHANGED <<open, broken, client>>
    BY <1>4 DEF Request
  <2>2. \A q \in Requests : ~sawDown'[q] /\ ~refused'[q]
    BY <1>1, <1>3, <1>4 DEF Request, AllIsWell, ColdTypeOK
  <2>3. CASE client = None
    <3>1. Go(r, "connecting", None)
      BY <1>4, <2>3 DEF Request
    <3> QED BY <1>1, <1>2, <1>3, <2>1, <2>2, <3>1, GoFacts DEF AllIsWell
  <2>4. CASE client # None
    <3>1. Go(r, "querying", client) /\ client \in open
      BY <1>3, <1>4, <2>4 DEF Request, AllIsWell
    <3> QED BY <1>1, <1>2, <1>3, <2>1, <2>2, <3>1, GoFacts DEF AllIsWell
  <2> QED BY <2>3, <2>4
<1>5. CASE Connected(r)
  <2>1. UNCHANGED <<sawDown, refused>>
    BY <1>5 DEF Connected
  <2>2. PICK c \in Clients \ InUse :
          /\ open' = (open \cap InUse) \cup {c}
          /\ client' = c
          /\ broken' = broken \ {c}
          /\ Go(r, "querying", c)
    BY <1>5 DEF Connected
  <2>3. \A q \in Requests : at[q] = "querying" => using[q] \in open'
    BY <1>3, <2>2 DEF AllIsWell, InUse
  <2> QED BY <1>1, <1>2, <1>3, <2>1, <2>2, <2>3, GoFacts DEF AllIsWell
<1>6. CASE ConnectFails(r)
  BY <1>3, <1>6 DEF ConnectFails, AllIsWell
<1>7. CASE Answered(r)
  <2>1. Finish(r, FALSE) /\ UNCHANGED <<open, broken, client, sawDown>>
    BY <1>7 DEF Answered
  <2>2. Go(r, "idle", None) /\ \A q \in Requests : ~refused'[q]
    BY <1>1, <1>3, <2>1, FinishFacts DEF AllIsWell
  <2> QED BY <1>1, <1>2, <1>3, <2>1, <2>2, GoFacts DEF AllIsWell
<1> QED BY <1>4, <1>5, <1>6, <1>7 DEF Answers

(* Nothing is to recover from: a query on an open client of a server that  *)
(* answers is not lost.                                                    *)
LEMMA RecoversIInv == ColdInv /\ (\E r \in Requests : Recovers(r)) => ColdInv'
<1> SUFFICES ASSUME ColdInv, NEW r \in Requests, Recovers(r) PROVE ColdInv'
  OBVIOUS
<1>1. ColdTypeOK'
  BY RecoversTypeOK DEF ColdInv
<1>2. outages' = outages
  BY DEF Recovers, QueryLost, Reset, Closed, GivesUp
<1>3. AllIsWell => FALSE
  BY DEF AllIsWell, Recovers, QueryLost, Reset, Closed, GivesUp
<1> QED BY <1>1, <1>2, <1>3 DEF ColdInv

LEMMA NextColdInv == ColdInv /\ [ColdNext]_coldVars => ColdInv'
<1> SUFFICES ASSUME ColdInv, [ColdNext]_coldVars PROVE ColdInv'
  OBVIOUS
<1>1. CASE UNCHANGED coldVars
  <2>1. ColdTypeOK'
    BY <1>1, NextTypeOK DEF ColdInv
  <2> QED BY <1>1, <2>1 DEF coldVars, ColdInv, AllIsWell
<1> QED BY <1>1, NextIs, OutageIInv, AnswersIInv, RecoversIInv

(* Without an outage no request is refused, however many connect at the    *)
(* same time and replace each other's client.                              *)
THEOREM ColdPathNoRefusal == ColdSpec => []NoOutageNoRefusal
<1>1. ColdInv => NoOutageNoRefusal
  BY DEF ColdInv, AllIsWell, NoOutageNoRefusal
<1> QED BY <1>1, InitColdInv, NextColdInv, PTL DEF ColdSpec

(***************************************************************************)
(* THE HISTORY TAB                                                         *)
(***************************************************************************)

(* Constants that fit rule a refusal out.                                  *)
LEMMA NeverRefused ==
    ASSUME PageFitsApi, NEW range \in Ranges
    PROVE  ~Refuses(range)
<1>1. /\ HistoryBucket[range] \in Buckets /\ HistoryBucket[range] <= range
      /\ range \div HistoryBucket[range] <= MaxPoints /\ range <= MinuteRetention
  BY DEF PageFitsApi
<1>2. /\ range \in Nat /\ HistoryBucket[range] \in Nat \ {0}
      /\ MaxPoints \in Nat /\ MinuteRetention \in Nat /\ RawRetention \in Nat
      /\ EditorMaxRange \in Ranges /\ EditorMaxRange \in Nat
  BY <1>1, LengthsAssumption, PageAssumption
<1>3. TimelineTable(range, HistoryBucket[range]) \in Tables
  <2>1. range \div HistoryBucket[range] \in Int
    BY <1>2
  <2>2. ~(HistoryBucket[range] > range) /\ ~(range \div HistoryBucket[range] > MaxPoints)
        /\ ~(range > MinuteRetention)
    BY <1>1, <1>2, <2>1
  <2> QED BY <1>1, <2>2, Zenon DEF TimelineTable, Tables
<1>4. TopWikisTable(range, ListLimit) \in Tables
  BY <1>1, Zenon DEF TopWikisTable, Tables, LimitOK, PageFitsApi
<1>5. EditorRange(range) \in Ranges /\ EditorRange(range) <= RawRetention
  BY <1>2 DEF EditorRange, PageFitsApi
<1>6. TopEditorsTable(EditorRange(range), ListLimit) \in Tables
  BY <1>5, Zenon DEF TopEditorsTable, Tables, LimitOK, PageFitsApi
<1>7. Refused \notin Tables
  BY DEF Refused, Tables
<1> QED BY <1>3, <1>4, <1>6, <1>7, Zenon DEF Refuses

-----------------------------------------------------------------------------
(* The loads on their way                                                  *)

LoadRecords == [range : Ranges, overtaken : BOOLEAN]

LEMMA BoundedSeqIs ==
    ASSUME NEW s
    PROVE  s \in BoundedSeq(LoadRecords, MaxLoads)
             <=> s \in Seq(LoadRecords) /\ Len(s) <= MaxLoads
<1>1. MaxLoads \in Nat
  BY PageAssumption
<1>2. ASSUME s \in BoundedSeq(LoadRecords, MaxLoads)
      PROVE  s \in Seq(LoadRecords) /\ Len(s) <= MaxLoads
  <2>1. PICK m \in 0 .. MaxLoads : s \in [1 .. m -> LoadRecords]
    BY <1>2 DEF BoundedSeq, SeqOf
  <2> QED BY <1>1, <2>1
<1>3. ASSUME s \in Seq(LoadRecords), Len(s) <= MaxLoads
      PROVE  s \in BoundedSeq(LoadRecords, MaxLoads)
  <2>1. Len(s) \in 0 .. MaxLoads /\ s \in [1 .. Len(s) -> LoadRecords]
    BY <1>1, <1>3, LenProperties
  <2> QED BY <2>1 DEF BoundedSeq, SeqOf
<1> QED BY <1>2, <1>3

(* Removing an element leaves the others. *)
LEMMA RemoveAtFacts ==
    ASSUME NEW s \in Seq(LoadRecords), NEW i \in 1 .. Len(s)
    PROVE  /\ RemoveAt(s, i) \in Seq(LoadRecords)
           /\ Len(RemoveAt(s, i)) = Len(s) - 1
           /\ \A j \in 1 .. Len(s) : j # i =>
                 \E k \in 1 .. Len(s) - 1 : RemoveAt(s, i)[k] = s[j]
<1> DEFINE front == SubSeq(s, 1, i - 1)
           back == SubSeq(s, i + 1, Len(s))
           n == Len(s)
<1>1. n \in Nat /\ i \in Int /\ 1 <= i /\ i <= n /\ \A j \in 1 .. n : s[j] \in LoadRecords
  BY LenProperties
<1>2. /\ front \in Seq(LoadRecords) /\ Len(front) = i - 1
      /\ \A j \in 1 .. i - 1 : front[j] = s[j]
  <2>1. \A j \in 1 .. i - 1 : s[j] \in LoadRecords
    BY <1>1
  <2>2. /\ front \in Seq(LoadRecords)
        /\ Len(front) = IF 1 <= i - 1 THEN i - 1 - 1 + 1 ELSE 0
        /\ \A j \in 1 .. i - 1 - 1 + 1 : front[j] = s[1 + j - 1]
    BY <1>1, <2>1, SubSeqProperties
  <2> HIDE DEF front
  <2> QED BY <1>1, <2>2
<1>3. /\ back \in Seq(LoadRecords) /\ Len(back) = n - i
      /\ \A j \in 1 .. n - i : back[j] = s[i + j]
  <2>1. \A j \in i + 1 .. n : s[j] \in LoadRecords
    BY <1>1
  <2>2. /\ back \in Seq(LoadRecords)
        /\ Len(back) = IF i + 1 <= n THEN n - (i + 1) + 1 ELSE 0
        /\ \A j \in 1 .. n - (i + 1) + 1 : back[j] = s[(i + 1) + j - 1]
    BY <1>1, <2>1, SubSeqProperties
  <2> HIDE DEF back, n
  <2>3. Len(back) = n - i
    BY <1>1, <2>2
  <2>4. ASSUME NEW j \in 1 .. n - i PROVE back[j] = s[i + j]
    <3>1. j \in 1 .. n - (i + 1) + 1 /\ (i + 1) + j - 1 = i + j
      BY <1>1
    <3> QED BY <2>2, <3>1
  <2> QED BY <2>2, <2>3, <2>4
<1> HIDE DEF front, back, n
<1>4. /\ front \o back \in Seq(LoadRecords)
      /\ Len(front \o back) = Len(front) + Len(back)
      /\ \A k \in 1 .. Len(front) + Len(back) :
            (front \o back)[k] = IF k <= Len(front) THEN front[k] ELSE back[k - Len(front)]
  BY <1>2, <1>3, ConcatProperties
<1>5. ASSUME NEW j \in 1 .. n, j # i
      PROVE  \E k \in 1 .. n - 1 : (front \o back)[k] = s[j]
  <2>1. CASE j < i
    <3>1. j \in 1 .. n - 1 /\ (front \o back)[j] = s[j]
      BY <1>1, <1>2, <1>3, <1>4, <2>1
    <3> QED BY <3>1
  <2>2. CASE j > i
    <3>1. j - 1 \in 1 .. n - 1 /\ (front \o back)[j - 1] = back[j - i] /\ back[j - i] = s[j]
      BY <1>1, <1>2, <1>3, <1>4, <2>2
    <3> QED BY <3>1
  <2>3. j \in Int /\ i \in Int
    BY <1>1
  <2>4. j < i \/ j > i
    BY <1>5, <2>3
  <2> QED BY <2>1, <2>2, <2>4
<1>6. RemoveAt(s, i) = front \o back
  BY DEF RemoveAt, front, back
<1>7. Len(front \o back) = n - 1
  BY <1>1, <1>2, <1>3, <1>4
<1> QED BY <1>4, <1>5, <1>6, <1>7 DEF n

-----------------------------------------------------------------------------
(* The inductive invariant                                                 *)
(*                                                                         *)
(* TabTypeOK without the claim that the API refuses nothing, which rests on   *)
(* PageFitsApi.                                                            *)

TimerOnTab == timer = (view = "history")
LoadsShape == loads \in Seq(LoadRecords) /\ Len(loads) <= MaxLoads
Shape ==
    /\ view \in {"live", "history"}
    /\ chosen \in Ranges
    /\ note \in {"", "loading", "updated"}
    /\ banner \in {"", "failed", "refused"}
    /\ drawn \in Ranges \cup {NoRange}
    /\ aged \in BOOLEAN /\ answering \in BOOLEAN

(* ShownIsChosen, case by case. *)
Updated == note = "updated" => drawn = chosen /\ banner = ""
Loading == note = "loading" => \E i \in 1 .. Len(loads) : loads[i].range = chosen
Neither == note = "" => banner # "" \/ (drawn = NoRange /\ loads = <<>>)

TabInv == TimerOnTab /\ LoadsShape /\ Shape /\ Updated /\ Loading /\ Neither

LEMMA LoadsFacts ==
    TabInv => /\ loads \in Seq(LoadRecords) /\ Len(loads) \in Nat
            /\ MaxLoads \in Nat /\ MaxLoads >= 1 /\ Len(loads) <= MaxLoads
            /\ DOMAIN loads = 1 .. Len(loads)
<1>1. MaxLoads \in Nat /\ MaxLoads >= 1
  BY PageAssumption
<1> QED BY <1>1, LenProperties DEF TabInv, LoadsShape

LEMMA InitTabInv == TabInit => TabInv
<1> SUFFICES ASSUME TabInit PROVE TabInv
  OBVIOUS
<1>1. LoadsShape
  <2>1. \A n \in Nat : 0 <= n
    OBVIOUS
  <2>2. <<>> \in Seq(LoadRecords) /\ Len(<<>>) = 0
    BY EmptySeq
  <2>3. loads = <<>> /\ MaxLoads \in Nat
    BY PageAssumption DEF TabInit
  <2> QED BY <2>1, <2>2, <2>3, Zenon DEF LoadsShape
<1>2. Shape /\ TimerOnTab
  BY PageAssumption DEF TabInit, Shape, TimerOnTab
<1> QED BY <1>1, <1>2 DEF TabInit, TabInv, Updated, Loading, Neither

LEMMA LoadIInv ==
    ASSUME TabInv, NEW range \in Ranges, Load(range),
           view' \in {"live", "history"}, timer' = (view' = "history")
    PROVE  TabInv'
<1> DEFINE r == [range |-> range, overtaken |-> FALSE]
<1>1. /\ Len(loads) < MaxLoads /\ chosen' = range /\ loads' = Append(loads, r)
      /\ note' = "loading" /\ UNCHANGED <<banner, drawn, aged, answering>>
  BY DEF Load
<1>2. r \in LoadRecords /\ loads \in Seq(LoadRecords) /\ MaxLoads \in Nat
  BY LoadsFacts DEF LoadRecords
<1>3. /\ loads' \in Seq(LoadRecords) /\ Len(loads') = Len(loads) + 1 /\ Len(loads) \in Nat
      /\ loads'[Len(loads) + 1] = r
  BY <1>1, <1>2, AppendProperties, LenProperties
<1>4. LoadsShape' /\ Shape'
  <2>1. LoadsShape'
    BY <1>1, <1>2, <1>3 DEF LoadsShape
  <2>2. Shape'
    BY <1>1 DEF TabInv, Shape
  <2> QED BY <2>1, <2>2
<1>5. Loading'
  <2>1. Len(loads) + 1 \in 1 .. Len(loads') /\ r.range = chosen'
    BY <1>1, <1>3
  <2> QED BY <1>3, <2>1 DEF Loading
<1>6. TimerOnTab'
  BY Zenon DEF TimerOnTab
<1> QED BY <1>1, <1>4, <1>5, <1>6 DEF TabInv, Updated, Neither

LEMMA DiscardIInv ==
    ASSUME TabInv, NEW i \in 1 .. Len(loads), Discard(i)
    PROVE  TabInv'
<1>1. loads[i].range # chosen /\ loads' = RemoveAt(loads, i) /\ UNCHANGED <<page, shown, answering>>
  BY DEF Discard
<1>2. UNCHANGED <<view, chosen, timer, note, banner, drawn, aged, answering>>
  BY <1>1 DEF page, shown
<1>3. loads \in Seq(LoadRecords) /\ Len(loads) \in Nat /\ MaxLoads \in Nat
      /\ Len(loads) <= MaxLoads
  BY LoadsFacts
<1>4. /\ loads' \in Seq(LoadRecords) /\ Len(loads') = Len(loads) - 1
      /\ \A j \in 1 .. Len(loads) : j # i => \E k \in 1 .. Len(loads) - 1 : loads'[k] = loads[j]
  BY <1>1, <1>3, RemoveAtFacts
<1>5. LoadsShape' /\ Shape' /\ TimerOnTab'
  <2>1. LoadsShape'
    BY <1>3, <1>4 DEF LoadsShape
  <2>2. Shape'
    BY <1>2 DEF TabInv, Shape
  <2>3. TimerOnTab'
    BY <1>2 DEF TabInv, TimerOnTab
  <2> QED BY <2>1, <2>2, <2>3
<1>6. Loading'
  <2> SUFFICES ASSUME note = "loading"
               PROVE  \E k \in 1 .. Len(loads) - 1 : loads'[k].range = chosen
    BY <1>2, <1>4 DEF Loading
  <2>1. PICK j \in 1 .. Len(loads) : loads[j].range = chosen
    BY DEF TabInv, Loading
  <2> QED BY <1>1, <1>4, <2>1
<1>7. Neither'
  <2>1. loads # <<>>
    BY EmptySeq
  <2> QED BY <1>2, <2>1 DEF TabInv, Neither
<1> QED BY <1>2, <1>5, <1>6, <1>7 DEF TabInv, Updated

LEMMA DrawIInv ==
    ASSUME TabInv, NEW i \in 1 .. Len(loads), Draw(i)
    PROVE  TabInv'
<1> DEFINE s == [j \in DOMAIN loads |-> [loads[j] EXCEPT
                    !.overtaken = @ \/ (j < i /\ loads[j].range = chosen)]]
<1>1. /\ drawn' = chosen /\ aged' = loads[i].overtaken /\ note' = "updated" /\ banner' = ""
      /\ loads' = RemoveAt(s, i) /\ UNCHANGED <<view, chosen, timer, answering>>
  BY DEF Draw, page
<1>2. /\ loads \in Seq(LoadRecords) /\ Len(loads) \in Nat /\ MaxLoads \in Nat
      /\ DOMAIN loads = 1 .. Len(loads) /\ \A j \in 1 .. Len(loads) : loads[j] \in LoadRecords
      /\ Len(loads) <= MaxLoads
  BY LoadsFacts, ElementOfSeq
<1>3. s \in Seq(LoadRecords) /\ Len(s) = Len(loads)
  <2>1. s \in [1 .. Len(loads) -> LoadRecords]
    <3>1. ASSUME NEW l \in LoadRecords, NEW b \in BOOLEAN
          PROVE  [l EXCEPT !.overtaken = @ \/ b] \in LoadRecords
      BY DEF LoadRecords
    <3> QED BY <1>2, <3>1
  <2> QED BY <1>2, <2>1
<1> HIDE DEF s
<1>4. loads' \in Seq(LoadRecords) /\ Len(loads') = Len(loads) - 1
  BY <1>1, <1>3, RemoveAtFacts
<1>5. aged' \in BOOLEAN
  BY <1>1, <1>2 DEF LoadRecords
<1>6. LoadsShape' /\ Shape' /\ TimerOnTab'
  <2>1. LoadsShape'
    BY <1>2, <1>4 DEF LoadsShape
  <2>2. Shape'
    BY <1>1, <1>5 DEF TabInv, Shape
  <2>3. TimerOnTab'
    BY <1>1 DEF TabInv, TimerOnTab
  <2> QED BY <2>1, <2>2, <2>3
<1> QED BY <1>1, <1>6 DEF TabInv, Updated, Loading, Neither

LEMMA FailIInv ==
    ASSUME TabInv, NEW i \in 1 .. Len(loads), Fail(i)
    PROVE  TabInv'
<1>1. /\ banner' \in {"failed", "refused"} /\ note' = ""
      /\ loads' = RemoveAt(loads, i) /\ UNCHANGED <<view, chosen, timer, drawn, aged, answering>>
  BY DEF Fail, page
<1>2. loads \in Seq(LoadRecords) /\ Len(loads) \in Nat /\ MaxLoads \in Nat
      /\ Len(loads) <= MaxLoads
  BY LoadsFacts
<1>3. loads' \in Seq(LoadRecords) /\ Len(loads') = Len(loads) - 1
  BY <1>1, <1>2, RemoveAtFacts
<1>4. LoadsShape' /\ Shape' /\ TimerOnTab'
  <2>1. LoadsShape'
    BY <1>2, <1>3 DEF LoadsShape
  <2>2. Shape'
    BY <1>1 DEF TabInv, Shape
  <2>3. TimerOnTab'
    BY <1>1 DEF TabInv, TimerOnTab
  <2> QED BY <2>1, <2>2, <2>3
<1> QED BY <1>1, <1>4 DEF TabInv, Updated, Loading, Neither

LEMMA NextTabInv == TabInv /\ [TabNext]_tabVars => TabInv'
<1> SUFFICES ASSUME TabInv, [TabNext]_tabVars PROVE TabInv'
  OBVIOUS
<1>1. ASSUME NEW range \in Ranges, Click(range) PROVE TabInv'
  BY <1>1, LoadIInv DEF Click, TabInv, Shape, TimerOnTab
<1>2. ASSUME NEW range \in Ranges, OpenHistory(range) PROVE TabInv'
  BY <1>2, LoadIInv DEF OpenHistory
<1>3. CASE TimerFires
  BY <1>3, LoadIInv DEF TimerFires, TabInv, Shape, TimerOnTab
<1>4. ASSUME NEW i \in 1 .. MaxLoads, Answer(i) PROVE TabInv'
  <2>1. i \in 1 .. Len(loads)
    BY <1>4, LoadsFacts DEF Answer
  <2> QED BY <1>4, <2>1, DiscardIInv, DrawIInv, FailIInv DEF Answer
<1>5. CASE OpenLive
  BY <1>5 DEF OpenLive, shown, TabInv, TimerOnTab, LoadsShape, Shape, Updated, Loading, Neither
<1>6. CASE Outage
  BY <1>6 DEF Outage, page, shown, TabInv, TimerOnTab, LoadsShape, Shape, Updated, Loading, Neither
<1>7. CASE UNCHANGED tabVars
  BY <1>7 DEF tabVars, page, shown, TabInv, TimerOnTab, LoadsShape, Shape, Updated, Loading, Neither
<1> QED BY <1>1, <1>2, <1>3, <1>4, <1>5, <1>6, <1>7 DEF TabNext

LEMMA TabInvariant == TabSpec => []TabInv
BY InitTabInv, NextTabInv, PTL DEF TabSpec

(* The tab says that it is up to date only over the chosen range, that it  *)
(* is loading only while an answer for it is on its way, and neither only  *)
(* when a banner says why or nothing was asked for.                        *)
THEOREM TabShowsChosen == TabSpec => []ShownIsChosen
<1>1. TabInv => ShownIsChosen
  <2> SUFFICES ASSUME TabInv PROVE ShownIsChosen
    OBVIOUS
  <2>1. DOMAIN loads = 1 .. Len(loads)
    BY LoadsFacts
  <2>2. CASE note = "updated"
    BY <2>2 DEF TabInv, Updated, ShownIsChosen
  <2>3. CASE note = "loading"
    BY <2>1, <2>3 DEF TabInv, Loading, ShownIsChosen
  <2>4. CASE note = ""
    BY <2>4 DEF TabInv, Neither, ShownIsChosen
  <2> QED BY <2>2, <2>3, <2>4 DEF TabInv, Shape
<1> QED BY <1>1, TabInvariant, PTL

-----------------------------------------------------------------------------
(* The page never asks for what the API refuses                            *)

NeverRefusedYet == banner # "refused"

(* As long as the constants of the page fit those of the API, whatever is  *)
(* clicked, the tab shows no refusal, and its state keeps its shape.       *)
THEOREM TabTypeCorrect ==
    ASSUME PageFitsApi
    PROVE  TabSpec => []TabTypeOK
<1>1. TabInit => NeverRefusedYet
  BY DEF TabInit, NeverRefusedYet
<1>2. TabInv /\ NeverRefusedYet /\ [TabNext]_tabVars => NeverRefusedYet'
  <2> SUFFICES ASSUME TabInv, NeverRefusedYet, [TabNext]_tabVars PROVE NeverRefusedYet'
    OBVIOUS
  <2>1. banner' # "refused" \/ Refuses(chosen)
    BY DEF TabNext, NeverRefusedYet, tabVars, shown, Click, OpenHistory, Load, OpenLive,
           TimerFires, Answer, Discard, Draw, Fail, Outage
  <2>2. ~Refuses(chosen)
    BY NeverRefused DEF TabInv, Shape
  <2> QED BY <2>1, <2>2 DEF NeverRefusedYet
<1>3. TabInv /\ NeverRefusedYet => TabTypeOK
  <2> SUFFICES ASSUME TabInv, NeverRefusedYet PROVE TabTypeOK
    OBVIOUS
  <2>1. loads \in BoundedSeq([range : Ranges, overtaken : BOOLEAN], MaxLoads)
    BY BoundedSeqIs DEF TabInv, LoadsShape, LoadRecords
  <2>2. banner \in {"", "failed"} /\ {aged, answering} \subseteq BOOLEAN
    BY DEF TabInv, Shape, NeverRefusedYet
  <2> QED BY <2>1, <2>2, Zenon DEF TabInv, TimerOnTab, Shape, TabTypeOK
<1> QED BY <1>1, <1>2, <1>3, TabInvariant, PTL DEF TabSpec
=============================================================================
