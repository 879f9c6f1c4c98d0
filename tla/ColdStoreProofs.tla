--------------------------- MODULE ColdStoreProofs ---------------------------
(***************************************************************************)
(* Proofs about the cold path's tables and the answers read from them, for *)
(* any topic, any length of the minute and the retentions, and any number  *)
(* of interrupted deliveries, expiries and merges.                         *)
(***************************************************************************)
EXTENDS ColdStore, SetProofs

-----------------------------------------------------------------------------
(* Arithmetic                                                              *)

LEMMA Times ==
    \A n, a, b \in Nat : /\ n * a \in Nat
                         /\ (n + 1) * a = n * a + a
                         /\ a <= b => n * a <= n * b
OBVIOUS

LEMMA Lengths ==
    /\ Minute \in Nat \ {0} /\ Day \in Nat \ {0} /\ Day % Minute = 0
    /\ RawTTL \in Nat \ {0} /\ MinuteTTL \in Nat \ {0}
    /\ StaleAfter \in Nat /\ MaxClock \in Nat /\ LastEvent \in Nat /\ MaxCrashes \in Nat
BY TimesAssumption, LengthsAssumption

(* A time is in one minute, which begins no later, and the minutes are in  *)
(* the order of the times.                                                 *)
LEMMA MinuteFacts ==
    ASSUME NEW s \in Int, NEW t \in Int
    PROVE  /\ MinuteOf(t) \in Int /\ MinuteOf(t) <= t /\ t < MinuteOf(t) + Minute
           /\ s <= t => MinuteOf(s) <= MinuteOf(t)
           /\ t \in Nat => MinuteOf(t) \in Nat
           /\ MinuteOf(MinuteOf(t)) = MinuteOf(t)
<1>1. Minute \in Nat \ {0}
  BY Lengths
<1> DEFINE a == s \div Minute
           b == t \div Minute
<1>2. /\ a \in Int /\ a * Minute <= s /\ s < a * Minute + Minute
      /\ b \in Int /\ b * Minute <= t /\ t < b * Minute + Minute
  BY <1>1
<1>3. (b * Minute) \div Minute = b
  BY <1>1, <1>2
<1>4. s <= t => a * Minute <= b * Minute
  <2>1. s <= t => a <= b
    BY <1>1
  <2> HIDE DEF a, b
  <2> QED BY <1>1, <1>2, <2>1
<1>5. t \in Nat => b * Minute \in Nat
  <2>1. t \in Nat => b \in Nat
    BY <1>1
  <2> HIDE DEF a, b
  <2> QED BY <1>1, <1>2, <2>1
<1>6. MinuteOf(t) = b * Minute /\ MinuteOf(s) = a * Minute
      /\ MinuteOf(b * Minute) = ((b * Minute) \div Minute) * Minute
  BY DEF MinuteOf
<1> HIDE DEF a, b
<1> QED BY <1>1, <1>2, <1>3, <1>4, <1>5, <1>6

LEMMA DayFacts ==
    ASSUME NEW s \in Int, NEW t \in Int
    PROVE  /\ DayOf(t) \in Int /\ DayOf(t) <= t /\ t < DayOf(t) + Day
           /\ s <= t => DayOf(s) <= DayOf(t)
           /\ t \in Nat => DayOf(t) \in Nat
           /\ DayOf(DayOf(t)) = DayOf(t)
           /\ DayOf(t - Day) = DayOf(t) - Day
<1>1. Day \in Nat \ {0}
  BY Lengths
<1> DEFINE a == s \div Day
           b == t \div Day
<1>2. /\ a \in Int /\ a * Day <= s /\ s < a * Day + Day
      /\ b \in Int /\ b * Day <= t /\ t < b * Day + Day
  BY <1>1
<1>3. (b * Day) \div Day = b
  BY <1>1, <1>2
<1>4. s <= t => a * Day <= b * Day
  <2>1. s <= t => a <= b
    BY <1>1
  <2> HIDE DEF a, b
  <2> QED BY <1>1, <1>2, <2>1
<1>5. t \in Nat => b * Day \in Nat
  <2>1. t \in Nat => b \in Nat
    BY <1>1
  <2> HIDE DEF a, b
  <2> QED BY <1>1, <1>2, <2>1
<1>6. DayOf(t) = b * Day /\ DayOf(s) = a * Day
      /\ DayOf(b * Day) = ((b * Day) \div Day) * Day
  BY DEF DayOf
<1>7. ((t - Day) \div Day) * Day = b * Day - Day
  <2>1. (t - Day) \div Day = b - 1
    BY <1>1
  <2>2. (b - 1) * Day = b * Day - Day
    BY <1>1, <1>2
  <2> QED BY <2>1, <2>2
<1>8. DayOf(t - Day) = ((t - Day) \div Day) * Day
  BY DEF DayOf
<1> HIDE DEF a, b
<1> QED BY <1>1, <1>2, <1>3, <1>4, <1>5, <1>6, <1>7, <1>8

(* The minutes of a day are whole in it.                                   *)
LEMMA DayOfMinute ==
    ASSUME NEW t \in Int
    PROVE  DayOf(MinuteOf(t)) = DayOf(t)
<1>1. Minute \in Nat \ {0} /\ Day \in Nat \ {0} /\ Day % Minute = 0
  BY Lengths
<1> DEFINE k == Day \div Minute
           b == t \div Minute
           q == t \div Day
<1>2. k \in Nat /\ Day = k * Minute
  BY <1>1
<1>3. b \in Int /\ q \in Int /\ b * Minute <= t /\ t < b * Minute + Minute
      /\ q * Day <= t /\ t < q * Day + Day
  BY <1>1
<1> HIDE DEF k, b, q
<1>4. q * Day = (q * k) * Minute /\ q * k \in Int
  BY <1>1, <1>2, <1>3
<1>5. (q * k) * Minute <= b * Minute
  <2> DEFINE c == q * k
  <2>1. c \in Int /\ c * Minute < b * Minute + Minute
    <3> DEFINE x == q * Day
               y == b * Minute
    <3>1. x \in Int /\ y \in Int /\ x <= t /\ t < y + Minute /\ x = c * Minute
      BY <1>1, <1>3, <1>4
    <3> HIDE DEF x, c
    <3>2. c \in Int
      BY <1>4 DEF c
    <3> HIDE DEF y
    <3>3. x < y + Minute
      BY <1>1, <3>1
    <3> QED BY <3>1, <3>2, <3>3 DEF y
  <2> HIDE DEF c
  <2>2. c * Minute < (b + 1) * Minute
    BY <1>1, <1>3, <2>1
  <2>3. c < b + 1
    BY <1>1, <1>3, <2>1, <2>2
  <2>4. c <= b
    BY <1>3, <2>1, <2>3
  <2>5. c * Minute <= b * Minute
    BY <1>1, <1>3, <2>1, <2>4
  <2> QED BY <2>5 DEF c
<1>6. q * Day <= b * Minute /\ b * Minute < q * Day + Day /\ b * Minute \in Int
  BY <1>1, <1>3, <1>4, <1>5
<1>7. (b * Minute) \div Day = q
  <2> DEFINE m == b * Minute
  <2>1. m \in Int /\ q * Day <= m /\ m < q * Day + Day
    BY <1>6
  <2> HIDE DEF m
  <2>2. m \div Day = q
    BY <1>1, <1>3, <2>1
  <2> QED BY <2>2 DEF m
<1> QED BY <1>7 DEF MinuteOf, DayOf, b, q

LEMMA StartsFacts ==
    /\ Minutes \subseteq Nat /\ IsFiniteSet(Minutes)
    /\ Days \subseteq Nat /\ IsFiniteSet(Days)
    /\ \A t \in 0 .. MaxClock : MinuteOf(t) \in Minutes /\ DayOf(t) \in Days
<1>1. MaxClock \in Nat
  BY Lengths
<1>2. IsFiniteSet(0 .. MaxClock) /\ 0 .. MaxClock \subseteq Nat
  BY <1>1, FS_Interval
<1>3. Minutes \in SUBSET (0 .. MaxClock) /\ Days \in SUBSET (0 .. MaxClock)
  BY DEF Minutes, Days
<1>4. ASSUME NEW t \in 0 .. MaxClock PROVE MinuteOf(t) \in Minutes /\ DayOf(t) \in Days
  <2>1. t \in Nat /\ t \in Int /\ t <= MaxClock
    BY <1>1
  <2>2. /\ MinuteOf(t) \in Nat /\ MinuteOf(t) <= t /\ MinuteOf(MinuteOf(t)) = MinuteOf(t)
        /\ DayOf(t) \in Nat /\ DayOf(t) <= t /\ DayOf(DayOf(t)) = DayOf(t)
    BY <2>1, MinuteFacts, DayFacts
  <2>3. MinuteOf(t) \in 0 .. MaxClock /\ DayOf(t) \in 0 .. MaxClock
    BY <1>1, <2>1, <2>2
  <2> QED BY <2>2, <2>3 DEF Minutes, Days
<1>5. IsFiniteSet(Minutes) /\ IsFiniteSet(Days)
  BY <1>2, <1>3, FS_Subset
<1> QED BY <1>2, <1>3, <1>4, <1>5

-----------------------------------------------------------------------------
(* A row of a rollup                                                       *)

LEMMA SumOfRows ==
    ASSUME NEW rows, NEW ts, IsFiniteSet(ts), NEW f,
           \A t \in ts : f[t] = rows[t].edits /\ f[t] \in Nat
    PROVE  SumOf(rows, ts) = SumOver(f, ts)
<1> DEFINE Chosen(g) ==
      g = [T \in SUBSET ts |->
             IF T = {} THEN 0
             ELSE rows[CHOOSE x \in T : TRUE].edits + g[T \ {CHOOSE x \in T : TRUE}]]
<1>1. SumOf(rows, ts) = (CHOOSE g : Chosen(g))[ts]
  BY DEF SumOf, MapThenSumSet, MapThenFoldSet
<1>2. \A T \in SUBSET ts : T # {} =>
        f[CHOOSE x \in T : TRUE] = rows[CHOOSE x \in T : TRUE].edits
  OBVIOUS
<1>3. \A g : Chosen(g) <=> Adds(g, f, ts)
  BY <1>2 DEF Adds
<1>4. \E g : Chosen(g)
  <2>1. \E g : Adds(g, f, ts)
    BY AddsExists
  <2> HIDE DEF Chosen
  <2> QED BY <1>3, <2>1, Zenon
<1> HIDE DEF Chosen
<1>5. Chosen(CHOOSE g : Chosen(g))
  BY <1>4, Zenon
<1>6. Adds(CHOOSE g : Chosen(g), f, ts)
  BY <1>3, <1>5, Zenon
<1>7. (CHOOSE g : Chosen(g))[ts] = SumOver(f, ts)
  BY <1>6, SumIs
<1> QED BY <1>1, <1>7, Zenon

(* The messages os are in the row; it has no more than os once and, for    *)
(* each of n deliveries that were cut short, the messages all once.        *)
Least(row, os) == Cardinality(os) <= row.edits /\ EditorsOf(os) \subseteq row.editors
Most(row, n, all, os) ==
    /\ row.edits <= n * Cardinality(all) + Cardinality(os)
    /\ row.editors \subseteq EditorsOf(all)

LEMMA EditorsMore ==
    ASSUME NEW S, NEW T, S \subseteq T
    PROVE  EditorsOf(S) \subseteq EditorsOf(T) /\ EditorsOf(T) \subseteq Users
BY DEF EditorsOf

LEMMA Sizes ==
    ASSUME NEW S, NEW T, IsFiniteSet(T), S \subseteq T
    PROVE  /\ IsFiniteSet(S) /\ Cardinality(S) \in Nat /\ Cardinality(T) \in Nat
           /\ Cardinality(S) <= Cardinality(T)
BY FS_Subset, FS_CardinalityType

LEMMA SizeOfBoth ==
    ASSUME NEW S, NEW T, IsFiniteSet(S), IsFiniteSet(T), S \cap T = {}
    PROVE  Cardinality(S \cup T) = Cardinality(S) + Cardinality(T)
<1>1. Cardinality(S \cap T) = 0
  BY FS_EmptySet
<1>2. Cardinality(S \cup T) = Cardinality(S) + Cardinality(T) - Cardinality(S \cap T)
  BY FS_Union
<1>3. Cardinality(S) \in Nat /\ Cardinality(T) \in Nat
  BY FS_CardinalityType
<1> QED BY <1>1, <1>2, <1>3

LEMMA AddedFacts ==
    ASSUME NEW row \in Row, NEW os, IsFiniteSet(os)
    PROVE  /\ AddedTo(row, os) \in Row
           /\ AddedTo(row, os).edits = row.edits + Cardinality(os)
           /\ AddedTo(row, os).editors = row.editors \cup EditorsOf(os)
<1>1. Cardinality(os) \in Nat /\ EditorsOf(os) \subseteq Users
  BY FS_CardinalityType DEF EditorsOf
<1> QED BY <1>1 DEF AddedTo, Row

LEMMA RowGrows ==
    ASSUME NEW row \in Row, NEW n \in Nat, NEW all, IsFiniteSet(all),
           NEW os \in SUBSET all, NEW block \in SUBSET all, os \cap block = {}
    PROVE  /\ Most(row, n, all, os) => Most(AddedTo(row, block), n, all, os \cup block)
           /\ Least(row, os) => Least(AddedTo(row, block), os \cup block)
<1>1. IsFiniteSet(os) /\ IsFiniteSet(block)
  BY FS_Subset
<1>2. /\ Cardinality(os \cup block) = Cardinality(os) + Cardinality(block)
      /\ Cardinality(os) \in Nat /\ Cardinality(block) \in Nat
      /\ n * Cardinality(all) \in Nat
  BY <1>1, SizeOfBoth, FS_CardinalityType, Times
<1>3. /\ AddedTo(row, block).edits = row.edits + Cardinality(block)
      /\ AddedTo(row, block).editors = row.editors \cup EditorsOf(block)
      /\ row.edits \in Nat
  BY <1>1, AddedFacts DEF Row
<1>4. /\ EditorsOf(block) \subseteq EditorsOf(all)
      /\ EditorsOf(os \cup block) = EditorsOf(os) \cup EditorsOf(block)
  BY DEF EditorsOf
<1> DEFINE N == n * Cardinality(all)
<1>5. N \in Nat
  BY <1>2
<1> HIDE DEF N
<1>6. Most(row, n, all, os) => Most(AddedTo(row, block), n, all, os \cup block)
  <2> SUFFICES ASSUME row.edits <= N + Cardinality(os), row.editors \subseteq EditorsOf(all)
               PROVE  /\ AddedTo(row, block).edits <= N + Cardinality(os \cup block)
                      /\ AddedTo(row, block).editors \subseteq EditorsOf(all)
    BY DEF Most, N
  <2>1. AddedTo(row, block).edits <= N + Cardinality(os \cup block)
    BY <1>2, <1>3, <1>5
  <2> QED BY <1>3, <1>4, <2>1
<1>7. Least(row, os) => Least(AddedTo(row, block), os \cup block)
  <2> SUFFICES ASSUME Cardinality(os) <= row.edits, EditorsOf(os) \subseteq row.editors
               PROVE  /\ Cardinality(os \cup block) <= AddedTo(row, block).edits
                      /\ EditorsOf(os \cup block) \subseteq AddedTo(row, block).editors
    BY DEF Least
  <2>1. Cardinality(os \cup block) <= AddedTo(row, block).edits
    BY <1>2, <1>3
  <2> QED BY <1>3, <1>4, <2>1
<1> QED BY <1>6, <1>7

(* A row stays right when more messages may be in it, and when a delivery  *)
(* is cut short.                                                           *)
LEMMA RowStays ==
    ASSUME NEW row \in Row, NEW n \in Nat, NEW more, IsFiniteSet(more),
           NEW all \in SUBSET more, NEW os \in SUBSET all, NEW less \in SUBSET os
    PROVE  /\ Most(row, n, all, os) => Most(row, n, more, os)
           /\ Most(row, n, all, os) => Most(row, n + 1, more, less)
           /\ Least(row, os) => Least(row, less)
<1> DEFINE A == Cardinality(all)
           M == Cardinality(more)
           O == Cardinality(os)
           L == Cardinality(less)
<1>1. IsFiniteSet(all) /\ IsFiniteSet(os)
  BY FS_Subset
<1>2. A \in Nat /\ M \in Nat /\ O \in Nat /\ L \in Nat /\ A <= M /\ O <= A /\ L <= O
  BY <1>1, Sizes
<1>3. EditorsOf(all) \subseteq EditorsOf(more) /\ EditorsOf(less) \subseteq EditorsOf(os)
  BY EditorsMore
<1>4. row.edits \in Nat
  BY DEF Row
<1> HIDE DEF A, M, O, L
<1>5. /\ n * A \in Nat /\ n * M \in Nat /\ n * A <= n * M /\ (n + 1) * M = n * M + M
  BY <1>2, Times
<1>6. row.edits <= n * A + O => row.edits <= n * M + O /\ row.edits <= (n + 1) * M + L
  <2> DEFINE x == n * A
             y == n * M
             z == (n + 1) * M
  <2>1. x \in Nat /\ y \in Nat /\ x <= y /\ z = y + M
    BY <1>5
  <2> HIDE DEF x, y, z
  <2>2. row.edits <= x + O => row.edits <= y + O /\ row.edits <= z + L
    BY <1>2, <1>4, <2>1
  <2> QED BY <2>2 DEF x, y, z
<1>7. Most(row, n, all, os) => row.edits <= n * A + O /\ row.editors \subseteq EditorsOf(all)
  BY DEF Most, A, O
<1>8. O <= row.edits => L <= row.edits
  BY <1>2, <1>4
<1>9. Least(row, os) => Least(row, less)
  BY <1>3, <1>8 DEF Least, O, L
<1>10. /\ row.edits <= n * M + O /\ row.editors \subseteq EditorsOf(more)
             => Most(row, n, more, os)
       /\ row.edits <= (n + 1) * M + L /\ row.editors \subseteq EditorsOf(more)
             => Most(row, n + 1, more, less)
  BY DEF Most, M, O, L
<1> QED BY <1>3, <1>6, <1>7, <1>9, <1>10

-----------------------------------------------------------------------------
(* The messages of a minute and of a day                                   *)

MinuteSet(l, S, m) == {o \in S : MinuteOf(l[o]) = m}
DaySet(l, S, d) == {o \in S : DayOf(l[o]) = d}
MinutesOf(d) == {m \in Minutes : DayOf(m) = d}

LEMMA SetsFacts ==
    ASSUME NEW T, IsFiniteSet(T), NEW S \in SUBSET T, NEW l, NEW t
    PROVE  /\ MinuteSet(l, T, t) \subseteq T /\ DaySet(l, T, t) \subseteq T
           /\ IsFiniteSet(MinuteSet(l, T, t)) /\ IsFiniteSet(DaySet(l, T, t))
           /\ MinuteSet(l, S, t) \subseteq MinuteSet(l, T, t)
           /\ DaySet(l, S, t) \subseteq DaySet(l, T, t)
<1>1. /\ MinuteSet(l, T, t) \in SUBSET T /\ DaySet(l, T, t) \in SUBSET T
      /\ MinuteSet(l, S, t) \subseteq MinuteSet(l, T, t)
      /\ DaySet(l, S, t) \subseteq DaySet(l, T, t)
  BY DEF MinuteSet, DaySet
<1> QED BY <1>1, FS_Subset

LEMMA SetsSame ==
    ASSUME NEW S, NEW l, NEW k, \A o \in S : k[o] = l[o], NEW t
    PROVE  MinuteSet(k, S, t) = MinuteSet(l, S, t) /\ DaySet(k, S, t) = DaySet(l, S, t)
BY DEF MinuteSet, DaySet

(* A day's messages are those of its minutes.                              *)
LEMMA DayIsItsMinutes ==
    ASSUME NEW S, IsFiniteSet(S), NEW l, \A o \in S : l[o] \in 0 .. MaxClock, NEW d,
           NEW size, \A m \in MinutesOf(d) : size[m] = Cardinality(MinuteSet(l, S, m))
    PROVE  /\ IsFiniteSet(MinutesOf(d))
           /\ SumOver(size, MinutesOf(d)) = Cardinality(DaySet(l, S, d))
<1> DEFINE A == [m \in MinutesOf(d) |-> MinuteSet(l, S, m)]
<1>1. IsFiniteSet(MinutesOf(d)) /\ MinutesOf(d) \subseteq Minutes
  <2>1. MinutesOf(d) \in SUBSET Minutes
    BY DEF MinutesOf
  <2> QED BY <2>1, StartsFacts, FS_Subset
<1>2. \A m \in MinutesOf(d) : A[m] = MinuteSet(l, S, m) /\ IsFiniteSet(A[m])
  BY SetsFacts
<1>3. \A m, n \in MinutesOf(d) : m # n => A[m] \cap A[n] = {}
  BY DEF MinuteSet
<1>4. UNION {A[m] : m \in MinutesOf(d)} = DaySet(l, S, d)
  <2>1. ASSUME NEW m \in MinutesOf(d), NEW o \in A[m] PROVE o \in DaySet(l, S, d)
    <3>1. o \in S /\ MinuteOf(l[o]) = m /\ DayOf(m) = d
      BY <1>2, <2>1 DEF MinuteSet, MinutesOf
    <3>2. l[o] \in Int
      <4>1. MaxClock \in Nat
        BY Lengths
      <4> QED BY <3>1, <4>1
    <3>3. DayOf(l[o]) = d
      BY <3>1, <3>2, DayOfMinute
    <3> QED BY <3>1, <3>3 DEF DaySet
  <2>2. ASSUME NEW o \in DaySet(l, S, d)
        PROVE  MinuteOf(l[o]) \in MinutesOf(d) /\ o \in A[MinuteOf(l[o])]
    <3>1. o \in S /\ DayOf(l[o]) = d /\ l[o] \in 0 .. MaxClock
      BY DEF DaySet
    <3>2. l[o] \in Int
      <4>1. MaxClock \in Nat
        BY Lengths
      <4> QED BY <3>1, <4>1
    <3>3. MinuteOf(l[o]) \in Minutes /\ DayOf(MinuteOf(l[o])) = d
      BY <3>1, <3>2, StartsFacts, DayOfMinute
    <3>4. MinuteOf(l[o]) \in MinutesOf(d)
      BY <3>3 DEF MinutesOf
    <3> QED BY <1>2, <3>1, <3>4 DEF MinuteSet
  <2> HIDE DEF A
  <2> QED BY <2>1, <2>2
<1> HIDE DEF A
<1>5. \A m \in MinutesOf(d) : size[m] = Cardinality(A[m])
  BY <1>2
<1>6. Cardinality(UNION {A[m] : m \in MinutesOf(d)}) = SumOver(size, MinutesOf(d))
  BY <1>1, <1>2, <1>3, <1>5, SumOfSizes
<1> QED BY <1>1, <1>4, <1>6

-----------------------------------------------------------------------------
(* The inductive invariant                                                 *)

(* The messages that a table has been given.                               *)
Done(table) == (1 .. IF table \in filled THEN polled ELSE committed) \ Poison
(* Those that edits_1d is still to be given.                               *)
Pending == Done("edits_1m") \ Done("edits_1d")

Shape ==
    /\ clock \in 0 .. MaxClock
    /\ log \in Seq(Nat) /\ Len(log) <= Len(UserOf)
    /\ \A o \in 1 .. Len(log) : log[o] \in 0 .. clock
    /\ committed \in Nat /\ polled \in Nat /\ furthest \in Nat
    /\ committed <= polled /\ polled <= furthest /\ furthest <= Len(log)
    /\ filled \subseteq Tables \cup {"edits_errors"}
    /\ polled = committed => filled = {}
    /\ "edits_1d" \in filled => "edits_1m" \in filled
    /\ raw \in [Offsets -> Nat]
    /\ minutes \in [Minutes -> Row] /\ days \in [Days -> Row]
    /\ errors \subseteq Poison
    /\ crashes \in 0 .. MaxCrashes

(* edits has what it was given until that expires, and more rows of it     *)
(* only for a delivery that was cut short.                                 *)
RawsKept == \A o \in Offsets :
    /\ raw[o] <= crashes + (IF o \in Done("edits") THEN 1 ELSE 0)
    /\ raw[o] > 0 => o \in Taken
    /\ o \in Done("edits") => raw[o] > 0 \/ RawExpired(o)

(* So have the rollups.                                                    *)
MinutesKept == \A m \in Minutes :
    /\ Most(minutes[m], crashes, MinuteSet(log, Taken, m),
            MinuteSet(log, Done("edits_1m"), m))
    /\ ~MinuteExpired(m) => Least(minutes[m], MinuteSet(log, Done("edits_1m"), m))
DaysKept == \A d \in Days :
    /\ Most(days[d], crashes, DaySet(log, Taken, d), DaySet(log, Done("edits_1d"), d))
    /\ Least(days[d], DaySet(log, Done("edits_1d"), d))

(* What a day has, and is still to be given, its minutes have.             *)
Chained == \A d \in Days :
    (\A m \in MinutesOf(d) : ~MinuteExpired(m)) =>
        days[d].edits + Cardinality(DaySet(log, Pending, d)) <= SumOf(minutes, MinutesOf(d))

IInv == Shape /\ RawsKept /\ MinutesKept /\ DaysKept /\ Chained

LEMMA DoneFacts ==
    ASSUME Shape
    PROVE  /\ IsFiniteSet(Taken) /\ Taken \subseteq 1 .. Len(log) /\ Taken \subseteq Offsets
           /\ \A table : Done(table) \subseteq Taken /\ Ingested \subseteq Done(table)
           /\ \A o \in Taken : log[o] \in 0 .. MaxClock /\ log[o] \in 0 .. clock
           /\ Pending \subseteq Taken
<1>1. /\ committed \in Nat /\ polled \in Nat /\ furthest \in Nat /\ Len(log) \in Nat
      /\ committed <= polled /\ polled <= furthest /\ furthest <= Len(log)
      /\ Len(log) <= Len(UserOf) /\ Len(UserOf) \in Nat /\ Offsets = 1 .. Len(UserOf)
  BY MessagesAssumption DEF Shape
<1>2. IsFiniteSet(1 .. furthest)
  BY <1>1, FS_Interval
<1>3. Taken \in SUBSET (1 .. furthest)
  BY DEF Taken
<1>4. IsFiniteSet(Taken)
  BY <1>2, <1>3, FS_Subset
<1>5. 1 .. furthest \subseteq 1 .. Len(log) /\ 1 .. furthest \subseteq Offsets
  BY <1>1
<1>6. ASSUME NEW table PROVE Done(table) \subseteq Taken /\ Ingested \subseteq Done(table)
  <2>1. CASE table \in filled
    <3>1. Done(table) = (1 .. polled) \ Poison
      BY <2>1 DEF Done
    <3> QED BY <1>1, <3>1 DEF Taken, Ingested
  <2>2. CASE table \notin filled
    <3>1. Done(table) = (1 .. committed) \ Poison
      BY <2>2 DEF Done
    <3> QED BY <1>1, <3>1 DEF Taken, Ingested
  <2> QED BY <2>1, <2>2
<1>7. ASSUME NEW o \in Taken PROVE log[o] \in 0 .. MaxClock /\ log[o] \in 0 .. clock
  <2>1. o \in 1 .. Len(log)
    BY <1>3, <1>5
  <2>2. log[o] \in 0 .. clock
    BY <2>1 DEF Shape
  <2>3. clock \in 0 .. MaxClock /\ MaxClock \in Nat
    BY Lengths DEF Shape
  <2> QED BY <2>2, <2>3
<1>8. Pending \subseteq Taken
  BY <1>6 DEF Pending
<1> QED BY <1>3, <1>4, <1>5, <1>6, <1>7, <1>8

LEMMA RowSets ==
    ASSUME Shape, NEW S \in SUBSET Taken, NEW t
    PROVE  /\ IsFiniteSet(MinuteSet(log, Taken, t)) /\ IsFiniteSet(DaySet(log, Taken, t))
           /\ MinuteSet(log, S, t) \in SUBSET MinuteSet(log, Taken, t)
           /\ DaySet(log, S, t) \in SUBSET DaySet(log, Taken, t)
<1>1. IsFiniteSet(Taken)
  BY DoneFacts
<1> QED BY <1>1, SetsFacts

LEMMA SumOfDay ==
    ASSUME Shape, NEW d
    PROVE  SumOf(minutes, MinutesOf(d)) \in Nat
<1> DEFINE f == [m \in MinutesOf(d) |-> minutes[m].edits]
<1>1. MinutesOf(d) \in SUBSET Minutes /\ IsFiniteSet(MinutesOf(d))
  <2>1. MinutesOf(d) \in SUBSET Minutes
    BY DEF MinutesOf
  <2> QED BY <2>1, StartsFacts, FS_Subset
<1>2. \A m \in MinutesOf(d) : f[m] = minutes[m].edits /\ f[m] \in Nat
  <2>1. \A m \in MinutesOf(d) : minutes[m] \in Row
    BY <1>1 DEF Shape
  <2> QED BY <2>1 DEF Row
<1> HIDE DEF f
<1>3. SumOf(minutes, MinutesOf(d)) = SumOver(f, MinutesOf(d))
  BY <1>1, <1>2, SumOfRows
<1> QED BY <1>1, <1>2, <1>3, SumNat

(* The rollups stay right while they are given nothing, whatever is        *)
(* produced and polled meanwhile.                                          *)
LEMMA RollupsStay ==
    ASSUME IInv, Shape', UNCHANGED <<minutes, days, crashes>>, clock <= clock',
           \A o \in Taken : log'[o] = log[o], Taken \subseteq Taken',
           Done("edits_1m")' = Done("edits_1m"), Done("edits_1d")' = Done("edits_1d")
    PROVE  MinutesKept' /\ DaysKept' /\ Chained'
<1>1. Shape
  BY DEF IInv
<1>2. /\ Done("edits_1m") \subseteq Taken /\ Done("edits_1d") \subseteq Taken
      /\ Pending \subseteq Taken
  BY <1>1, DoneFacts
<1>3. IsFiniteSet(Taken')
  <2>1. furthest' \in Nat
    BY DEF Shape
  <2>2. IsFiniteSet(1 .. furthest') /\ Taken' \in SUBSET (1 .. furthest')
    BY <2>1, FS_Interval DEF Taken
  <2> QED BY <2>2, FS_Subset
<1>4. crashes \in Nat /\ clock \in Nat /\ clock' \in Nat
  BY <1>1, Lengths DEF Shape
<1>5. Pending' = Pending
  BY DEF Pending
<1>6. ASSUME NEW m \in Minutes, ~(m + MinuteTTL <= clock') PROVE ~MinuteExpired(m)
  <2>1. m \in Nat /\ MinuteTTL \in Nat
    BY StartsFacts, Lengths
  <2> QED BY <1>4, <1>6, <2>1 DEF MinuteExpired
<1>7. ASSUME NEW m \in Minutes
      PROVE  /\ Most(minutes'[m], crashes', MinuteSet(log', Taken', m),
                     MinuteSet(log', Done("edits_1m")', m))
             /\ ~(m + MinuteTTL <= clock') =>
                  Least(minutes'[m], MinuteSet(log', Done("edits_1m")', m))
  <2> DEFINE more == MinuteSet(log', Taken', m)
             all == MinuteSet(log, Taken, m)
             os == MinuteSet(log, Done("edits_1m"), m)
  <2>1. MinuteSet(log', Done("edits_1m")', m) = os
    BY <1>2, SetsSame
  <2>2. all = MinuteSet(log', Taken, m)
    BY SetsSame
  <2>3. IsFiniteSet(more) /\ all \in SUBSET more
    BY <1>3, <2>2, SetsFacts
  <2>4. os \in SUBSET all
    BY <1>1, <1>2, RowSets
  <2>5. Most(minutes[m], crashes, all, os) /\ (~MinuteExpired(m) => Least(minutes[m], os))
    BY DEF IInv, MinutesKept
  <2>6. minutes[m] \in Row
    BY <1>1 DEF Shape
  <2> HIDE DEF more, all, os
  <2>7. Most(minutes[m], crashes, more, os)
    BY <1>4, <2>3, <2>4, <2>5, <2>6, RowStays
  <2> QED BY <1>6, <2>1, <2>5, <2>7 DEF more
<1>8. ASSUME NEW d \in Days
      PROVE  /\ Most(days'[d], crashes', DaySet(log', Taken', d),
                     DaySet(log', Done("edits_1d")', d))
             /\ Least(days'[d], DaySet(log', Done("edits_1d")', d))
  <2> DEFINE more == DaySet(log', Taken', d)
             all == DaySet(log, Taken, d)
             os == DaySet(log, Done("edits_1d"), d)
  <2>1. DaySet(log', Done("edits_1d")', d) = os
    BY <1>2, SetsSame
  <2>2. all = DaySet(log', Taken, d)
    BY SetsSame
  <2>3. IsFiniteSet(more) /\ all \in SUBSET more
    BY <1>3, <2>2, SetsFacts
  <2>4. os \in SUBSET all
    BY <1>1, <1>2, RowSets
  <2>5. Most(days[d], crashes, all, os) /\ Least(days[d], os)
    BY DEF IInv, DaysKept
  <2>6. days[d] \in Row
    BY <1>1 DEF Shape
  <2> HIDE DEF more, all, os
  <2>7. Most(days[d], crashes, more, os)
    BY <1>4, <2>3, <2>4, <2>5, <2>6, RowStays
  <2> QED BY <2>1, <2>5, <2>7 DEF more
<1>9. ASSUME NEW d \in Days, \A m \in MinutesOf(d) : ~(m + MinuteTTL <= clock')
      PROVE  days'[d].edits + Cardinality(DaySet(log', Pending', d))
               <= SumOf(minutes', MinutesOf(d))
  <2>1. DaySet(log', Pending', d) = DaySet(log, Pending, d)
    BY <1>2, <1>5, SetsSame
  <2>2. \A m \in MinutesOf(d) : ~MinuteExpired(m)
    <3>1. MinutesOf(d) \subseteq Minutes
      BY DEF MinutesOf
    <3> QED BY <1>6, <1>9, <3>1
  <2> QED BY <2>1, <2>2 DEF IInv, Chained
<1>10. MinutesKept'
  BY <1>7 DEF MinutesKept, MinuteExpired
<1>11. DaysKept'
  BY <1>8 DEF DaysKept
<1>12. Chained'
  BY <1>9 DEF Chained, MinuteExpired
<1> QED BY <1>10, <1>11, <1>12

LEMMA RawsStay ==
    ASSUME IInv, Shape', raw' = raw, crashes' = crashes, clock <= clock',
           \A o \in Taken : log'[o] = log[o], Taken \subseteq Taken',
           Done("edits")' = Done("edits")
    PROVE  RawsKept'
<1>1. Shape
  BY DEF IInv
<1>2. Done("edits") \subseteq Taken /\ \A o \in Taken : log[o] \in 0 .. clock
  BY <1>1, DoneFacts
<1>3. clock \in Nat /\ clock' \in Nat /\ RawTTL \in Nat
  BY <1>1, Lengths DEF Shape
<1>4. ASSUME NEW o \in Offsets
      PROVE  /\ raw'[o] <= crashes' + (IF o \in Done("edits")' THEN 1 ELSE 0)
             /\ raw'[o] > 0 => o \in Taken'
             /\ o \in Done("edits")' => raw'[o] > 0 \/ log'[o] + RawTTL <= clock'
  <2>1. /\ raw[o] <= crashes + (IF o \in Done("edits") THEN 1 ELSE 0)
        /\ raw[o] > 0 => o \in Taken
        /\ o \in Done("edits") => raw[o] > 0 \/ log[o] + RawTTL <= clock
    BY DEF IInv, RawsKept, RawExpired
  <2>2. o \in Done("edits") => log'[o] = log[o] /\ log[o] \in 0 .. clock
    BY <1>2
  <2> QED BY <1>3, <2>1, <2>2
<1> QED BY <1>4 DEF RawsKept, RawExpired

-----------------------------------------------------------------------------
(* Every step keeps it                                                     *)

LEMMA InitIInv == Init => IInv
<1> SUFFICES ASSUME Init PROVE IInv
  OBVIOUS
<1>1. /\ clock = 0 /\ log = <<>> /\ committed = 0 /\ polled = 0 /\ furthest = 0
      /\ filled = {} /\ errors = {} /\ crashes = 0
      /\ raw = [o \in Offsets |-> 0]
      /\ minutes = [m \in Minutes |-> NoRow] /\ days = [d \in Days |-> NoRow]
  BY DEF Init
<1>2. NoRow \in Row /\ NoRow.edits = 0 /\ NoRow.editors = {}
  BY DEF NoRow, Row
<1>3. Shape
  BY <1>1, <1>2, Lengths, MessagesAssumption DEF Shape
<1>4. Taken = {} /\ (\A table : Done(table) = {}) /\ Pending = {}
  <2>1. 1 .. 0 = {}
    OBVIOUS
  <2>2. Taken = {} /\ \A table : Done(table) = {}
    BY <1>1, <2>1 DEF Taken, Done
  <2> QED BY <2>2 DEF Pending
<1>5. RawsKept
  <2>1. \A o \in Offsets : raw[o] = 0
    BY <1>1
  <2> QED BY <1>1, <1>4, <2>1 DEF RawsKept
<1>6. Cardinality({}) = 0
  BY FS_EmptySet
<1>7. \A t : MinuteSet(log, {}, t) = {} /\ DaySet(log, {}, t) = {}
  BY DEF MinuteSet, DaySet
<1>8. Most(NoRow, 0, {}, {}) /\ Least(NoRow, {})
  <2>1. EditorsOf({}) = {}
    BY DEF EditorsOf
  <2> QED BY <1>2, <1>6, <2>1 DEF Most, Least
<1>9. MinutesKept
  <2>1. \A m \in Minutes : minutes[m] = NoRow
    BY <1>1
  <2> QED BY <1>1, <1>4, <1>7, <1>8, <2>1 DEF MinutesKept
<1>10. DaysKept
  <2>1. \A d \in Days : days[d] = NoRow
    BY <1>1
  <2> QED BY <1>1, <1>4, <1>7, <1>8, <2>1 DEF DaysKept
<1>11. Chained
  <2> SUFFICES ASSUME NEW d \in Days
               PROVE  days[d].edits + Cardinality(DaySet(log, Pending, d))
                        <= SumOf(minutes, MinutesOf(d))
    BY DEF Chained
  <2>1. days[d].edits = 0 /\ Cardinality(DaySet(log, Pending, d)) = 0
    BY <1>1, <1>2, <1>4, <1>6, <1>7
  <2>2. SumOf(minutes, MinutesOf(d)) \in Nat
    BY <1>3, SumOfDay
  <2> QED BY <2>1, <2>2
<1> QED BY <1>3, <1>5, <1>9, <1>10, <1>11 DEF IInv

LEMMA TickKeeps ==
    ASSUME IInv, Tick PROVE IInv'
<1>1. /\ clock < MaxClock /\ clock' = clock + 1
      /\ UNCHANGED <<log, committed, polled, filled, furthest, raw, minutes, days, errors, crashes>>
  BY DEF Tick, group, tables
<1>2. Shape /\ MaxClock \in Nat
  BY Lengths DEF IInv
<1>3. clock \in 0 .. MaxClock /\ clock' \in 0 .. MaxClock /\ clock <= clock'
      /\ \A t \in 0 .. clock : t \in 0 .. clock'
  BY <1>1, <1>2 DEF Shape
<1>4. Shape'
  BY <1>1, <1>2, <1>3 DEF Shape
<1>5. Taken' = Taken /\ Done("edits")' = Done("edits") /\ Done("edits_1m")' = Done("edits_1m")
      /\ Done("edits_1d")' = Done("edits_1d")
  BY <1>1 DEF Taken, Done
<1>6. MinutesKept' /\ DaysKept' /\ Chained'
  BY <1>1, <1>3, <1>4, <1>5, RollupsStay
<1>7. RawsKept'
  BY <1>1, <1>3, <1>4, <1>5, RawsStay
<1> QED BY <1>4, <1>6, <1>7 DEF IInv

LEMMA ProduceKeeps ==
    ASSUME IInv, Produce PROVE IInv'
<1>1. /\ Len(log) < Len(UserOf) /\ log' = Append(log, clock)
      /\ UNCHANGED <<clock, committed, polled, filled, furthest, raw, minutes, days, errors, crashes>>
  BY DEF Produce, group, tables
<1>2. Shape /\ MaxClock \in Nat /\ clock \in Nat
  BY Lengths DEF IInv, Shape
<1>3. /\ log \in Seq(Nat) /\ Len(log) \in Nat /\ Len(UserOf) \in Nat
      /\ log' \in Seq(Nat) /\ Len(log') = Len(log) + 1
      /\ \A o \in 1 .. Len(log) : log'[o] = log[o]
      /\ log'[Len(log) + 1] = clock
  BY <1>1, <1>2, MessagesAssumption DEF Shape
<1>4. \A o \in 1 .. Len(log') : log'[o] \in 0 .. clock
  <2> SUFFICES ASSUME NEW o \in 1 .. Len(log') PROVE log'[o] \in 0 .. clock
    OBVIOUS
  <2>1. CASE o = Len(log) + 1
    BY <1>2, <1>3, <2>1
  <2>2. CASE o # Len(log) + 1
    <3>1. o \in 1 .. Len(log)
      BY <1>3, <2>2
    <3> QED BY <1>2, <1>3, <3>1 DEF Shape
  <2> QED BY <2>1, <2>2
<1>5. Shape'
  <2>1. Len(log') <= Len(UserOf) /\ furthest <= Len(log')
    BY <1>1, <1>2, <1>3 DEF Shape
  <2> QED BY <1>1, <1>2, <1>3, <1>4, <2>1 DEF Shape
<1>6. Taken' = Taken /\ Done("edits")' = Done("edits") /\ Done("edits_1m")' = Done("edits_1m")
      /\ Done("edits_1d")' = Done("edits_1d")
  BY <1>1 DEF Taken, Done
<1>7. /\ \A o \in Taken : log'[o] = log[o]
      /\ clock <= clock'
  BY <1>1, <1>2, <1>3, DoneFacts
<1>8. MinutesKept' /\ DaysKept' /\ Chained'
  BY <1>1, <1>5, <1>6, <1>7, RollupsStay
<1>9. RawsKept'
  BY <1>1, <1>5, <1>6, <1>7, RawsStay
<1> QED BY <1>5, <1>8, <1>9 DEF IInv

LEMMA PollKeeps ==
    ASSUME IInv, Poll PROVE IInv'
<1>1. PICK last \in committed + 1 .. Len(log) :
        polled' = last /\ furthest' = Max({furthest, last})
  BY DEF Poll
<1>2. /\ polled = committed
      /\ UNCHANGED <<clock, log, committed, filled, raw, minutes, days, errors, crashes>>
  BY DEF Poll, tables
<1>3. Shape /\ clock \in Nat
  BY Lengths DEF IInv, Shape
<1>4. /\ committed \in Nat /\ furthest \in Nat /\ Len(log) \in Nat /\ furthest <= Len(log)
      /\ last \in Nat /\ committed < last /\ last <= Len(log)
      /\ filled = {} /\ committed <= polled
  BY <1>2, <1>3 DEF Shape
<1>5. furthest' \in {furthest, last} /\ furthest <= furthest' /\ last <= furthest'
  <2>1. \E x \in {furthest, last} : \A y \in {furthest, last} : x >= y
    BY <1>4
  <2>2. /\ Max({furthest, last}) \in {furthest, last}
        /\ \A y \in {furthest, last} : Max({furthest, last}) >= y
    BY <2>1 DEF Max
  <2> QED BY <1>1, <1>4, <2>2
<1>6. Shape'
  BY <1>1, <1>2, <1>3, <1>4, <1>5 DEF Shape
<1>7. Taken \subseteq Taken' /\ Done("edits")' = Done("edits")
      /\ Done("edits_1m")' = Done("edits_1m") /\ Done("edits_1d")' = Done("edits_1d")
  <2>1. Taken \subseteq Taken'
    BY <1>4, <1>5 DEF Taken
  <2> QED BY <1>2, <1>4, <2>1 DEF Done
<1>8. MinutesKept' /\ DaysKept' /\ Chained'
  BY <1>2, <1>3, <1>6, <1>7, RollupsStay
<1>9. RawsKept'
  BY <1>2, <1>3, <1>6, <1>7, RawsStay
<1> QED BY <1>6, <1>8, <1>9 DEF IInv

(* What a table is given when the block reaches it.                        *)
LEMMA ReachFacts ==
    ASSUME Shape, NEW table \in Tables \cup {"edits_errors"}, NEW after, Reaches(table, after)
    PROVE  /\ UNCHANGED <<clock, log, committed, polled, furthest, crashes>>
           /\ filled' = filled \cup {table} /\ after \subseteq filled /\ table \notin filled
           /\ polled # committed
           /\ Done(table) \cap Clean = {} /\ Done(table)' = Done(table) \cup Clean
           /\ \A t : t # table => Done(t)' = Done(t)
           /\ Taken' = Taken /\ Clean \subseteq Taken /\ Ingested' = Ingested
<1>1. /\ UNCHANGED <<clock, log, committed, polled, furthest, crashes>>
      /\ filled' = filled \cup {table} /\ after \subseteq filled /\ table \notin filled
      /\ polled > committed
  BY DEF Reaches
<1>2. /\ committed \in Nat /\ polled \in Nat /\ committed <= polled
      /\ furthest \in Nat /\ polled <= furthest
  BY DEF Shape
<1>3. Done(table) = (1 .. committed) \ Poison /\ Done(table)' = (1 .. polled) \ Poison
  BY <1>1 DEF Done
<1>4. /\ Clean = (committed + 1 .. polled) \ Poison
      /\ 1 .. polled = (1 .. committed) \cup (committed + 1 .. polled)
      /\ (1 .. committed) \cap (committed + 1 .. polled) = {}
      /\ committed + 1 .. polled \subseteq 1 .. furthest
  BY <1>2 DEF Clean, Block
<1>5. \A t : t # table => Done(t)' = Done(t)
  BY <1>1 DEF Done
<1>6. Taken' = Taken /\ Ingested' = Ingested /\ Clean \subseteq Taken
  BY <1>1, <1>4 DEF Taken, Ingested
<1> QED BY <1>1, <1>2, <1>3, <1>4, <1>5, <1>6

LEMMA StillShape ==
    ASSUME Shape, NEW table \in Tables \cup {"edits_errors"}, NEW after, Reaches(table, after),
           table = "edits_1d" => after = {"edits_1m"},
           raw' \in [Offsets -> Nat], minutes' \in [Minutes -> Row],
           days' \in [Days -> Row], errors' \subseteq Poison
    PROVE  Shape'
<1>1. /\ UNCHANGED <<clock, log, committed, polled, furthest, crashes>>
      /\ filled' = filled \cup {table} /\ after \subseteq filled /\ polled # committed
  BY ReachFacts
<1> QED BY <1>1 DEF Shape

LEMMA EditsKeep ==
    ASSUME IInv, InsertEdits PROVE IInv'
<1>1. Shape /\ clock \in Nat /\ crashes \in Nat
  BY Lengths DEF IInv, Shape
<1>2. /\ Reaches("edits", {})
      /\ raw' = [o \in Offsets |-> IF o \in Clean THEN raw[o] + 1 ELSE raw[o]]
      /\ UNCHANGED <<minutes, days, errors>>
  BY DEF InsertEdits
<1>3. "edits" \in Tables \cup {"edits_errors"}
  BY DEF Tables
<1>4. /\ UNCHANGED <<clock, log, committed, polled, furthest, crashes>>
      /\ Done("edits") \cap Clean = {} /\ Done("edits")' = Done("edits") \cup Clean
      /\ \A t : t # "edits" => Done(t)' = Done(t)
      /\ Taken' = Taken /\ Clean \subseteq Taken
  BY <1>1, <1>2, <1>3, ReachFacts
<1>5. raw' \in [Offsets -> Nat]
  BY <1>1, <1>2 DEF Shape
<1>6. Shape'
  <2>1. minutes' \in [Minutes -> Row] /\ days' \in [Days -> Row] /\ errors' \subseteq Poison
    BY <1>1, <1>2 DEF Shape
  <2> QED BY <1>1, <1>2, <1>3, <1>5, <2>1, StillShape
<1>7. MinutesKept' /\ DaysKept' /\ Chained'
  <2>1. Done("edits_1m")' = Done("edits_1m") /\ Done("edits_1d")' = Done("edits_1d")
    BY <1>4
  <2> QED BY <1>1, <1>2, <1>4, <1>6, <2>1, RollupsStay
<1>8. ASSUME NEW o \in Offsets
      PROVE  /\ raw'[o] <= crashes' + (IF o \in Done("edits")' THEN 1 ELSE 0)
             /\ raw'[o] > 0 => o \in Taken'
             /\ o \in Done("edits")' => raw'[o] > 0 \/ log'[o] + RawTTL <= clock'
  <2>1. /\ raw[o] <= crashes + (IF o \in Done("edits") THEN 1 ELSE 0)
        /\ raw[o] > 0 => o \in Taken
        /\ o \in Done("edits") => raw[o] > 0 \/ log[o] + RawTTL <= clock
    BY DEF IInv, RawsKept, RawExpired
  <2>2. raw[o] \in Nat
    BY <1>1 DEF Shape
  <2>3. CASE o \in Clean
    <3>1. raw'[o] = raw[o] + 1 /\ o \notin Done("edits") /\ o \in Done("edits")'
      BY <1>2, <1>4, <2>3
    <3> QED BY <1>1, <1>4, <2>1, <2>2, <2>3, <3>1
  <2>4. CASE o \notin Clean
    <3>1. raw'[o] = raw[o] /\ (o \in Done("edits")' <=> o \in Done("edits"))
      BY <1>2, <1>4, <2>4
    <3> QED BY <1>4, <2>1, <3>1
  <2> QED BY <2>3, <2>4
<1>9. RawsKept'
  BY <1>8 DEF RawsKept, RawExpired
<1> QED BY <1>6, <1>7, <1>9 DEF IInv

LEMMA ErrorsKeep ==
    ASSUME IInv, InsertErrors PROVE IInv'
<1>1. Shape /\ clock \in Nat
  BY Lengths DEF IInv, Shape
<1>2. /\ Reaches("edits_errors", {}) /\ errors' = errors \cup (Block \cap Poison)
      /\ UNCHANGED <<raw, minutes, days>>
  BY DEF InsertErrors
<1>3. /\ UNCHANGED <<clock, log, committed, polled, furthest, crashes>>
      /\ \A t : t # "edits_errors" => Done(t)' = Done(t)
      /\ Taken' = Taken
  BY <1>1, <1>2, ReachFacts
<1>4. Shape'
  <2>1. /\ raw' \in [Offsets -> Nat] /\ minutes' \in [Minutes -> Row]
        /\ days' \in [Days -> Row] /\ errors' \subseteq Poison
    BY <1>1, <1>2 DEF Shape
  <2> QED BY <1>1, <1>2, <2>1, StillShape
<1>5. /\ Done("edits")' = Done("edits") /\ Done("edits_1m")' = Done("edits_1m")
      /\ Done("edits_1d")' = Done("edits_1d") /\ clock <= clock'
  BY <1>1, <1>3
<1>6. MinutesKept' /\ DaysKept' /\ Chained'
  BY <1>2, <1>3, <1>4, <1>5, RollupsStay
<1>7. RawsKept'
  BY <1>2, <1>3, <1>4, <1>5, RawsStay
<1> QED BY <1>4, <1>6, <1>7 DEF IInv

(* What a minute and a day are given of a block.                           *)
LEMMA BlockSets ==
    /\ \A m : InMinute(Clean, m) = MinuteSet(log, Clean, m)
    /\ \A d : InDay(Clean, d) = DaySet(log, Clean, d)
BY DEF InMinute, InDay, MinuteSet, DaySet

LEMMA MinutesKeep ==
    ASSUME IInv, RollUpMinutes PROVE IInv'
<1>1. Shape /\ clock \in Nat /\ crashes \in Nat
  BY Lengths DEF IInv, Shape
<1>2. /\ Reaches("edits_1m", {"edits"})
      /\ minutes' = [m \in Minutes |-> AddedTo(minutes[m], MinuteSet(log, Clean, m))]
      /\ UNCHANGED <<raw, days, errors>>
  BY BlockSets DEF RollUpMinutes
<1>3. "edits_1m" \in Tables \cup {"edits_errors"}
  BY DEF Tables
<1>4. /\ UNCHANGED <<clock, log, committed, polled, furthest, crashes>>
      /\ "edits_1m" \notin filled
      /\ Done("edits_1m") \cap Clean = {} /\ Done("edits_1m")' = Done("edits_1m") \cup Clean
      /\ \A t : t # "edits_1m" => Done(t)' = Done(t)
      /\ Taken' = Taken /\ Clean \subseteq Taken
  BY <1>1, <1>2, <1>3, ReachFacts
<1>5. /\ IsFiniteSet(Taken) /\ IsFiniteSet(Clean) /\ Done("edits_1m") \subseteq Taken
      /\ \A o \in Taken : log[o] \in 0 .. MaxClock
  BY <1>1, <1>4, DoneFacts, FS_Subset
<1>6. ASSUME NEW m \in Minutes
      PROVE  /\ minutes[m] \in Row /\ IsFiniteSet(MinuteSet(log, Clean, m))
             /\ minutes'[m] = AddedTo(minutes[m], MinuteSet(log, Clean, m))
             /\ minutes'[m] \in Row
             /\ minutes'[m].edits = minutes[m].edits + Cardinality(MinuteSet(log, Clean, m))
  <2>1. minutes[m] \in Row /\ IsFiniteSet(MinuteSet(log, Clean, m))
    BY <1>1, <1>5, SetsFacts DEF Shape
  <2>2. minutes'[m] = AddedTo(minutes[m], MinuteSet(log, Clean, m))
    BY <1>2
  <2> QED BY <2>1, <2>2, AddedFacts
<1>7. Shape'
  <2>1. minutes' \in [Minutes -> Row]
    BY <1>2, <1>6
  <2>2. raw' \in [Offsets -> Nat] /\ days' \in [Days -> Row] /\ errors' \subseteq Poison
    BY <1>1, <1>2 DEF Shape
  <2> QED BY <1>1, <1>2, <1>3, <2>1, <2>2, StillShape
<1>8. RawsKept'
  <2>1. Done("edits")' = Done("edits") /\ clock <= clock'
    BY <1>1, <1>4
  <2> QED BY <1>2, <1>4, <1>7, <2>1, RawsStay
<1>9. ASSUME NEW m \in Minutes
      PROVE  /\ Most(minutes'[m], crashes', MinuteSet(log', Taken', m),
                     MinuteSet(log', Done("edits_1m")', m))
             /\ ~(m + MinuteTTL <= clock') =>
                  Least(minutes'[m], MinuteSet(log', Done("edits_1m")', m))
  <2> DEFINE all == MinuteSet(log, Taken, m)
             os == MinuteSet(log, Done("edits_1m"), m)
             block == MinuteSet(log, Clean, m)
  <2>1. os \cap block = {} /\ MinuteSet(log', Done("edits_1m")', m) = os \cup block
    <3> DEFINE S == Done("edits_1m")
    <3>1. S \cap Clean = {} /\ Done("edits_1m")' = S \cup Clean /\ log' = log
      BY <1>4
    <3> HIDE DEF S
    <3>2. /\ MinuteSet(log, S \cup Clean, m) = MinuteSet(log, S, m) \cup MinuteSet(log, Clean, m)
          /\ MinuteSet(log, S, m) \cap MinuteSet(log, Clean, m) = {}
      BY <3>1 DEF MinuteSet, DaySet
    <3> QED BY <3>1, <3>2 DEF S
  <2>2. IsFiniteSet(all) /\ os \in SUBSET all /\ block \in SUBSET all
    BY <1>1, <1>4, <1>5, RowSets
  <2>3. Most(minutes[m], crashes, all, os) /\ (~(m + MinuteTTL <= clock) => Least(minutes[m], os))
    BY DEF IInv, MinutesKept, MinuteExpired
  <2>4. minutes'[m] = AddedTo(minutes[m], block) /\ minutes[m] \in Row
    BY <1>6
  <2>5. MinuteSet(log', Taken', m) = all
    BY <1>4
  <2> HIDE DEF all, os, block
  <2>6. /\ Most(minutes'[m], crashes, all, os \cup block)
        /\ Least(minutes[m], os) => Least(minutes'[m], os \cup block)
    BY <1>1, <2>1, <2>2, <2>3, <2>4, RowGrows
  <2> QED BY <1>4, <2>1, <2>3, <2>5, <2>6
<1>10. ASSUME NEW d \in Days
       PROVE  /\ Most(days'[d], crashes', DaySet(log', Taken', d),
                      DaySet(log', Done("edits_1d")', d))
              /\ Least(days'[d], DaySet(log', Done("edits_1d")', d))
  BY <1>2, <1>4 DEF IInv, DaysKept
<1>11. Pending' = Clean /\ Pending = {}
  <2>1. "edits_1d" \notin filled
    BY <1>1, <1>4 DEF Shape
  <2>2. Done("edits_1d") = Done("edits_1m") /\ Done("edits_1d")' = Done("edits_1d")
    BY <1>4, <2>1 DEF Done
  <2> QED BY <1>4, <2>2 DEF Pending
<1>12. ASSUME NEW d \in Days, \A m \in MinutesOf(d) : ~(m + MinuteTTL <= clock')
       PROVE  days'[d].edits + Cardinality(DaySet(log', Pending', d))
                <= SumOf(minutes', MinutesOf(d))
  <2> DEFINE D == MinutesOf(d)
             f == [m \in D |-> minutes[m].edits]
             h == [m \in D |-> Cardinality(MinuteSet(log, Clean, m))]
             k == [m \in D |-> minutes'[m].edits]
             B == Cardinality(DaySet(log, Clean, d))
  <2>1. D \subseteq Minutes
    BY DEF MinutesOf
  <2>2. \A m \in D : h[m] = Cardinality(MinuteSet(log, Clean, m))
    OBVIOUS
  <2>3. \A m \in D : /\ f[m] = minutes[m].edits /\ f[m] \in Nat /\ h[m] \in Nat
                     /\ k[m] = minutes'[m].edits /\ k[m] \in Nat /\ k[m] = f[m] + h[m]
    <3> SUFFICES ASSUME NEW m \in D
                 PROVE  /\ f[m] = minutes[m].edits /\ f[m] \in Nat /\ h[m] \in Nat
                        /\ k[m] = minutes'[m].edits /\ k[m] \in Nat /\ k[m] = f[m] + h[m]
      OBVIOUS
    <3>1. /\ minutes[m] \in Row /\ IsFiniteSet(MinuteSet(log, Clean, m))
          /\ minutes'[m].edits = minutes[m].edits + Cardinality(MinuteSet(log, Clean, m))
      BY <1>6, <2>1
    <3>2. minutes[m].edits \in Nat /\ Cardinality(MinuteSet(log, Clean, m)) \in Nat
      BY <3>1, FS_CardinalityType DEF Row
    <3> QED BY <3>1, <3>2
  <2> HIDE DEF f, h, k, B
  <2>4. IsFiniteSet(D) /\ SumOver(h, D) = B
    BY <1>4, <1>5, <2>2, DayIsItsMinutes DEF B
  <2>5. SumOf(minutes, D) = SumOver(f, D) /\ SumOf(minutes', D) = SumOver(k, D)
    BY <2>3, <2>4, SumOfRows
  <2>6. SumOver(k, D) = SumOver(f, D) + SumOver(h, D)
    BY <2>3, <2>4, SumPlus
  <2>7. SumOver(f, D) \in Nat /\ SumOver(h, D) \in Nat
    BY <2>3, <2>4, SumNat
  <2>8. days[d].edits + Cardinality(DaySet(log, Pending, d)) <= SumOf(minutes, D)
    BY <1>4, <1>12 DEF IInv, Chained, MinuteExpired
  <2>9. Cardinality(DaySet(log, Pending, d)) = 0
    <3>1. DaySet(log, {}, d) = {}
      BY DEF DaySet
    <3> QED BY <1>11, <3>1, FS_EmptySet
  <2>10. Cardinality(DaySet(log', Pending', d)) = B /\ days'[d] = days[d]
    BY <1>2, <1>4, <1>11 DEF B
  <2>11. days[d].edits \in Nat
    BY <1>1 DEF Shape, Row
  <2> HIDE DEF D
  <2>12. days[d].edits + B <= SumOf(minutes', D)
    BY <2>4, <2>5, <2>6, <2>7, <2>8, <2>9, <2>11
  <2> QED BY <2>10, <2>12 DEF D
<1>13. MinutesKept'
  BY <1>9 DEF MinutesKept, MinuteExpired
<1>14. DaysKept'
  BY <1>10 DEF DaysKept
<1>15. Chained'
  BY <1>12 DEF Chained, MinuteExpired
<1> QED BY <1>7, <1>8, <1>13, <1>14, <1>15 DEF IInv

LEMMA DaysKeep ==
    ASSUME IInv, RollUpDays PROVE IInv'
<1>1. Shape /\ clock \in Nat /\ crashes \in Nat
  BY Lengths DEF IInv, Shape
<1>2. /\ Reaches("edits_1d", {"edits_1m"})
      /\ days' = [d \in Days |-> AddedTo(days[d], DaySet(log, Clean, d))]
      /\ UNCHANGED <<raw, minutes, errors>>
  BY BlockSets DEF RollUpDays
<1>3. "edits_1d" \in Tables \cup {"edits_errors"}
  BY DEF Tables
<1>4. /\ UNCHANGED <<clock, log, committed, polled, furthest, crashes>>
      /\ "edits_1d" \notin filled /\ {"edits_1m"} \subseteq filled
      /\ Done("edits_1d") \cap Clean = {} /\ Done("edits_1d")' = Done("edits_1d") \cup Clean
      /\ \A t : t # "edits_1d" => Done(t)' = Done(t)
      /\ Taken' = Taken /\ Clean \subseteq Taken
  BY <1>1, <1>2, <1>3, ReachFacts
<1>5. /\ IsFiniteSet(Taken) /\ IsFiniteSet(Clean) /\ Done("edits_1d") \subseteq Taken
  BY <1>1, <1>4, DoneFacts, FS_Subset
<1>6. ASSUME NEW d \in Days
      PROVE  /\ days[d] \in Row /\ IsFiniteSet(DaySet(log, Clean, d))
             /\ days'[d] = AddedTo(days[d], DaySet(log, Clean, d))
             /\ days'[d] \in Row
             /\ days'[d].edits = days[d].edits + Cardinality(DaySet(log, Clean, d))
  <2>1. days[d] \in Row /\ IsFiniteSet(DaySet(log, Clean, d))
    BY <1>1, <1>5, SetsFacts DEF Shape
  <2>2. days'[d] = AddedTo(days[d], DaySet(log, Clean, d))
    BY <1>2
  <2> QED BY <2>1, <2>2, AddedFacts
<1>7. Shape'
  <2>1. days' \in [Days -> Row]
    BY <1>2, <1>6
  <2>2. raw' \in [Offsets -> Nat] /\ minutes' \in [Minutes -> Row] /\ errors' \subseteq Poison
    BY <1>1, <1>2 DEF Shape
  <2> QED BY <1>1, <1>2, <1>3, <2>1, <2>2, StillShape
<1>8. RawsKept'
  <2>1. Done("edits")' = Done("edits") /\ clock <= clock'
    BY <1>1, <1>4
  <2> QED BY <1>2, <1>4, <1>7, <2>1, RawsStay
<1>9. ASSUME NEW m \in Minutes
      PROVE  /\ Most(minutes'[m], crashes', MinuteSet(log', Taken', m),
                     MinuteSet(log', Done("edits_1m")', m))
             /\ ~(m + MinuteTTL <= clock') =>
                  Least(minutes'[m], MinuteSet(log', Done("edits_1m")', m))
  BY <1>2, <1>4 DEF IInv, MinutesKept, MinuteExpired
<1>10. ASSUME NEW d \in Days
       PROVE  /\ Most(days'[d], crashes', DaySet(log', Taken', d),
                      DaySet(log', Done("edits_1d")', d))
              /\ Least(days'[d], DaySet(log', Done("edits_1d")', d))
  <2> DEFINE all == DaySet(log, Taken, d)
             os == DaySet(log, Done("edits_1d"), d)
             block == DaySet(log, Clean, d)
  <2>1. os \cap block = {} /\ DaySet(log', Done("edits_1d")', d) = os \cup block
    <3> DEFINE S == Done("edits_1d")
    <3>1. S \cap Clean = {} /\ Done("edits_1d")' = S \cup Clean /\ log' = log
      BY <1>4
    <3> HIDE DEF S
    <3>2. /\ DaySet(log, S \cup Clean, d) = DaySet(log, S, d) \cup DaySet(log, Clean, d)
          /\ DaySet(log, S, d) \cap DaySet(log, Clean, d) = {}
      BY <3>1 DEF MinuteSet, DaySet
    <3> QED BY <3>1, <3>2 DEF S
  <2>2. IsFiniteSet(all) /\ os \in SUBSET all /\ block \in SUBSET all
    BY <1>1, <1>4, <1>5, RowSets
  <2>3. Most(days[d], crashes, all, os) /\ Least(days[d], os)
    BY DEF IInv, DaysKept
  <2>4. days'[d] = AddedTo(days[d], block) /\ days[d] \in Row
    BY <1>6
  <2>5. DaySet(log', Taken', d) = all
    BY <1>4
  <2> HIDE DEF all, os, block
  <2>6. /\ Most(days'[d], crashes, all, os \cup block)
        /\ Least(days'[d], os \cup block)
    BY <1>1, <2>1, <2>2, <2>3, <2>4, RowGrows
  <2> QED BY <1>4, <2>1, <2>5, <2>6
<1>11. Pending' = {} /\ Pending = Clean
  <2>1. Done("edits_1m") = Done("edits_1d") \cup Clean
    <3>1. /\ Done("edits_1m") = (1 .. polled) \ Poison
          /\ Done("edits_1d") = (1 .. committed) \ Poison
          /\ Clean = (committed + 1 .. polled) \ Poison
      BY <1>4 DEF Done, Clean, Block
    <3>2. committed \in Nat /\ polled \in Nat /\ committed <= polled
      BY <1>1 DEF Shape
    <3>3. 1 .. polled = (1 .. committed) \cup (committed + 1 .. polled)
      BY <3>2
    <3> QED BY <3>1, <3>3
  <2>2. Done("edits_1m")' = Done("edits_1m")
    BY <1>4
  <2> QED BY <1>4, <2>1, <2>2 DEF Pending
<1>12. ASSUME NEW d \in Days, \A m \in MinutesOf(d) : ~(m + MinuteTTL <= clock')
       PROVE  days'[d].edits + Cardinality(DaySet(log', Pending', d))
                <= SumOf(minutes', MinutesOf(d))
  <2>1. days[d].edits + Cardinality(DaySet(log, Clean, d)) <= SumOf(minutes, MinutesOf(d))
    BY <1>4, <1>11, <1>12 DEF IInv, Chained, MinuteExpired
  <2>2. Cardinality(DaySet(log', Pending', d)) = 0
    <3>1. DaySet(log', {}, d) = {}
      BY DEF DaySet
    <3> QED BY <1>11, <3>1, FS_EmptySet
  <2>3. days'[d].edits = days[d].edits + Cardinality(DaySet(log, Clean, d)) /\ days'[d].edits \in Nat
    BY <1>6 DEF Row
  <2> QED BY <1>2, <2>1, <2>2, <2>3
<1>13. MinutesKept'
  BY <1>9 DEF MinutesKept, MinuteExpired
<1>14. DaysKept'
  BY <1>10 DEF DaysKept
<1>15. Chained'
  BY <1>12 DEF Chained, MinuteExpired
<1> QED BY <1>7, <1>8, <1>13, <1>14, <1>15 DEF IInv

LEMMA CommitKeeps ==
    ASSUME IInv, Commit PROVE IInv'
<1>1. /\ filled = Tables \cup {"edits_errors"} /\ committed' = polled /\ filled' = {}
      /\ UNCHANGED <<clock, log, polled, furthest, raw, minutes, days, errors, crashes>>
  BY DEF Commit, tables
<1>2. Shape /\ clock \in Nat
  BY Lengths DEF IInv, Shape
<1>3. Shape'
  BY <1>1, <1>2 DEF Shape
<1>4. Taken' = Taken /\ Done("edits")' = Done("edits") /\ Done("edits_1m")' = Done("edits_1m")
      /\ Done("edits_1d")' = Done("edits_1d")
  BY <1>1 DEF Taken, Done, Tables
<1>5. clock <= clock' /\ log' = log
  BY <1>1, <1>2
<1>6. MinutesKept' /\ DaysKept' /\ Chained'
  BY <1>1, <1>3, <1>4, <1>5, RollupsStay
<1>7. RawsKept'
  BY <1>1, <1>3, <1>4, <1>5, RawsStay
<1> QED BY <1>3, <1>6, <1>7 DEF IInv

LEMMA CrashKeeps ==
    ASSUME IInv, Crash PROVE IInv'
<1>1. /\ crashes < MaxCrashes /\ crashes' = crashes + 1 /\ polled' = committed /\ filled' = {}
      /\ UNCHANGED <<clock, log, committed, furthest, raw, minutes, days, errors>>
  BY DEF Crash, tables
<1>2. Shape /\ clock \in Nat /\ crashes \in Nat /\ MaxCrashes \in Nat
  BY Lengths DEF IInv, Shape
<1>3. Shape'
  <2>1. crashes' \in 0 .. MaxCrashes /\ committed <= furthest
    BY <1>1, <1>2 DEF Shape
  <2> QED BY <1>1, <1>2, <2>1 DEF Shape
<1>4. /\ Taken' = Taken
      /\ \A t : Done(t)' = Ingested /\ Ingested \subseteq Done(t) /\ Done(t) \subseteq Taken
      /\ Pending' = {}
  <2>1. \A t : Done(t)' = Ingested
    BY <1>1 DEF Done, Ingested
  <2>2. Taken' = Taken
    BY <1>1 DEF Taken
  <2>3. \A t : Ingested \subseteq Done(t) /\ Done(t) \subseteq Taken
    BY <1>2, DoneFacts
  <2>4. Done("edits_1m")' = Ingested /\ Done("edits_1d")' = Ingested
    BY <2>1
  <2>5. Pending' = {}
    BY <2>4 DEF Pending
  <2> QED BY <2>1, <2>2, <2>3, <2>5
<1>5. Done("edits")' = Ingested /\ Done("edits_1m")' = Ingested /\ Done("edits_1d")' = Ingested
  BY <1>4
<1>6. ASSUME NEW o \in Offsets
      PROVE  /\ raw'[o] <= crashes' + (IF o \in Done("edits")' THEN 1 ELSE 0)
             /\ raw'[o] > 0 => o \in Taken'
             /\ o \in Done("edits")' => raw'[o] > 0 \/ log'[o] + RawTTL <= clock'
  <2>1. /\ raw[o] <= crashes + (IF o \in Done("edits") THEN 1 ELSE 0)
        /\ raw[o] > 0 => o \in Taken
        /\ o \in Done("edits") => raw[o] > 0 \/ log[o] + RawTTL <= clock
        /\ raw[o] \in Nat
    BY <1>2 DEF IInv, RawsKept, RawExpired, Shape
  <2>2. raw[o] <= crashes + 1
    BY <1>2, <2>1
  <2>3. raw'[o] <= crashes' + (IF o \in Done("edits")' THEN 1 ELSE 0)
    BY <1>1, <1>2, <2>1, <2>2
  <2> QED BY <1>1, <1>4, <1>5, <2>1, <2>3
<1>7. RawsKept'
  BY <1>6 DEF RawsKept, RawExpired
<1>8. ASSUME NEW m \in Minutes
      PROVE  /\ Most(minutes'[m], crashes', MinuteSet(log', Taken', m),
                     MinuteSet(log', Done("edits_1m")', m))
             /\ ~(m + MinuteTTL <= clock') =>
                  Least(minutes'[m], MinuteSet(log', Done("edits_1m")', m))
  <2> DEFINE all == MinuteSet(log, Taken, m)
             os == MinuteSet(log, Done("edits_1m"), m)
             less == MinuteSet(log, Ingested, m)
  <2>1. less \in SUBSET os
    BY <1>4 DEF MinuteSet
  <2>2. IsFiniteSet(all) /\ os \in SUBSET all /\ all \in SUBSET all
    BY <1>2, <1>4, RowSets
  <2>3. Most(minutes[m], crashes, all, os) /\ (~(m + MinuteTTL <= clock) => Least(minutes[m], os))
    BY DEF IInv, MinutesKept, MinuteExpired
  <2>4. minutes[m] \in Row
    BY <1>2 DEF Shape
  <2>5. MinuteSet(log', Taken', m) = all /\ MinuteSet(log', Done("edits_1m")', m) = less
    BY <1>1, <1>4, <1>5
  <2> HIDE DEF all, os, less
  <2>6. /\ Most(minutes[m], crashes + 1, all, less)
        /\ Least(minutes[m], os) => Least(minutes[m], less)
    BY <1>2, <2>1, <2>2, <2>3, <2>4, RowStays
  <2> QED BY <1>1, <2>3, <2>5, <2>6
<1>9. ASSUME NEW d \in Days
      PROVE  /\ Most(days'[d], crashes', DaySet(log', Taken', d),
                     DaySet(log', Done("edits_1d")', d))
             /\ Least(days'[d], DaySet(log', Done("edits_1d")', d))
  <2> DEFINE all == DaySet(log, Taken, d)
             os == DaySet(log, Done("edits_1d"), d)
             less == DaySet(log, Ingested, d)
  <2>1. less \in SUBSET os
    BY <1>4 DEF DaySet
  <2>2. IsFiniteSet(all) /\ os \in SUBSET all /\ all \in SUBSET all
    BY <1>2, <1>4, RowSets
  <2>3. Most(days[d], crashes, all, os) /\ Least(days[d], os)
    BY DEF IInv, DaysKept
  <2>4. days[d] \in Row
    BY <1>2 DEF Shape
  <2>5. DaySet(log', Taken', d) = all /\ DaySet(log', Done("edits_1d")', d) = less
    BY <1>1, <1>4, <1>5
  <2> HIDE DEF all, os, less
  <2>6. Most(days[d], crashes + 1, all, less) /\ Least(days[d], less)
    BY <1>2, <2>1, <2>2, <2>3, <2>4, RowStays
  <2> QED BY <1>1, <2>5, <2>6
<1>10. ASSUME NEW d \in Days, \A m \in MinutesOf(d) : ~(m + MinuteTTL <= clock')
       PROVE  days'[d].edits + Cardinality(DaySet(log', Pending', d))
                <= SumOf(minutes', MinutesOf(d))
  <2>1. days[d].edits + Cardinality(DaySet(log, Pending, d)) <= SumOf(minutes, MinutesOf(d))
    BY <1>1, <1>10 DEF IInv, Chained, MinuteExpired
  <2>2. Cardinality(DaySet(log', Pending', d)) = 0
    <3>1. DaySet(log', {}, d) = {}
      BY DEF DaySet
    <3> QED BY <1>4, <3>1, FS_EmptySet
  <2>3. Cardinality(DaySet(log, Pending, d)) \in Nat
    <3>1. Pending \in SUBSET Taken
      BY <1>2, DoneFacts
    <3>2. IsFiniteSet(DaySet(log, Pending, d))
      BY <1>2, <3>1, RowSets, FS_Subset
    <3> QED BY <3>2, FS_CardinalityType
  <2>4. days[d].edits \in Nat /\ SumOf(minutes, MinutesOf(d)) \in Nat
    BY <1>2, SumOfDay DEF Shape, Row
  <2>5. days[d].edits + 0 <= SumOf(minutes, MinutesOf(d))
    BY <2>1, <2>3, <2>4
  <2> QED BY <1>1, <2>2, <2>5
<1>11. MinutesKept'
  BY <1>8 DEF MinutesKept, MinuteExpired
<1>12. DaysKept'
  BY <1>9 DEF DaysKept
<1>13. Chained'
  BY <1>10 DEF Chained, MinuteExpired
<1> QED BY <1>3, <1>7, <1>11, <1>12, <1>13 DEF IInv

LEMMA MergeKeeps ==
    ASSUME IInv, NEW p \in Offsets, MergeEdits(p) \/ ExpireEdits(p) PROVE IInv'
<1>1. /\ \/ raw[p] > 1 /\ raw' = [raw EXCEPT ![p] = 1]
         \/ raw[p] > 0 /\ RawExpired(p) /\ raw' = [raw EXCEPT ![p] = 0]
      /\ UNCHANGED <<clock, log, committed, polled, filled, furthest, minutes, days, errors, crashes>>
  BY DEF MergeEdits, ExpireEdits, group
<1>2. Shape /\ clock \in Nat
  BY Lengths DEF IInv, Shape
<1>3. raw \in [Offsets -> Nat]
  BY <1>2 DEF Shape
<1>4. Shape'
  <2>1. raw' \in [Offsets -> Nat]
    BY <1>1, <1>3
  <2> QED BY <1>1, <1>2, <2>1 DEF Shape
<1>5. Taken' = Taken /\ Done("edits")' = Done("edits") /\ Done("edits_1m")' = Done("edits_1m")
      /\ Done("edits_1d")' = Done("edits_1d")
  BY <1>1 DEF Taken, Done
<1>6. clock <= clock' /\ log' = log
  BY <1>1, <1>2
<1>7. MinutesKept' /\ DaysKept' /\ Chained'
  BY <1>1, <1>4, <1>5, <1>6, RollupsStay
<1>8. ASSUME NEW o \in Offsets
      PROVE  /\ raw'[o] <= crashes' + (IF o \in Done("edits")' THEN 1 ELSE 0)
             /\ raw'[o] > 0 => o \in Taken'
             /\ o \in Done("edits")' => raw'[o] > 0 \/ log'[o] + RawTTL <= clock'
  <2>1. /\ raw[o] <= crashes + (IF o \in Done("edits") THEN 1 ELSE 0)
        /\ raw[o] > 0 => o \in Taken
        /\ o \in Done("edits") => raw[o] > 0 \/ log[o] + RawTTL <= clock
    BY DEF IInv, RawsKept, RawExpired
  <2>2. crashes \in Nat /\ raw[o] \in Nat
    BY <1>2, <1>3, Lengths DEF Shape
  <2>3. CASE o = p
    <3>1. raw'[o] <= raw[o] /\ raw'[o] \in Nat /\ raw[o] > 0
          /\ (raw'[o] > 0 \/ log[o] + RawTTL <= clock)
      BY <1>1, <1>3, <2>2, <2>3 DEF RawExpired
    <3> QED BY <1>1, <1>5, <2>1, <2>2, <3>1
  <2>4. CASE o # p
    <3>1. raw'[o] = raw[o]
      BY <1>1, <1>3, <2>4
    <3> QED BY <1>1, <1>5, <2>1, <3>1
  <2> QED BY <2>3, <2>4
<1>9. RawsKept'
  BY <1>8 DEF RawsKept, RawExpired
<1> QED BY <1>4, <1>7, <1>9 DEF IInv

LEMMA ExpireKeeps ==
    ASSUME IInv, NEW x \in Minutes, ExpireMinute(x) PROVE IInv'
<1>1. /\ x + MinuteTTL <= clock /\ minutes' = [minutes EXCEPT ![x] = NoRow]
      /\ UNCHANGED <<clock, log, committed, polled, filled, furthest, raw, days, errors, crashes>>
  BY DEF ExpireMinute, group, MinuteExpired
<1>2. Shape /\ clock \in Nat /\ crashes \in Nat
  BY Lengths DEF IInv, Shape
<1>3. NoRow \in Row /\ NoRow.edits = 0 /\ NoRow.editors = {}
  BY DEF NoRow, Row
<1>4. /\ minutes \in [Minutes -> Row] /\ minutes' \in [Minutes -> Row] /\ minutes'[x] = NoRow
      /\ \A m \in Minutes : m # x => minutes'[m] = minutes[m]
  BY <1>1, <1>2, <1>3 DEF Shape
<1>5. Shape'
  BY <1>1, <1>2, <1>4 DEF Shape
<1>6. /\ Taken' = Taken /\ Done("edits")' = Done("edits") /\ Done("edits_1m")' = Done("edits_1m")
      /\ Done("edits_1d")' = Done("edits_1d")
  BY <1>1 DEF Taken, Done
<1>7. Pending' = Pending
  BY <1>6 DEF Pending
<1>8. RawsKept'
  <2>1. clock <= clock' /\ log' = log
    BY <1>1, <1>2
  <2> QED BY <1>1, <1>5, <1>6, <2>1, RawsStay
<1>9. ASSUME NEW m \in Minutes
      PROVE  /\ Most(minutes'[m], crashes', MinuteSet(log', Taken', m),
                     MinuteSet(log', Done("edits_1m")', m))
             /\ ~(m + MinuteTTL <= clock') =>
                  Least(minutes'[m], MinuteSet(log', Done("edits_1m")', m))
  <2> DEFINE all == MinuteSet(log, Taken, m)
             os == MinuteSet(log, Done("edits_1m"), m)
  <2>1. MinuteSet(log', Taken', m) = all /\ MinuteSet(log', Done("edits_1m")', m) = os
    BY <1>1, <1>6
  <2>2. IsFiniteSet(all) /\ os \in SUBSET all
    BY <1>2, RowSets, DoneFacts
  <2>3. Most(minutes[m], crashes, all, os) /\ (~(m + MinuteTTL <= clock) => Least(minutes[m], os))
    BY DEF IInv, MinutesKept, MinuteExpired
  <2> HIDE DEF all, os
  <2>4. CASE m = x
    <3>1. Cardinality(all) \in Nat /\ Cardinality(os) \in Nat
      BY <2>2, Sizes
    <3>2. crashes * Cardinality(all) \in Nat
      BY <1>2, <3>1, Times
    <3> DEFINE N == crashes * Cardinality(all)
    <3> HIDE DEF N
    <3>3. 0 <= N + Cardinality(os)
      <4>1. N \in Nat
        BY <3>2 DEF N
      <4> QED BY <3>1, <4>1
    <3>4. Most(NoRow, crashes, all, os)
      BY <1>3, <3>3 DEF Most, N
    <3> QED BY <1>1, <1>4, <2>1, <2>4, <3>4
  <2>5. CASE m # x
    BY <1>1, <1>4, <2>1, <2>3, <2>5
  <2> QED BY <2>4, <2>5
<1>10. ASSUME NEW d \in Days
       PROVE  /\ Most(days'[d], crashes', DaySet(log', Taken', d),
                      DaySet(log', Done("edits_1d")', d))
              /\ Least(days'[d], DaySet(log', Done("edits_1d")', d))
  BY <1>1, <1>6 DEF IInv, DaysKept
<1>11. ASSUME NEW d \in Days, \A m \in MinutesOf(d) : ~(m + MinuteTTL <= clock')
       PROVE  days'[d].edits + Cardinality(DaySet(log', Pending', d))
                <= SumOf(minutes', MinutesOf(d))
  <2> DEFINE D == MinutesOf(d)
             f == [m \in D |-> minutes[m].edits]
  <2>1. D \in SUBSET Minutes /\ x \notin D
    BY <1>1, <1>11 DEF MinutesOf
  <2>2. IsFiniteSet(D)
    BY <2>1, StartsFacts, FS_Subset
  <2>3. \A m \in D : f[m] = minutes[m].edits /\ f[m] = minutes'[m].edits /\ f[m] \in Nat
    <3>1. \A m \in D : minutes[m] \in Row /\ minutes'[m] = minutes[m]
      BY <1>4, <2>1
    <3> QED BY <3>1 DEF Row
  <2> HIDE DEF f
  <2>4. SumOf(minutes, D) = SumOver(f, D) /\ SumOf(minutes', D) = SumOver(f, D)
    BY <2>2, <2>3, SumOfRows
  <2>5. days[d].edits + Cardinality(DaySet(log, Pending, d)) <= SumOf(minutes, D)
    BY <1>1, <1>11 DEF IInv, Chained, MinuteExpired
  <2> QED BY <1>1, <1>7, <2>4, <2>5
<1>12. MinutesKept'
  BY <1>9 DEF MinutesKept, MinuteExpired
<1>13. DaysKept'
  BY <1>10 DEF DaysKept
<1>14. Chained'
  BY <1>11 DEF Chained, MinuteExpired
<1> QED BY <1>5, <1>8, <1>12, <1>13, <1>14 DEF IInv

LEMMA StepKeeps == IInv /\ [Next]_vars => IInv'
<1> SUFFICES ASSUME IInv, [Next]_vars PROVE IInv'
  OBVIOUS
<1>1. CASE Tick
  BY <1>1, TickKeeps
<1>2. CASE Produce
  BY <1>2, ProduceKeeps
<1>3. CASE Poll
  BY <1>3, PollKeeps
<1>4. CASE InsertEdits
  BY <1>4, EditsKeep
<1>5. CASE RollUpMinutes
  BY <1>5, MinutesKeep
<1>6. CASE RollUpDays
  BY <1>6, DaysKeep
<1>7. CASE InsertErrors
  BY <1>7, ErrorsKeep
<1>8. CASE Commit
  BY <1>8, CommitKeeps
<1>9. CASE Crash
  BY <1>9, CrashKeeps
<1>10. ASSUME NEW o \in Offsets, MergeEdits(o) \/ ExpireEdits(o) PROVE IInv'
  BY <1>10, MergeKeeps
<1>11. ASSUME NEW m \in Minutes, ExpireMinute(m) PROVE IInv'
  BY <1>11, ExpireKeeps
<1>12. CASE UNCHANGED vars
  <2>1. UNCHANGED <<clock, log, committed, polled, filled, furthest, raw, minutes, days, errors,
                    crashes>>
    BY <1>12 DEF vars, group, tables
  <2>2. Shape /\ clock \in Nat
    BY Lengths DEF IInv, Shape
  <2>3. Shape'
    BY <2>1, <2>2 DEF Shape
  <2>4. Taken' = Taken /\ Done("edits")' = Done("edits")
        /\ Done("edits_1m")' = Done("edits_1m") /\ Done("edits_1d")' = Done("edits_1d")
    BY <2>1 DEF Taken, Done
  <2>5. clock <= clock' /\ log' = log
    BY <2>1, <2>2
  <2>6. MinutesKept' /\ DaysKept' /\ Chained'
    BY <2>1, <2>3, <2>4, <2>5, RollupsStay
  <2>7. RawsKept'
    BY <2>1, <2>3, <2>4, <2>5, RawsStay
  <2> QED BY <2>3, <2>6, <2>7 DEF IInv
<1> QED BY <1>1, <1>2, <1>3, <1>4, <1>5, <1>6, <1>7, <1>8, <1>9, <1>10, <1>11, <1>12 DEF Next

LEMMA AlwaysIInv == Spec => []IInv
BY InitIInv, StepKeeps, PTL DEF Spec

-----------------------------------------------------------------------------
(* What follows from it                                                    *)

(* The store keeps its shape, for any topic, table, interval and number of *)
(* interrupted deliveries: offsets are in order, a message has no more     *)
(* rows than it was delivered.                                             *)
THEOREM StoreTypeCorrect == Spec => []TypeOK
<1>1. ASSUME IInv PROVE TypeOK
  <2>1. Shape
    BY <1>1 DEF IInv
  <2>2. raw \in [Offsets -> 0 .. MaxCrashes + 1]
    <3>1. ASSUME NEW o \in Offsets PROVE raw[o] \in 0 .. MaxCrashes + 1
      <4>1. raw[o] <= crashes + (IF o \in Done("edits") THEN 1 ELSE 0)
        BY <1>1 DEF IInv, RawsKept
      <4>2. raw[o] \in Nat /\ crashes \in 0 .. MaxCrashes /\ MaxCrashes \in Nat
        BY <2>1, Lengths DEF Shape
      <4> QED BY <4>1, <4>2
    <3>2. raw = [o \in Offsets |-> raw[o]]
      BY <2>1 DEF Shape
    <3> QED BY <3>1, <3>2
  <2>3. 0 <= committed
    BY <2>1 DEF Shape
  <2> QED BY <2>1, <2>2, <2>3 DEF TypeOK, Shape
<1> QED BY <1>1, AlwaysIInv, PTL

LEMMA InSets ==
    /\ \A os, m : InMinute(os, m) = MinuteSet(log, os, m)
    /\ \A os, d : InDay(os, d) = DaySet(log, os, d)
BY DEF InMinute, InDay, MinuteSet, DaySet

LEMMA CoversRow ==
    ASSUME NEW row \in Row, crashes \in Nat, NEW all, IsFiniteSet(all),
           NEW os \in SUBSET all, NEW least \in SUBSET os,
           Most(row, crashes, all, os), Least(row, os)
    PROVE  Covers(row, least, all)
<1>1. Most(row, crashes + 1, all, {}) /\ Least(row, least)
  <2>1. {} \in SUBSET os /\ all \in SUBSET all
    OBVIOUS
  <2> QED BY <2>1, RowStays
<1>2. IsFiniteSet(least) /\ Cardinality(least) \in Nat /\ Cardinality(all) \in Nat
  BY FS_Subset, FS_CardinalityType
<1>3. (crashes + 1) * Cardinality(all) \in Nat
  <2>1. crashes + 1 \in Nat
    OBVIOUS
  <2> QED BY <1>2, <2>1, Times
<1> DEFINE N == (crashes + 1) * Cardinality(all)
<1>4. Cardinality({}) = 0
  BY FS_EmptySet
<1>5. row.edits <= N + Cardinality({}) /\ row.editors \subseteq EditorsOf(all)
      /\ Cardinality(least) <= row.edits /\ EditorsOf(least) \subseteq row.editors
  BY <1>1 DEF Most, Least
<1>6. row.edits \in Nat /\ N \in Nat
  BY <1>3 DEF Row
<1> HIDE DEF N
<1>7. row.edits \in Cardinality(least) .. N
  BY <1>2, <1>4, <1>5, <1>6
<1> QED BY <1>5, <1>7 DEF Covers, N

(* No minute and no day misses a message that was ingested, none counts    *)
(* one again but for a delivery cut short, or an editor who is not there;  *)
(* a day has no more than its minutes.                                     *)
THEOREM StoreRollupsAgree == Spec => []RollupsAgree
<1>1. ASSUME IInv PROVE RollupsAgree
  <2>1. Shape /\ crashes \in Nat
    BY <1>1, Lengths DEF IInv, Shape
  <2>2. /\ IsFiniteSet(Taken)
        /\ \A table : Done(table) \in SUBSET Taken /\ Ingested \subseteq Done(table)
        /\ Ingested \in SUBSET Taken
    BY <2>1, DoneFacts
  <2>3. ASSUME NEW m \in Minutes, ~MinuteExpired(m)
        PROVE  Covers(minutes[m], InMinute(Ingested, m), InMinute(Taken, m))
    <3> DEFINE all == MinuteSet(log, Taken, m)
               os == MinuteSet(log, Done("edits_1m"), m)
               least == MinuteSet(log, Ingested, m)
    <3>1. Most(minutes[m], crashes, all, os) /\ Least(minutes[m], os)
      BY <1>1, <2>3 DEF IInv, MinutesKept
    <3>2. IsFiniteSet(all) /\ os \in SUBSET all
      BY <2>1, <2>2, RowSets
    <3>3. least \in SUBSET os
      BY <2>2 DEF MinuteSet
    <3>4. minutes[m] \in Row
      BY <2>1 DEF Shape
    <3>5. InMinute(Ingested, m) = least /\ InMinute(Taken, m) = all
      BY InSets
    <3> HIDE DEF all, os, least
    <3> QED BY <2>1, <3>1, <3>2, <3>3, <3>4, <3>5, CoversRow
  <2>4. ASSUME NEW d \in Days
        PROVE  Covers(days[d], InDay(Ingested, d), InDay(Taken, d))
    <3> DEFINE all == DaySet(log, Taken, d)
               os == DaySet(log, Done("edits_1d"), d)
               least == DaySet(log, Ingested, d)
    <3>1. Most(days[d], crashes, all, os) /\ Least(days[d], os)
      BY <1>1 DEF IInv, DaysKept
    <3>2. IsFiniteSet(all) /\ os \in SUBSET all
      BY <2>1, <2>2, RowSets
    <3>3. least \in SUBSET os
      BY <2>2 DEF DaySet
    <3>4. days[d] \in Row
      BY <2>1 DEF Shape
    <3>5. InDay(Ingested, d) = least /\ InDay(Taken, d) = all
      BY InSets
    <3> HIDE DEF all, os, least
    <3> QED BY <2>1, <3>1, <3>2, <3>3, <3>4, <3>5, CoversRow
  <2>5. ASSUME NEW d \in Days, \A m \in MinutesOf(d) : ~MinuteExpired(m)
        PROVE  days[d].edits <= SumOf(minutes, MinutesOf(d))
    <3>1. days[d].edits + Cardinality(DaySet(log, Pending, d)) <= SumOf(minutes, MinutesOf(d))
      BY <1>1, <2>5 DEF IInv, Chained
    <3>2. Cardinality(DaySet(log, Pending, d)) \in Nat
      <4>1. Pending \in SUBSET Taken
        BY <2>1, DoneFacts
      <4>2. IsFiniteSet(DaySet(log, Pending, d))
        BY <2>1, <4>1, RowSets, FS_Subset
      <4> QED BY <4>2, FS_CardinalityType
    <3>3. days[d].edits \in Nat /\ SumOf(minutes, MinutesOf(d)) \in Nat
      BY <2>1, SumOfDay DEF Shape, Row
    <3> QED BY <3>1, <3>2, <3>3
  <2> QED BY <2>3, <2>4, <2>5 DEF RollupsAgree, MinutesOf
<1> QED BY <1>1, AlwaysIInv, PTL

-----------------------------------------------------------------------------
(* The answers                                                             *)

(* Rows that hold what is due make a sum that covers it.                   *)
LEMMA SumCovers ==
    ASSUME NEW rows, NEW ts, IsFiniteSet(ts), NEW due, IsFiniteSet(due), NEW part,
           \A t \in ts : /\ rows[t] \in Row /\ part[t] \in SUBSET due
                         /\ Least(rows[t], part[t]),
           \A o \in due : \E t \in ts : o \in part[t],
           \A t, s \in ts : t # s => part[t] \cap part[s] = {}
    PROVE  Cardinality(due) <= SumOf(rows, ts) /\ EditorsOf(due) \subseteq UnionOf(rows, ts)
<1> DEFINE f == [t \in ts |-> rows[t].edits]
           size == [t \in ts |-> Cardinality(part[t])]
<1>1. \A t \in ts : f[t] = rows[t].edits /\ f[t] \in Nat
  BY DEF Row
<1>2. \A t \in ts : IsFiniteSet(part[t]) /\ size[t] = Cardinality(part[t])
  BY FS_Subset
<1>3. \A t \in ts : size[t] \in Nat /\ size[t] <= f[t]
  BY <1>1, <1>2, FS_CardinalityType DEF Least
<1> HIDE DEF f, size
<1>4. UNION {part[t] : t \in ts} = due
  OBVIOUS
<1>5. Cardinality(due) = SumOver(size, ts)
  BY <1>2, <1>4, SumOfSizes
<1>6. SumOver(size, ts) <= SumOver(f, ts)
  BY <1>1, <1>3, SumMono
<1>7. SumOf(rows, ts) = SumOver(f, ts)
  BY <1>1, SumOfRows
<1>8. EditorsOf(due) \subseteq UnionOf(rows, ts)
  <2>1. ASSUME NEW u \in EditorsOf(due) PROVE u \in UnionOf(rows, ts)
    <3>1. PICK o \in due : u = UserOf[o] /\ u \in Users
      BY DEF EditorsOf
    <3>2. PICK t \in ts : o \in part[t]
      BY <3>1
    <3>3. u \in EditorsOf(part[t])
      BY <3>1, <3>2 DEF EditorsOf
    <3>4. u \in rows[t].editors
      BY <3>2, <3>3 DEF Least
    <3> QED BY <3>2, <3>4 DEF UnionOf
  <2> QED BY <2>1
<1> QED BY <1>5, <1>6, <1>7, <1>8

Recent(range) == {o \in Ingested : log[o] > clock - range}
Whole(range) == {o \in Ingested : MinuteOf(log[o]) > clock - range}
Maybe(range) == {o \in Taken : log[o] >= clock - range}

LEMMA AskedFacts ==
    ASSUME IInv, NEW range \in Ranges
    PROVE  /\ range \in Nat \ {0} /\ clock \in Nat /\ clock - range \in Int
           /\ Recent(range) \in SUBSET Ingested /\ IsFiniteSet(Recent(range))
           /\ Whole(range) \in SUBSET Ingested /\ IsFiniteSet(Whole(range))
           /\ \A table : Ingested \subseteq Done(table)
           /\ \A o \in Ingested : /\ log[o] \in 0 .. MaxClock /\ log[o] \in Nat
                                  /\ MinuteOf(log[o]) \in Minutes
                                  /\ DayOf(log[o]) \in Days
<1>1. Shape
  BY DEF IInv
<1>2. range \in Nat \ {0} /\ clock \in Nat
  BY <1>1, LengthsAssumption, Lengths DEF Shape
<1>3. IsFiniteSet(Ingested) /\ \A table : Ingested \subseteq Done(table)
  BY <1>1, DoneFacts, FS_Subset
<1>4. \A o \in Ingested : log[o] \in 0 .. MaxClock
  BY <1>1, DoneFacts
<1>5. Recent(range) \in SUBSET Ingested /\ Whole(range) \in SUBSET Ingested
  BY DEF Recent, Whole
<1>6. 0 .. MaxClock \subseteq Nat
  OBVIOUS
<1>7. \A o \in Ingested : MinuteOf(log[o]) \in Minutes /\ DayOf(log[o]) \in Days
  BY <1>4, StartsFacts
<1>8. IsFiniteSet(Recent(range)) /\ IsFiniteSet(Whole(range))
  BY <1>3, <1>5, FS_Subset
<1> QED BY <1>2, <1>3, <1>4, <1>5, <1>6, <1>7, <1>8

LEMMA MinutesAnswer ==
    ASSUME IInv, NEW range \in Ranges, range <= MinuteRetention
    PROVE  /\ Cardinality(Whole(range)) <= TimelineEdits("edits_1m", range)
           /\ EditorsOf(Whole(range)) \subseteq TimelineEditors("edits_1m", range)
<1> DEFINE ts == {m \in Minutes : m >= clock - range}
           due == Whole(range)
           part == [m \in ts |-> {o \in due : MinuteOf(log[o]) = m}]
<1>1. /\ TimelineEdits("edits_1m", range) = SumOf(minutes, ts)
      /\ TimelineEditors("edits_1m", range) = UnionOf(minutes, ts)
  BY DEF TimelineEdits, TimelineEditors, MinutesBack
<1>2. ts \in SUBSET Minutes /\ IsFiniteSet(ts) /\ Minutes \subseteq Nat
  BY StartsFacts, FS_Subset
<1>3. ASSUME NEW o \in due PROVE MinuteOf(log[o]) \in ts /\ MinuteOf(log[o]) > clock - range
  <2>1. o \in Ingested /\ MinuteOf(log[o]) > clock - range
    BY DEF Whole
  <2>2. MinuteOf(log[o]) \in Minutes /\ MinuteOf(log[o]) \in Nat /\ clock - range \in Int
    BY <1>2, <2>1, AskedFacts
  <2>3. MinuteOf(log[o]) >= clock - range
    BY <2>1, <2>2
  <2> QED BY <2>1, <2>2, <2>3
<1>4. ASSUME NEW m \in ts
      PROVE  minutes[m] \in Row /\ part[m] \in SUBSET due /\ Least(minutes[m], part[m])
  <2>1. m \in Minutes /\ m \in Nat /\ minutes[m] \in Row
    BY <1>2 DEF IInv, Shape
  <2>2. part[m] \in SUBSET due /\ part[m] = {o \in due : MinuteOf(log[o]) = m}
    OBVIOUS
  <2>3. CASE part[m] = {}
    <3>1. Cardinality({}) = 0 /\ EditorsOf({}) = {}
      BY FS_EmptySet DEF EditorsOf
    <3>2. minutes[m].edits \in Nat
      BY <2>1 DEF Row
    <3>3. 0 <= minutes[m].edits
      BY <3>2
    <3> QED BY <2>1, <2>2, <2>3, <3>1, <3>3 DEF Least
  <2>4. CASE part[m] # {}
    <3>1. m > clock - range
      BY <1>3, <2>2, <2>4
    <3>2. ~MinuteExpired(m)
      <4>1. range \in Nat /\ clock \in Nat
        BY AskedFacts
      <4>2. MinuteRetention <= MinuteTTL /\ MinuteRetention \in Nat /\ MinuteTTL \in Nat
        BY RetentionAssumption, LengthsAssumption, Lengths
      <4> QED BY <2>1, <3>1, <4>1, <4>2 DEF MinuteExpired
    <3> DEFINE os == MinuteSet(log, Done("edits_1m"), m)
    <3>3. Least(minutes[m], os)
      BY <2>1, <3>2 DEF IInv, MinutesKept
    <3>4. part[m] \subseteq os
      <4>1. due \subseteq Done("edits_1m")
        BY AskedFacts
      <4> QED BY <2>2, <4>1 DEF MinuteSet
    <3>5. IsFiniteSet(os)
      <4>1. IsFiniteSet(Done("edits_1m"))
        BY DoneFacts, FS_Subset DEF IInv
      <4> QED BY <4>1, SetsFacts
    <3> HIDE DEF os
    <3>6. Cardinality(part[m]) <= Cardinality(os) /\ Cardinality(part[m]) \in Nat
          /\ Cardinality(os) \in Nat /\ EditorsOf(part[m]) \subseteq EditorsOf(os)
      BY <3>4, <3>5, Sizes, EditorsMore
    <3>7. minutes[m].edits \in Nat
      BY <2>1 DEF Row
    <3>8. Cardinality(os) <= minutes[m].edits /\ EditorsOf(os) \subseteq minutes[m].editors
      BY <3>3 DEF Least
    <3>9. Least(minutes[m], part[m])
      <4>1. Cardinality(part[m]) <= minutes[m].edits
        BY <3>6, <3>7, <3>8
      <4> QED BY <3>6, <3>8, <4>1 DEF Least
    <3> QED BY <2>1, <2>2, <3>9
  <2> QED BY <2>3, <2>4
<1>5. \A o \in due : \E m \in ts : o \in part[m]
  BY <1>3
<1>6. \A m, n \in ts : m # n => part[m] \cap part[n] = {}
  OBVIOUS
<1>7. IsFiniteSet(due)
  BY AskedFacts
<1> HIDE DEF ts, due, part
<1>8. Cardinality(due) <= SumOf(minutes, ts) /\ EditorsOf(due) \subseteq UnionOf(minutes, ts)
  BY <1>2, <1>4, <1>5, <1>6, <1>7, SumCovers
<1> QED BY <1>1, <1>8 DEF due

LEMMA DaysAnswer ==
    ASSUME IInv, NEW range \in Ranges
    PROVE  /\ Cardinality(Recent(range)) <= TimelineEdits("edits_1d", range)
           /\ EditorsOf(Recent(range)) \subseteq TimelineEditors("edits_1d", range)
<1> DEFINE ts == {d \in Days : d >= DayOf(clock - range)}
           due == Recent(range)
           part == [d \in ts |-> {o \in due : DayOf(log[o]) = d}]
<1>1. /\ TimelineEdits("edits_1d", range) = SumOf(days, ts)
      /\ TimelineEditors("edits_1d", range) = UnionOf(days, ts)
  BY DEF TimelineEdits, TimelineEditors, DaysBack
<1>2. ts \in SUBSET Days /\ IsFiniteSet(ts)
  BY StartsFacts, FS_Subset
<1>3. ASSUME NEW o \in due PROVE DayOf(log[o]) \in ts
  <2>1. o \in Ingested /\ log[o] > clock - range
    BY DEF Recent
  <2>2. DayOf(log[o]) \in Days /\ log[o] \in Int /\ clock - range \in Int
    BY <2>1, AskedFacts
  <2>3. clock - range <= log[o]
    BY <2>1, <2>2
  <2>4. DayOf(clock - range) <= DayOf(log[o])
        /\ DayOf(clock - range) \in Int /\ DayOf(log[o]) \in Int
    BY <2>2, <2>3, DayFacts
  <2>5. DayOf(log[o]) >= DayOf(clock - range)
    BY <2>4
  <2> QED BY <2>2, <2>5
<1>4. ASSUME NEW d \in ts
      PROVE  days[d] \in Row /\ part[d] \in SUBSET due /\ Least(days[d], part[d])
  <2>1. d \in Days /\ days[d] \in Row
    BY <1>2 DEF IInv, Shape
  <2>2. part[d] \in SUBSET due /\ part[d] = {o \in due : DayOf(log[o]) = d}
    OBVIOUS
  <2> DEFINE os == DaySet(log, Done("edits_1d"), d)
             row == days[d]
  <2>3. Least(row, os)
    BY <2>1 DEF IInv, DaysKept
  <2>4. part[d] \in SUBSET os
    <3>1. due \subseteq Done("edits_1d")
      BY AskedFacts
    <3> QED BY <2>2, <3>1 DEF DaySet
  <2>5. IsFiniteSet(os)
    <3>1. IsFiniteSet(Done("edits_1d"))
      BY DoneFacts, FS_Subset DEF IInv
    <3> QED BY <3>1, SetsFacts
  <2>6. crashes \in Nat /\ os \in SUBSET os
    BY Lengths DEF IInv, Shape
  <2>7. row \in Row
    BY <2>1
  <2> HIDE DEF os, row
  <2>8. Least(row, part[d])
    BY <2>3, <2>4, <2>5, <2>6, <2>7, RowStays
  <2> QED BY <2>1, <2>2, <2>8 DEF row
<1>5. \A o \in due : \E d \in ts : o \in part[d]
  BY <1>3
<1>6. \A d, e \in ts : d # e => part[d] \cap part[e] = {}
  OBVIOUS
<1>7. IsFiniteSet(due)
  BY AskedFacts
<1> HIDE DEF ts, due, part
<1>8. Cardinality(due) <= SumOf(days, ts) /\ EditorsOf(due) \subseteq UnionOf(days, ts)
  BY <1>2, <1>4, <1>5, <1>6, <1>7, SumCovers
<1> QED BY <1>1, <1>8 DEF due

LEMMA EditorsAnswer ==
    ASSUME IInv, NEW range \in Ranges, range <= RawRetention, NEW u
    PROVE  EditorEdits(u, range) \in Cardinality({o \in Recent(range) : UserOf[o] = u})
                                       .. Cardinality({o \in Maybe(range) : UserOf[o] = u})
<1> DEFINE found == {o \in 1 .. Len(log) : raw[o] > 0 /\ UserOf[o] = u /\ log[o] >= clock - range}
           low == {o \in Recent(range) : UserOf[o] = u}
           high == {o \in Maybe(range) : UserOf[o] = u}
<1>1. Shape /\ IsFiniteSet(Taken) /\ Taken \subseteq 1 .. Len(log) /\ Taken \subseteq Offsets
      /\ 1 .. Len(log) \subseteq Offsets
  <2>1. Shape
    BY DEF IInv
  <2>2. Len(log) \in Nat /\ Len(log) <= Len(UserOf) /\ Len(UserOf) \in Nat
        /\ Offsets = 1 .. Len(UserOf)
    BY <2>1, MessagesAssumption DEF Shape
  <2>3. 1 .. Len(log) \subseteq Offsets
    BY <2>2
  <2> QED BY <2>1, <2>3, DoneFacts
<1>2. high \in SUBSET Taken /\ IsFiniteSet(high)
  <2>1. high \in SUBSET Taken
    BY DEF Maybe
  <2> QED BY <1>1, <2>1, FS_Subset
<1>3. found \subseteq high
  <2>1. ASSUME NEW o \in 1 .. Len(log), raw[o] > 0 PROVE o \in Taken
    BY <1>1, <2>1 DEF IInv, RawsKept
  <2> QED BY <2>1 DEF Maybe
<1>4. low \subseteq found
  <2> SUFFICES ASSUME NEW o \in Recent(range), UserOf[o] = u PROVE o \in found
    OBVIOUS
  <2>1. o \in Ingested /\ log[o] > clock - range
    BY DEF Recent
  <2>2. log[o] \in Nat /\ o \in Done("edits") /\ range \in Nat /\ clock \in Nat
    BY <2>1, AskedFacts
  <2>3. RawRetention <= RawTTL /\ RawRetention \in Nat /\ RawTTL \in Nat
    BY RetentionAssumption, LengthsAssumption, Lengths
  <2>4. ~(log[o] + RawTTL <= clock)
    BY <2>1, <2>2, <2>3
  <2>5. o \in Taken
    BY <1>1, <2>2, DoneFacts
  <2>6. raw[o] > 0
    BY <1>1, <2>2, <2>4, <2>5 DEF IInv, RawsKept, RawExpired
  <2>7. log[o] >= clock - range
    BY <2>1, <2>2
  <2> QED BY <1>1, <2>5, <2>6, <2>7
<1>5. EditorEdits(u, range) = Cardinality(found)
  BY DEF EditorEdits
<1> HIDE DEF found, low, high
<1>6. IsFiniteSet(found) /\ Cardinality(found) <= Cardinality(high)
      /\ Cardinality(found) \in Nat /\ Cardinality(high) \in Nat
  BY <1>2, <1>3, Sizes
<1>7. Cardinality(low) <= Cardinality(found) /\ Cardinality(low) \in Nat
  BY <1>4, <1>6, Sizes
<1>8. EditorEdits(u, range) \in Cardinality(low) .. Cardinality(high)
  BY <1>5, <1>6, <1>7
<1> QED BY <1>8 DEF low, high

LEMMA HealthAnswer ==
    ASSUME IInv
    PROVE  /\ (\E o \in Ingested : log[o] >= clock - StaleAfter) => Health = "ok"
           /\ Health = "ok" => \E o \in Taken : log[o] >= clock - StaleAfter
<1> DEFINE rows == {i \in 1 .. Len(log) : raw[i] > 0 /\ DayOf(log[i]) >= DayOf(clock) - Day}
           seen == {log[o] : o \in rows}
<1>1. Health = IF seen = {} THEN "empty"
               ELSE IF clock - Max(seen) <= StaleAfter THEN "ok" ELSE "stale"
  BY DEF Health
<1>2. Shape /\ Taken \subseteq 1 .. Len(log) /\ 1 .. Len(log) \subseteq Offsets
      /\ IsFiniteSet(Taken)
  <2>1. Shape
    BY DEF IInv
  <2>2. Len(log) \in Nat /\ Len(log) <= Len(UserOf) /\ Len(UserOf) \in Nat
        /\ Offsets = 1 .. Len(UserOf)
    BY <2>1, MessagesAssumption DEF Shape
  <2>3. 1 .. Len(log) \subseteq Offsets
    BY <2>2
  <2> QED BY <2>1, <2>3, DoneFacts
<1>3. rows \in SUBSET Taken
  <2>1. ASSUME NEW o \in 1 .. Len(log), raw[o] > 0 PROVE o \in Taken
    BY <1>2, <2>1 DEF IInv, RawsKept
  <2> QED BY <2>1
<1>4. \A o \in Taken : log[o] \in Nat /\ log[o] \in 0 .. clock
  <2>1. \A o \in Taken : log[o] \in 0 .. clock
    BY <1>2, DoneFacts
  <2> QED BY <2>1
<1>5. clock \in Nat /\ StaleAfter \in Nat /\ StaleAfter <= Day /\ StaleAfter < RawTTL
      /\ Day \in Nat /\ RawTTL \in Nat
  BY <1>2, Lengths, StaleAssumption DEF Shape
<1>6. \A t \in seen : \E o \in rows : t = log[o]
  OBVIOUS
<1>7. seen \subseteq Int /\ IsFiniteSet(seen)
  <2>1. \A o \in rows : log[o] \in 0 .. clock
    BY <1>3, <1>4
  <2>2. seen \in SUBSET (0 .. clock)
    BY <2>1
  <2>3. IsFiniteSet(0 .. clock) /\ \A t \in 0 .. clock : t \in Int
    BY <1>5, FS_Interval
  <2> HIDE DEF seen, rows
  <2> QED BY <2>2, <2>3, FS_Subset
<1>8. seen # {} => Max(seen) \in seen /\ \A t \in seen : t <= Max(seen)
  <2> SUFFICES ASSUME seen # {} PROVE Max(seen) \in seen /\ \A t \in seen : t <= Max(seen)
    OBVIOUS
  <2> HIDE DEF seen, rows
  <2>1. PICK x \in seen : \A t \in seen : t <= x
    BY <1>7, LargestExists
  <2>2. \A t \in seen : x >= t
    BY <1>7, <2>1
  <2>3. Max(seen) \in seen /\ \A t \in seen : Max(seen) >= t
    BY <2>2 DEF Max
  <2> QED BY <1>7, <2>3
<1>9. ASSUME NEW o \in Ingested, log[o] >= clock - StaleAfter PROVE Health = "ok"
  <2>1. o \in Taken /\ o \in Done("edits") /\ log[o] \in Nat /\ log[o] \in Int
    <3>1. o \in Done("edits")
      BY <1>2, DoneFacts
    <3>2. o \in Taken
      BY <1>2, <3>1, DoneFacts
    <3> QED BY <1>4, <3>1, <3>2
  <2>2. ~(log[o] + RawTTL <= clock)
    BY <1>5, <1>9, <2>1
  <2>3. raw[o] > 0
    BY <1>2, <2>1, <2>2 DEF IInv, RawsKept, RawExpired
  <2>4. clock - Day <= log[o] /\ clock - Day \in Int /\ clock \in Int
    BY <1>5, <1>9, <2>1
  <2>5. DayOf(clock - Day) <= DayOf(log[o]) /\ DayOf(log[o]) \in Int
    BY <2>1, <2>4, DayFacts
  <2>6. DayOf(clock - Day) = DayOf(clock) - Day /\ DayOf(clock) \in Int
    BY <2>4, DayFacts
  <2>7. DayOf(log[o]) >= DayOf(clock) - Day
    BY <1>5, <2>5, <2>6
  <2>8. log[o] \in seen
    BY <1>2, <2>1, <2>3, <2>7
  <2>9. seen # {} /\ log[o] <= Max(seen) /\ Max(seen) \in Int
    BY <1>7, <1>8, <2>8
  <2> HIDE DEF seen, rows
  <2>10. clock - Max(seen) <= StaleAfter
    BY <1>5, <1>9, <2>1, <2>9
  <2> QED BY <1>1, <2>9, <2>10
<1>10. ASSUME Health = "ok" PROVE \E o \in Taken : log[o] >= clock - StaleAfter
  <2>1. seen # {} /\ clock - Max(seen) <= StaleAfter
    BY <1>1, <1>10
  <2>2. Max(seen) \in seen
    BY <1>8, <2>1
  <2>3. PICK o \in rows : Max(seen) = log[o]
    BY <1>6, <2>2
  <2>4. o \in Taken /\ log[o] \in Nat
    BY <1>3, <1>4, <2>3
  <2> HIDE DEF seen, rows
  <2>5. log[o] >= clock - StaleAfter
    BY <1>5, <2>1, <2>3, <2>4
  <2> QED BY <2>4, <2>5
<1> QED BY <1>9, <1>10

(* A request is answered with all that was ingested and is younger than    *)
(* its range, or refused, and /healthz tells a fresh table from a stale    *)
(* one, whatever expires, merges, or is half way through the views.        *)
THEOREM StoreAnswersComplete == Spec => []AnswersAreComplete
<1>1. ASSUME IInv PROVE AnswersAreComplete
  <2>1. ASSUME NEW range \in Ranges, TopEditorsTable(range, MaxLimit) # Refused, NEW u \in Users
        PROVE  EditorEdits(u, range)
                 \in Cardinality({o \in Recent(range) : UserOf[o] = u})
                       .. Cardinality({o \in Maybe(range) : UserOf[o] = u})
    <3>1. range <= RawRetention
      BY <2>1 DEF TopEditorsTable
    <3> QED BY <1>1, <3>1, EditorsAnswer
  <2>2. ASSUME NEW range \in Ranges, TopWikisTable(range, MaxLimit) # Refused
        PROVE  Cardinality(Whole(range)) <= TimelineEdits("edits_1m", range)
    <3>1. range <= MinuteRetention
      BY <2>2 DEF TopWikisTable
    <3> QED BY <1>1, <3>1, MinutesAnswer
  <2>3. ASSUME NEW range \in Ranges, NEW bucket \in Buckets,
               NEW table, table = TimelineTable(range, bucket), table # Refused,
               NEW due, due = IF table = "edits_1d" THEN Recent(range) ELSE Whole(range)
        PROVE  /\ Cardinality(due) <= TimelineEdits(table, range)
               /\ EditorsOf(due) \subseteq TimelineEditors(table, range)
    <3>1. \/ table = "edits_1d"
          \/ table = "edits_1m" /\ ~(range > MinuteRetention)
      BY <2>3 DEF TimelineTable
    <3>2. CASE table = "edits_1d"
      BY <1>1, <2>3, <3>2, DaysAnswer
    <3>3. CASE table = "edits_1m" /\ ~(range > MinuteRetention)
      <4>1. range <= MinuteRetention
        BY <3>3, LengthsAssumption
      <4>2. due = Whole(range)
        BY <2>3, <3>3
      <4> QED BY <1>1, <3>3, <4>1, <4>2, MinutesAnswer
    <3> QED BY <3>1, <3>2, <3>3
  <2>4. /\ (\E o \in Ingested : log[o] >= clock - StaleAfter) => Health = "ok"
        /\ Health = "ok" => \E o \in Taken : log[o] >= clock - StaleAfter
    BY <1>1, HealthAnswer
  <2> QED BY <2>1, <2>2, <2>3, <2>4 DEF AnswersAreComplete, Recent, Whole, Maybe
<1> QED BY <1>1, AlwaysIInv, PTL
=============================================================================
