--------------------------- MODULE LiveViewProofs ---------------------------
(***************************************************************************)
(* Proofs about the hot path, from the sink's writes through the API's     *)
(* reads to the live chart, for any number of partitions, any contents of  *)
(* their windows, any history length, any chart length and any number of   *)
(* drops of the connection; and about merge.py, for any slices.            *)
(***************************************************************************)
EXTENDS LiveView, SetProofs

-----------------------------------------------------------------------------
(* The sums of merge.py                                                    *)

LEMMA HistoryPointSums ==
    ASSUME NEW counts, IsFiniteSet(DOMAIN counts),
           \A p \in DOMAIN counts : counts[p].total \in Nat /\ counts[p].bots \in Nat,
           NEW f, \A p \in DOMAIN counts : f[p] = counts[p].total,
           NEW h, \A p \in DOMAIN counts : h[p] = counts[p].bots
    PROVE  HistoryPoint(counts) = [total |-> SumOver(f, DOMAIN counts),
                                   bots  |-> SumOver(h, DOMAIN counts)]
<1> DEFINE D == DOMAIN counts
<1>1. MapThenSumSet(LAMBDA p : counts[p].total, D) = SumOver(f, D)
  <2> DEFINE Chosen(g) ==
        g = [T \in SUBSET D |->
               IF T = {} THEN 0
               ELSE counts[CHOOSE x \in T : TRUE].total + g[T \ {CHOOSE x \in T : TRUE}]]
  <2>1. MapThenSumSet(LAMBDA p : counts[p].total, D) = (CHOOSE g : Chosen(g))[D]
    BY DEF MapThenSumSet, MapThenFoldSet
  <2>2. \A T \in SUBSET D : T # {} =>
          f[CHOOSE x \in T : TRUE] = counts[CHOOSE x \in T : TRUE].total
    OBVIOUS
  <2>3. \A g : Chosen(g) <=> Adds(g, f, D)
    BY <2>2 DEF Adds
  <2>4. \E g : Chosen(g)
    <3>1. \E k : Adds(k, f, D)
      BY AddsExists
    <3> HIDE DEF Chosen
    <3> QED BY <2>3, <3>1, Zenon
  <2> HIDE DEF Chosen
  <2>5. Chosen(CHOOSE g : Chosen(g))
    BY <2>4, Zenon
  <2>6. Adds(CHOOSE g : Chosen(g), f, D)
    BY <2>3, <2>5, Zenon
  <2>7. (CHOOSE g : Chosen(g))[D] = SumOver(f, D)
    BY <2>6, SumIs
  <2> QED BY <2>1, <2>7, Zenon
<1>2. MapThenSumSet(LAMBDA p : counts[p].bots, D) = SumOver(h, D)
  <2> DEFINE Chosen(g) ==
        g = [T \in SUBSET D |->
               IF T = {} THEN 0
               ELSE counts[CHOOSE x \in T : TRUE].bots + g[T \ {CHOOSE x \in T : TRUE}]]
  <2>1. MapThenSumSet(LAMBDA p : counts[p].bots, D) = (CHOOSE g : Chosen(g))[D]
    BY DEF MapThenSumSet, MapThenFoldSet
  <2>2. \A T \in SUBSET D : T # {} =>
          h[CHOOSE x \in T : TRUE] = counts[CHOOSE x \in T : TRUE].bots
    OBVIOUS
  <2>3. \A g : Chosen(g) <=> Adds(g, h, D)
    BY <2>2 DEF Adds
  <2>4. \E g : Chosen(g)
    <3>1. \E k : Adds(k, h, D)
      BY AddsExists
    <3> HIDE DEF Chosen
    <3> QED BY <2>3, <3>1, Zenon
  <2> HIDE DEF Chosen
  <2>5. Chosen(CHOOSE g : Chosen(g))
    BY <2>4, Zenon
  <2>6. Adds(CHOOSE g : Chosen(g), h, D)
    BY <2>3, <2>5, Zenon
  <2>7. (CHOOSE g : Chosen(g))[D] = SumOver(h, D)
    BY <2>6, SumIs
  <2> QED BY <2>1, <2>7, Zenon
<1> QED BY <1>1, <1>2, Zenon DEF HistoryPoint

(* The counts of a key are added over the slices that have it.             *)
LEMMA AddedUpSums ==
    ASSUME NEW tallies, IsFiniteSet(DOMAIN tallies),
           NEW x \in UNION {DOMAIN tallies[p] : p \in DOMAIN tallies},
           NEW f, \A p \in DOMAIN tallies :
                      x \in DOMAIN tallies[p] => f[p] = tallies[p][x] /\ f[p] \in Nat
    PROVE  AddedUp(tallies)[x]
             = SumOver(f, {p \in DOMAIN tallies : x \in DOMAIN tallies[p]})
<1> DEFINE D == {p \in DOMAIN tallies : x \in DOMAIN tallies[p]}
           Chosen(g) ==
             g = [T \in SUBSET D |->
                    IF T = {} THEN 0
                    ELSE tallies[CHOOSE y \in T : TRUE][x] + g[T \ {CHOOSE y \in T : TRUE}]]
<1>1. IsFiniteSet(D) /\ \A p \in D : f[p] \in Nat
  <2>1. D \in SUBSET DOMAIN tallies
    OBVIOUS
  <2> QED BY <2>1, FS_Subset
<1>2. AddedUp(tallies)[x] = MapThenSumSet(LAMBDA p : tallies[p][x], D)
  BY DEF AddedUp
<1>3. MapThenSumSet(LAMBDA p : tallies[p][x], D) = (CHOOSE g : Chosen(g))[D]
  BY DEF MapThenSumSet, MapThenFoldSet
<1>4. \A T \in SUBSET D : T # {} =>
        f[CHOOSE y \in T : TRUE] = tallies[CHOOSE y \in T : TRUE][x]
  OBVIOUS
<1>5. \A g : Chosen(g) <=> Adds(g, f, D)
  <2> HIDE DEF D
  <2> QED BY <1>4 DEF Adds
<1> HIDE DEF Chosen, D
<1>6. \E g : Chosen(g)
  <2>1. \E g : Adds(g, f, D)
    BY <1>1, AddsExists
  <2> QED BY <1>5, <2>1, Zenon
<1>7. Adds(CHOOSE g : Chosen(g), f, D)
  <2>1. Chosen(CHOOSE g : Chosen(g))
    BY <1>6, Zenon
  <2> QED BY <1>5, <2>1, Zenon
<1>8. (CHOOSE g : Chosen(g))[D] = SumOver(f, D)
  BY <1>1, <1>7, SumIs
<1> QED BY <1>2, <1>3, <1>8, Zenon DEF D

(* What is hidden by the cuts of the slices that do not list a user.       *)
LEMMA CutSums ==
    ASSUME NEW slices, NEW D, IsFiniteSet(D),
           NEW f, \A p \in D : f[p] = Cut(slices[p]) /\ f[p] \in Nat
    PROVE  MapThenSumSet(LAMBDA p : Cut(slices[p]), D) = SumOver(f, D)
<1> DEFINE Chosen(g) ==
             g = [T \in SUBSET D |->
                    IF T = {} THEN 0
                    ELSE Cut(slices[CHOOSE y \in T : TRUE]) + g[T \ {CHOOSE y \in T : TRUE}]]
<1>1. MapThenSumSet(LAMBDA p : Cut(slices[p]), D) = (CHOOSE g : Chosen(g))[D]
  BY DEF MapThenSumSet, MapThenFoldSet
<1>2. \A T \in SUBSET D : T # {} =>
        f[CHOOSE y \in T : TRUE] = Cut(slices[CHOOSE y \in T : TRUE])
  OBVIOUS
<1>3. \A g : Chosen(g) <=> Adds(g, f, D)
  BY <1>2 DEF Adds
<1> HIDE DEF Chosen
<1>4. \E g : Chosen(g)
  <2>1. \E g : Adds(g, f, D)
    BY AddsExists
  <2> QED BY <1>3, <2>1, Zenon
<1>5. Adds(CHOOSE g : Chosen(g), f, D)
  <2>1. Chosen(CHOOSE g : Chosen(g))
    BY <1>4, Zenon
  <2> QED BY <1>3, <2>1, Zenon
<1>6. (CHOOSE g : Chosen(g))[D] = SumOver(f, D)
  BY <1>5, SumIs
<1> QED BY <1>1, <1>6, Zenon

-----------------------------------------------------------------------------
(* What merges exactly, and what does not                                  *)

LEMMA MinFacts ==
    ASSUME NEW S, S \subseteq Nat, S # {}
    PROVE  Min(S) \in S /\ \A x \in S : Min(S) <= x
<1>1. PICK m \in S : \A x \in S : ~ <<x, m>> \in OpToRel(<, Nat)
  BY NatLessThanWellFounded, WFMin
<1>2. ASSUME NEW x \in S PROVE m <= x
  <2>1. m \in Nat /\ x \in Nat /\ ~ <<x, m>> \in OpToRel(<, Nat)
    BY <1>1
  <2>2. ~(x < m)
    BY <2>1 DEF OpToRel
  <2>3. m \in Nat /\ x \in Nat
    OBVIOUS
  <2> QED BY <2>2, <2>3
<1> QED BY <1>2 DEF Min

Share(h, of, x) == [p \in There(h) |-> Cardinality({e \in h[p] : of[e] = x})]

LEMMA HashFacts ==
    ASSUME NEW h \in Hashes
    PROVE  /\ IsFiniteSet(There(h)) /\ There(h) \subseteq Writers
           /\ \A p \in There(h) : h[p] \in Contents[p] /\ IsFiniteSet(h[p])
                                  /\ h[p] \subseteq DOMAIN UserOf
           /\ \A p, q \in There(h) : p # q => h[p] \cap h[q] = {}
<1>1. There(h) \in SUBSET Writers /\ \A p \in There(h) : h[p] \in Contents[p]
  BY DEF Hashes, There
<1>2. IsFiniteSet(There(h))
  BY <1>1, WritersAssumption, FS_Subset
<1>3. \A p \in There(h) : h[p] \in SUBSET DOMAIN UserOf
  BY <1>1, ContentsAssumption
<1>4. \A p \in There(h) : IsFiniteSet(h[p])
  BY <1>3, WritersAssumption, FS_Subset
<1>5. \A p, q \in There(h) : p # q => h[p] \cap h[q] = {}
  BY <1>1, ContentsAssumption
<1> QED BY <1>1, <1>2, <1>3, <1>4, <1>5

(* An event is in one slice.                                               *)
LEMMA SharesAddUp ==
    ASSUME NEW h \in Hashes, NEW of, NEW x
    PROVE  /\ \A p \in There(h) : Share(h, of, x)[p] \in Nat
           /\ Cardinality({e \in Events(h) : of[e] = x})
                = SumOver(Share(h, of, x), There(h))
<1> DEFINE A == [p \in There(h) |-> {e \in h[p] : of[e] = x}]
<1>1. /\ \A p \in There(h) : A[p] \in SUBSET h[p] /\ IsFiniteSet(h[p])
      /\ \A p, q \in There(h) : p # q => A[p] \cap A[q] = {}
      /\ IsFiniteSet(There(h))
  BY HashFacts
<1>2. \A p \in There(h) : IsFiniteSet(A[p])
  BY <1>1, FS_Subset
<1>3. \A p \in There(h) : Share(h, of, x)[p] = Cardinality(A[p])
  BY DEF Share
<1>4. UNION {A[p] : p \in There(h)} = {e \in Events(h) : of[e] = x}
  BY DEF Events
<1> HIDE DEF A
<1>5. Cardinality(UNION {A[p] : p \in There(h)}) = SumOver(Share(h, of, x), There(h))
  BY <1>1, <1>2, <1>3, SumOfSizes
<1>6. \A p \in There(h) : Cardinality(A[p]) \in Nat
  BY <1>2, FS_CardinalityType
<1> QED BY <1>3, <1>4, <1>5, <1>6

LEMMA SummaryFacts ==
    ASSUME NEW h \in Hashes, NEW slices \in Summarised(h)
    PROVE  /\ DOMAIN slices = There(h)
           /\ \A p \in There(h) :
                /\ slices[p].counts = Totals(h[p])
                /\ slices[p].wikis = Tally(h[p], WikiOf)
                /\ slices[p].editors \in MostCommon(Tally(h[p], UserOf))
<1>1. DOMAIN slices = There(h) /\ \A p \in There(h) : slices[p] \in Snapshots(h[p])
  BY DEF Summarised
<1> QED BY <1>1 DEF Snapshots

LEMMA MergedCounts ==
    ASSUME NEW h \in Hashes, NEW slices \in Summarised(h)
    PROVE  MergePartials(slices).counts = Totals(Events(h))
<1> DEFINE c == [p \in DOMAIN slices |-> slices[p].counts]
           A == [p \in There(h) |-> h[p]]
           B == [p \in There(h) |-> h[p] \cap Bots]
           a == [p \in There(h) |-> Cardinality(h[p])]
           b == [p \in There(h) |-> Cardinality(h[p] \cap Bots)]
<1>1. c = [p \in There(h) |-> Totals(h[p])]
  BY SummaryFacts
<1>2. MergePartials(slices).counts = HistoryPoint(c)
  BY DEF MergePartials
<1>3. /\ \A p \in There(h) : IsFiniteSet(A[p]) /\ IsFiniteSet(B[p])
      /\ IsFiniteSet(There(h))
  BY HashFacts, FS_Intersection
<1>4. /\ \A p, q \in There(h) : p # q => A[p] \cap A[q] = {}
      /\ \A p, q \in There(h) : p # q => B[p] \cap B[q] = {}
  BY HashFacts
<1>5. \A p \in There(h) : a[p] = Cardinality(A[p]) /\ b[p] = Cardinality(B[p])
                          /\ a[p] \in Nat /\ b[p] \in Nat
  BY <1>3, FS_CardinalityType
<1>6. /\ UNION {A[p] : p \in There(h)} = Events(h)
      /\ UNION {B[p] : p \in There(h)} = Events(h) \cap Bots
  BY DEF Events
<1>7. /\ DOMAIN c = There(h)
      /\ \A p \in There(h) : a[p] = c[p].total /\ b[p] = c[p].bots
  <2> HIDE DEF c
  <2>1. DOMAIN c = There(h) /\ \A p \in There(h) : c[p] = Totals(h[p])
    BY <1>1
  <2>2. \A p \in There(h) : Totals(h[p]).total = a[p] /\ Totals(h[p]).bots = b[p]
    BY DEF Totals
  <2> QED BY <2>1, <2>2
<1> HIDE DEF A, B, a, b, c
<1>8. Cardinality(Events(h)) = SumOver(a, There(h))
  <2>1. Cardinality(UNION {A[p] : p \in There(h)}) = SumOver(a, There(h))
    BY <1>3, <1>4, <1>5, SumOfSizes
  <2> QED BY <1>6, <2>1
<1>9. Cardinality(Events(h) \cap Bots) = SumOver(b, There(h))
  <2>1. Cardinality(UNION {B[p] : p \in There(h)}) = SumOver(b, There(h))
    BY <1>3, <1>4, <1>5, SumOfSizes
  <2> QED BY <1>6, <2>1
<1>10. HistoryPoint(c) = [total |-> SumOver(a, There(h)), bots |-> SumOver(b, There(h))]
  BY <1>3, <1>5, <1>7, HistoryPointSums
<1> QED BY <1>2, <1>8, <1>9, <1>10 DEF Totals

LEMMA MergedWikis ==
    ASSUME NEW h \in Hashes, NEW slices \in Summarised(h)
    PROVE  MergePartials(slices).wikis = Tally(Events(h), WikiOf)
<1> DEFINE t == [p \in DOMAIN slices |-> slices[p].wikis]
<1>1. t = [p \in There(h) |-> Tally(h[p], WikiOf)]
  BY SummaryFacts
<1>2. MergePartials(slices).wikis = AddedUp(t)
  BY DEF MergePartials
<1> HIDE DEF t
<1>0. DOMAIN t = There(h) /\ \A p \in There(h) : t[p] = Tally(h[p], WikiOf)
  BY <1>1
<1>3. DOMAIN t = There(h) /\ \A p \in There(h) : DOMAIN t[p] = {WikiOf[e] : e \in h[p]}
  BY <1>0 DEF Tally
<1>4. \A p \in There(h) : \A x \in DOMAIN t[p] :
        t[p][x] = Cardinality({e \in h[p] : WikiOf[e] = x})
  BY <1>0 DEF Tally
<1>5. UNION {DOMAIN t[p] : p \in DOMAIN t} = {WikiOf[e] : e \in Events(h)}
  BY <1>3 DEF Events
<1>6. IsFiniteSet(There(h))
  BY HashFacts
<1>7. ASSUME NEW x \in {WikiOf[e] : e \in Events(h)}
      PROVE  AddedUp(t)[x] = Cardinality({e \in Events(h) : WikiOf[e] = x})
  <2> DEFINE f == Share(h, WikiOf, x)
             D == {p \in DOMAIN t : x \in DOMAIN t[p]}
  <2>1. /\ \A p \in There(h) : f[p] \in Nat
        /\ Cardinality({e \in Events(h) : WikiOf[e] = x}) = SumOver(f, There(h))
    BY SharesAddUp
  <2>2. \A p \in There(h) : f[p] = Cardinality({e \in h[p] : WikiOf[e] = x})
    BY DEF Share
  <2> HIDE DEF f
  <2>3. AddedUp(t)[x] = SumOver(f, D)
    <3>1. x \in UNION {DOMAIN t[p] : p \in DOMAIN t} /\ IsFiniteSet(DOMAIN t)
      BY <1>3, <1>5, <1>6
    <3>2. \A p \in DOMAIN t : x \in DOMAIN t[p] => f[p] = t[p][x] /\ f[p] \in Nat
      BY <1>3, <1>4, <2>1, <2>2
    <3> QED BY <3>1, <3>2, AddedUpSums
  <2>4. \A p \in There(h) \ D : f[p] = 0
    <3> SUFFICES ASSUME NEW p \in There(h) \ D PROVE f[p] = 0
      OBVIOUS
    <3>1. {e \in h[p] : WikiOf[e] = x} = {}
      BY <1>3
    <3> QED BY <2>2, <3>1, FS_EmptySet
  <2>5. D \in SUBSET There(h)
    BY <1>3
  <2> HIDE DEF D
  <2>6. SumOver(f, There(h)) = SumOver(f, D)
    BY <1>6, <2>1, <2>4, <2>5, SumOfRest
  <2> QED BY <2>1, <2>3, <2>6
<1>8. AddedUp(t) = [x \in {WikiOf[e] : e \in Events(h)} |->
                      Cardinality({e \in Events(h) : WikiOf[e] = x})]
  <2>1. DOMAIN AddedUp(t) = {WikiOf[e] : e \in Events(h)}
    BY <1>5 DEF AddedUp
  <2>2. AddedUp(t) = [x \in DOMAIN AddedUp(t) |-> AddedUp(t)[x]]
    BY DEF AddedUp
  <2> QED BY <1>7, <2>1, <2>2
<1> QED BY <1>2, <1>8 DEF Tally

(* The users of a slice that are not in its summary are those that its cut *)
(* leaves out, each with no more events than the last one it lists.        *)
LEMMA CutFacts ==
    ASSUME NEW h \in Hashes, NEW slices \in Summarised(h), NEW p \in There(h)
    PROVE  /\ Cut(slices[p]) \in Nat
           /\ \A u \in DOMAIN slices[p].editors :
                slices[p].editors[u] = Cardinality({e \in h[p] : UserOf[e] = u})
           /\ \A u : u \notin DOMAIN slices[p].editors =>
                Cardinality({e \in h[p] : UserOf[e] = u}) <= Cut(slices[p])
<1> DEFINE t == Tally(h[p], UserOf)
           n(u) == Cardinality({e \in h[p] : UserOf[e] = u})
           size == Min({TopEditors, Cardinality(DOMAIN t)})
           editors == slices[p].editors
<1>1. /\ DOMAIN t = {UserOf[e] : e \in h[p]}
      /\ \A u \in DOMAIN t : t[u] = n(u)
  BY DEF Tally
<1>2. IsFiniteSet(h[p])
  BY HashFacts
<1>3. \A u : n(u) \in Nat
  <2> SUFFICES ASSUME NEW u PROVE n(u) \in Nat
    OBVIOUS
  <2>1. {e \in h[p] : UserOf[e] = u} \in SUBSET h[p]
    OBVIOUS
  <2> QED BY <1>2, <2>1, FS_Subset, FS_CardinalityType
<1>4. IsFiniteSet(DOMAIN t)
  <2> DEFINE F == [e \in h[p] |-> UserOf[e]]
  <2>1. F \in Surjection(h[p], DOMAIN t)
    BY <1>1 DEF Surjection
  <2> QED BY <1>2, <2>1, FS_Surjection
<1>5. PICK top \in kSubset(size, DOMAIN t) :
        /\ editors = Restrict(t, top)
        /\ \A u \in top, v \in DOMAIN t \ top : t[v] <= t[u]
  <2>1. editors \in MostCommon(t)
    BY SummaryFacts
  <2> HIDE DEF t, editors
  <2> QED BY <2>1 DEF MostCommon
<1>6. top \in SUBSET DOMAIN t /\ Cardinality(top) = size
  BY <1>5 DEF kSubset
<1>7. DOMAIN editors = top /\ \A u \in top : editors[u] = n(u)
  <2> HIDE DEF editors, t, n
  <2> QED BY <1>1, <1>5, <1>6 DEF Restrict
<1>8. /\ Cardinality(DOMAIN t) \in Nat /\ TopEditors \in Nat \ {0}
      /\ size \in {TopEditors, Cardinality(DOMAIN t)}
      /\ size <= TopEditors /\ size <= Cardinality(DOMAIN t)
  <2>1. Cardinality(DOMAIN t) \in Nat
    BY <1>4, FS_CardinalityType
  <2> HIDE DEF t
  <2> QED BY <2>1, MinFacts, TopEditorsAssumption
<1> HIDE DEF t, size, n, editors
<1>9. Range(editors) = {n(u) : u \in top}
  BY <1>7 DEF Range
<1>10. CASE size < TopEditors
  <2>1. top = DOMAIN t
    BY <1>4, <1>6, <1>8, <1>10, FS_Subset
  <2>2. Cut(slices[p]) = 0
    BY <1>6, <1>7, <1>10 DEF Cut, editors
  <2>3. ASSUME NEW u, u \notin top PROVE n(u) = 0
    <3>1. {e \in h[p] : UserOf[e] = u} = {}
      BY <1>1, <2>1, <2>3
    <3> QED BY <3>1, FS_EmptySet DEF n
  <2> QED BY <1>7, <2>2, <2>3 DEF n, editors
<1>11. CASE ~(size < TopEditors)
  <2>1. size = TopEditors
    BY <1>8, <1>11
  <2>2. top # {}
    BY <1>6, <1>8, <2>1, FS_EmptySet
  <2>3. Cut(slices[p]) = Min({n(u) : u \in top})
    BY <1>6, <1>7, <1>9, <1>11 DEF Cut, editors
  <2> DEFINE Ns == {n(u) : u \in top}
  <2>4. Ns \subseteq Nat /\ Ns # {}
    BY <1>3, <2>2
  <2>5. Min(Ns) \in Ns
    <3> HIDE DEF Ns
    <3> QED BY <2>4, MinFacts
  <2>6. PICK m \in top : Cut(slices[p]) = n(m)
    BY <2>3, <2>5
  <2>7. ASSUME NEW u, u \notin top PROVE n(u) <= n(m)
    <3>1. CASE u \in DOMAIN t
      <4>1. t[u] <= t[m] /\ m \in DOMAIN t
        BY <1>5, <1>6, <2>7, <3>1
      <4> QED BY <1>1, <3>1, <4>1
    <3>2. CASE u \notin DOMAIN t
      <4>1. {e \in h[p] : UserOf[e] = u} = {}
        BY <1>1, <3>2
      <4>2. n(u) = 0
        BY <4>1, FS_EmptySet DEF n
      <4> QED BY <1>3, <4>2
    <3> QED BY <3>1, <3>2
  <2> QED BY <1>3, <1>7, <2>6, <2>7 DEF n, editors
<1> QED BY <1>10, <1>11

LEMMA MergedEditors ==
    ASSUME NEW h \in Hashes, NEW slices \in Summarised(h),
           NEW u \in DOMAIN MergePartials(slices).editors
    PROVE  Tally(Events(h), UserOf)[u] - MergePartials(slices).editors[u]
             \in 0 .. MapThenSumSet(LAMBDA p : Cut(slices[p]),
                        {p \in There(h) : u \notin DOMAIN slices[p].editors})
<1> DEFINE t == [p \in DOMAIN slices |-> slices[p].editors]
           S == There(h)
           L == {p \in There(h) : u \in DOMAIN slices[p].editors}
           M == {p \in There(h) : u \notin DOMAIN slices[p].editors}
           f == Share(h, UserOf, u)
           c == [p \in There(h) |-> Cut(slices[p])]
<1>1. DOMAIN slices = S /\ IsFiniteSet(S) /\ L \in SUBSET S /\ M \in SUBSET S /\ S \ L = M
  BY SummaryFacts, HashFacts
<1>2. IsFiniteSet(L) /\ IsFiniteSet(M)
  BY <1>1, FS_Subset
<1>3. /\ DOMAIN t = S
      /\ \A p \in S : t[p] = slices[p].editors
  BY <1>1
<1>4. /\ \A p \in S : f[p] \in Nat
      /\ Cardinality({e \in Events(h) : UserOf[e] = u}) = SumOver(f, S)
  BY SharesAddUp
<1>5. \A p \in S : f[p] = Cardinality({e \in h[p] : UserOf[e] = u})
  BY DEF Share
<1>6. /\ u \in DOMAIN AddedUp(t)
      /\ MergePartials(slices).editors[u] = AddedUp(t)[u]
  BY DEF MergePartials, Restrict
<1>7. u \in UNION {DOMAIN t[p] : p \in DOMAIN t}
  BY <1>6 DEF AddedUp
<1>8. L = {p \in DOMAIN t : u \in DOMAIN t[p]}
  BY <1>1, <1>3
<1>9. /\ \A p \in S : c[p] = Cut(slices[p]) /\ c[p] \in Nat
      /\ \A p \in L : f[p] = slices[p].editors[u]
      /\ \A p \in M : f[p] <= c[p]
  <2>1. \A p \in S : /\ Cut(slices[p]) \in Nat
                     /\ u \in DOMAIN slices[p].editors => f[p] = slices[p].editors[u]
                     /\ u \notin DOMAIN slices[p].editors => f[p] <= Cut(slices[p])
    <3> SUFFICES ASSUME NEW p \in There(h)
                 PROVE  /\ Cut(slices[p]) \in Nat
                        /\ u \in DOMAIN slices[p].editors => f[p] = slices[p].editors[u]
                        /\ u \notin DOMAIN slices[p].editors => f[p] <= Cut(slices[p])
      OBVIOUS
    <3>1. f[p] = Cardinality({e \in h[p] : UserOf[e] = u})
      BY <1>5
    <3> HIDE DEF f
    <3>2. /\ Cut(slices[p]) \in Nat
          /\ \A v \in DOMAIN slices[p].editors :
               slices[p].editors[v] = Cardinality({e \in h[p] : UserOf[e] = v})
          /\ \A v : v \notin DOMAIN slices[p].editors =>
               Cardinality({e \in h[p] : UserOf[e] = v}) <= Cut(slices[p])
      BY CutFacts, Zenon
    <3> DEFINE n(v) == Cardinality({e \in h[p] : UserOf[e] = v})
    <3>3. /\ f[p] = n(u)
          /\ \A v \in DOMAIN slices[p].editors : slices[p].editors[v] = n(v)
          /\ \A v : v \notin DOMAIN slices[p].editors => n(v) <= Cut(slices[p])
      BY <3>1, <3>2, Zenon
    <3> HIDE DEF n
    <3> QED BY <3>2, <3>3
  <2>2. \A p \in S : c[p] = Cut(slices[p])
    OBVIOUS
  <2> HIDE DEF f, c, S
  <2> QED BY <1>1, <2>1, <2>2
<1> HIDE DEF t, S, L, M, f, c
<1>10. AddedUp(t)[u] = SumOver(f, L)
  <2>1. \A p \in DOMAIN t : u \in DOMAIN t[p] => f[p] = t[p][u] /\ f[p] \in Nat
    BY <1>1, <1>3, <1>4, <1>8, <1>9
  <2> QED BY <1>1, <1>3, <1>7, <1>8, <2>1, AddedUpSums
<1>11. SumOver(f, S) = SumOver(f, L) + SumOver(f, M)
  BY <1>1, <1>4, SumSplit
<1>12. SumOver(f, M) <= SumOver(c, M)
  BY <1>1, <1>2, <1>4, <1>9, SumMono
<1>13. MapThenSumSet(LAMBDA p : Cut(slices[p]), M) = SumOver(c, M)
  BY <1>1, <1>2, <1>9, CutSums
<1>14. SumOver(f, L) \in Nat /\ SumOver(f, M) \in Nat /\ SumOver(c, M) \in Nat
  BY <1>1, <1>2, <1>4, <1>9, SumNat
<1>15. Tally(Events(h), UserOf)[u] = SumOver(f, S)
  <2>1. u \in {UserOf[e] : e \in Events(h)}
    <3>1. PICK p \in S : u \in DOMAIN slices[p].editors
      BY <1>3, <1>7
    <3>2. slices[p].editors \in MostCommon(Tally(h[p], UserOf))
      BY <3>1, SummaryFacts DEF S
    <3>3. PICK e \in h[p] : UserOf[e] = u
      <4>1. u \in DOMAIN Tally(h[p], UserOf)
        BY <3>1, <3>2 DEF MostCommon, kSubset, Restrict
      <4> QED BY <4>1 DEF Tally
    <3> QED BY <3>1, <3>3 DEF Events, S
  <2> QED BY <1>4, <2>1 DEF Tally
<1>16. SumOver(f, S) - SumOver(f, L) \in 0 .. SumOver(c, M)
  BY <1>11, <1>12, <1>14
<1>17. SumOver(f, S) - SumOver(f, L) \in 0 .. MapThenSumSet(LAMBDA p : Cut(slices[p]), M)
  BY <1>13, <1>16, Zenon
<1> QED BY <1>6, <1>10, <1>15, <1>17, Zenon DEF M

LEMMA EveryMergeIsFaithful == Hashes \subseteq FaithfullyMerged
<1> SUFFICES ASSUME NEW h \in Hashes PROVE h \in FaithfullyMerged
  OBVIOUS
<1> SUFFICES ASSUME NEW slices \in Summarised(h)
             PROVE  /\ MergePartials(slices).counts = Totals(Events(h))
                    /\ MergePartials(slices).wikis = Tally(Events(h), WikiOf)
                    /\ \A u \in DOMAIN MergePartials(slices).editors :
                         Tally(Events(h), UserOf)[u] - MergePartials(slices).editors[u]
                           \in 0 .. MapThenSumSet(LAMBDA p : Cut(slices[p]),
                                {p \in There(h) : u \notin DOMAIN slices[p].editors})
  BY Zenon DEF FaithfullyMerged
<1>1. MergePartials(slices).counts = Totals(Events(h))
  BY MergedCounts
<1>2. MergePartials(slices).wikis = Tally(Events(h), WikiOf)
  BY MergedWikis
<1> QED BY <1>1, <1>2, MergedEditors, Zenon

-----------------------------------------------------------------------------
(* What a write does to Redis                                              *)

(* What a batch does to the store: the union is trimmed to its newest, the *)
(* hashes of trimmed windows go, and of the others only the fields of the  *)
(* batch's partition change.                                               *)
Entries(p, B, slices) == {<<p, w, slices[w]>> : w \in B}
Updated(st, p, B, slices, w) ==
    [q \in Writers |-> IF q = p /\ w \in B THEN slices[w] ELSE st.slices[w][q]]

LEMMA WriteFacts ==
    ASSUME NEW st, st.index \subseteq StoredWindows, IsFiniteSet(st.index),
           NEW p \in Writers, NEW slices,
           NEW B, B \subseteq StoredWindows, IsFiniteSet(B),
           NEW T, T = st.index \cup B,
           NEW new, new = Write(st, Entries(p, B, slices))
    PROVE  /\ T \subseteq StoredWindows /\ IsFiniteSet(T)
           /\ new.index = NewestOf(T, HistoryMax)
           /\ new.slices = [w \in StoredWindows |-> new.slices[w]]
           /\ \A w \in StoredWindows :
                 new.slices[w] = IF w \in T \ NewestOf(T, HistoryMax) THEN NoHash
                                 ELSE Updated(st, p, B, slices, w)
<1> DEFINE E == {<<p, w, slices[w]>> : w \in B}
           mid == Upsert(st, E)
<1>1. T \subseteq StoredWindows /\ IsFiniteSet(T) /\ T \subseteq Int
  <2>1. IsFiniteSet(T)
    BY FS_Union
  <2>2. StoredWindows \subseteq Int /\ T \subseteq StoredWindows
    <3>1. StoredWindows \subseteq Int
      <4>1. \A w \in Nat : w \in Int
        OBVIOUS
      <4> QED BY <4>1, WindowsAssumption, Zenon
    <3>2. T \subseteq StoredWindows
      BY Zenon
    <3> QED BY <3>1, <3>2, Zenon
  <2> HIDE DEF mid
  <2> QED BY <2>1, <2>2
<1>2. \A w \in B : Entry(E, w, p) = {<<p, w, slices[w]>>}
  BY DEF Entry
<1>3. \A w, q : ~(q = p /\ w \in B) => Entry(E, w, q) = {}
  BY DEF Entry
<1>4. {e[2] : e \in E} = B
  <2>1. \A e \in E : e[2] \in B
    OBVIOUS
  <2>2. \A w \in B : <<p, w, slices[w]>> \in E /\ <<p, w, slices[w]>>[2] = w
    OBVIOUS
  <2> HIDE DEF E
  <2> QED BY <2>1, <2>2, Zenon
<1> HIDE DEF E
<1>5. mid.index = T
  BY <1>4 DEF Upsert
<1>6. \A w \in StoredWindows :
        mid.slices[w] = [q \in Writers |-> IF q = p /\ w \in B THEN slices[w]
                                           ELSE st.slices[w][q]]
  <2> SUFFICES ASSUME NEW w \in StoredWindows
               PROVE  mid.slices[w] = [q \in Writers |->
                          IF q = p /\ w \in B THEN slices[w] ELSE st.slices[w][q]]
    OBVIOUS
  <2>1. mid.slices[w] = [q \in Writers |-> IF Entry(E, w, q) # {}
                            THEN (CHOOSE e \in Entry(E, w, q) : TRUE)[3]
                            ELSE st.slices[w][q]]
    BY DEF Upsert
  <2>2. ASSUME NEW q \in Writers
        PROVE (IF Entry(E, w, q) # {} THEN (CHOOSE e \in Entry(E, w, q) : TRUE)[3]
                                      ELSE st.slices[w][q])
              = (IF q = p /\ w \in B THEN slices[w] ELSE st.slices[w][q])
    <3>1. CASE q = p /\ w \in B
      <4>1. Entry(E, w, q) = {<<p, w, slices[w]>>}
        BY <1>2, <3>1
      <4>2. (CHOOSE e \in Entry(E, w, q) : TRUE) = <<p, w, slices[w]>>
        BY <4>1
      <4> QED BY <3>1, <4>1, <4>2
    <3>2. CASE ~(q = p /\ w \in B)
      BY <1>3, <3>2
    <3> QED BY <3>1, <3>2
  <2> QED BY <2>1, <2>2
<1>7. Stale(T) = T \ NewestOf(T, HistoryMax)
  <2>1. \A w \in T : Cardinality(Above(T, w)) \in Nat
    BY <1>1, AboveFacts
  <2>2. \A a \in Nat : a >= HistoryMax <=> ~(a < HistoryMax)
    BY HistoryMaxAssumption
  <2>3. Stale(T) = {w \in T : Cardinality(Above(T, w)) >= HistoryMax}
    BY DEF Stale, Above
  <2> QED BY <2>1, <2>2, <2>3, Zenon DEF NewestOf
<1>8. new = Trim(mid)
  BY Zenon DEF Write, Entries, E
<1> HIDE DEF mid
<1>9. /\ new.index = T \ Stale(T)
      /\ new.slices = [w \in StoredWindows |->
                         IF w \in Stale(T) THEN NoHash ELSE mid.slices[w]]
  <2>1. new.index = mid.index \ Stale(mid.index)
    BY <1>8 DEF Trim
  <2>2. new.slices = [w \in StoredWindows |->
                        IF w \in Stale(mid.index) THEN NoHash ELSE mid.slices[w]]
    <3>1. Trim(mid).slices = [w \in StoredWindows |->
                                IF w \in Stale(mid.index) THEN NoHash ELSE mid.slices[w]]
      BY DEF Trim
    <3> QED BY <1>8, <3>1, Zenon
  <2> QED BY <1>5, <2>1, <2>2, Zenon
<1>10. NewestOf(T, HistoryMax) \subseteq T
  BY DEF NewestOf
<1>11. new.index = NewestOf(T, HistoryMax)
  BY <1>7, <1>9, <1>10
<1>12. \A w \in StoredWindows :
         new.slices[w] = IF w \in T \ NewestOf(T, HistoryMax) THEN NoHash
                         ELSE Updated(st, p, B, slices, w)
  BY <1>6, <1>7, <1>9 DEF Updated
<1>13. new.slices = [w \in StoredWindows |-> new.slices[w]]
  BY <1>9
<1> QED BY <1>1, <1>11, <1>12, <1>13

-----------------------------------------------------------------------------
(* The chart                                                               *)

Charts == {c \in Seq(Points) : Len(c) <= MaxPoints}
Backs(c) == {i \in 1 .. Len(c) - 1 : c[i + 1][1] <= c[i][1]}

LEMMA BacksFinite ==
    ASSUME NEW c \in Seq(Points)
    PROVE  IsFiniteSet(Backs(c)) /\ Cardinality(Backs(c)) \in Nat
<1>1. Len(c) \in Nat /\ Len(c) - 1 \in Int
  OBVIOUS
<1>2. IsFiniteSet(1 .. Len(c) - 1)
  BY <1>1, FS_Interval
<1>3. Backs(c) \in SUBSET (1 .. Len(c) - 1)
  BY DEF Backs
<1> QED BY <1>2, <1>3, FS_Subset, FS_CardinalityType

LEMMA OneMore ==
    ASSUME NEW S, IsFiniteSet(S), NEW x, NEW T, T \subseteq S \cup {x}
    PROVE  /\ IsFiniteSet(T) /\ Cardinality(T) \in Nat
           /\ Cardinality(T) <= Cardinality(S) + 1
<1>1. /\ IsFiniteSet(S \cup {x})
      /\ Cardinality(S \cup {x}) <= Cardinality(S) + 1
      /\ Cardinality(S \cup {x}) \in Nat
  <2>1. IsFiniteSet(S \cup {x})
    BY FS_AddElement
  <2>2. Cardinality(S \cup {x}) = IF x \in S THEN Cardinality(S) ELSE Cardinality(S) + 1
    BY FS_AddElement
  <2>3. Cardinality(S) \in Nat
    BY FS_CardinalityType
  <2> QED BY <2>1, <2>2, <2>3
<1>2. T \in SUBSET (S \cup {x})
  OBVIOUS
<1>3. /\ IsFiniteSet(T) /\ Cardinality(T) <= Cardinality(S \cup {x})
      /\ Cardinality(T) \in Nat /\ Cardinality(S) \in Nat
  BY <1>1, <1>2, FS_Subset, FS_CardinalityType
<1> QED BY <1>1, <1>3

(* One point more.  A step back is a step back that there was, in its place *)
(* or one further, or is to the point itself.                              *)
LEMMA PushFacts ==
    ASSUME NEW c \in Charts, NEW p \in Points
    PROVE  LET d == PushPoint(c, p) IN
           /\ d \in Charts /\ d # <<>> /\ d[Len(d)] = p
           /\ \A i \in 1 .. Len(d) : d[i] = p \/ \E j \in 1 .. Len(c) : d[i] = c[j]
           /\ Cardinality(Backs(d)) <= Cardinality(Backs(c)) + 1
           /\ c = <<>> \/ c[Len(c)][1] <= p[1] =>
                Cardinality(Backs(d)) <= Cardinality(Backs(c))
<1> DEFINE d == PushPoint(c, p)
           n == Len(c)
<1>1. c \in Seq(Points) /\ n \in Nat /\ n <= MaxPoints /\ MaxPoints \in Nat \ {0}
  BY MaxPointsAssumption DEF Charts
<1>0. \A pt \in Points : pt[1] \in Nat
  BY WindowsAssumption DEF Points
<1>2. \A i \in 1 .. n : c[i] \in Points /\ c[i][1] \in Nat
  BY <1>0, <1>1
<1>3. p[1] \in Nat
  BY <1>0
<1>4. c # <<>> => n # 0
  BY <1>1
<1>5. IsFiniteSet(Backs(c)) /\ Cardinality(Backs(c)) \in Nat
  BY <1>1, BacksFinite
<1>6. CASE c # <<>> /\ c[n][1] = p[1]
  <2>1. d = [c EXCEPT ![n] = p]
    BY <1>6 DEF PushPoint, ReplaceAt, Last
  <2> HIDE DEF d
  <2>2. d \in Seq(Points) /\ Len(d) = n /\ n \in 1 .. n
    BY <1>1, <1>4, <1>6, <2>1
  <2>3. \A i \in 1 .. n : d[i] = IF i = n THEN p ELSE c[i]
    BY <1>1, <2>1
  <2>4. \A i \in 1 .. n : d[i][1] = c[i][1]
    BY <1>6, <2>3
  <2>5. Backs(d) = Backs(c)
    BY <1>1, <2>2, <2>4 DEF Backs
  <2>6. d \in Charts /\ d # <<>> /\ d[Len(d)] = p
    BY <1>1, <2>2, <2>3 DEF Charts
  <2>7. \A i \in 1 .. Len(d) : d[i] = p \/ \E j \in 1 .. Len(c) : d[i] = c[j]
    BY <2>2, <2>3
  <2> QED BY <1>5, <2>5, <2>6, <2>7 DEF d
<1>7. CASE ~(c # <<>> /\ c[n][1] = p[1]) /\ n # MaxPoints
  <2>1. d = Append(c, p)
    BY <1>7 DEF PushPoint, Last
  <2> HIDE DEF d
  <2>2. d \in Seq(Points) /\ Len(d) = n + 1
    BY <1>1, <2>1
  <2>3. \A i \in 1 .. n + 1 : d[i] = IF i = n + 1 THEN p ELSE c[i]
    BY <1>1, <2>1
  <2>4. Backs(d) \subseteq Backs(c) \cup {n}
    BY <1>1, <2>2, <2>3 DEF Backs
  <2>5. Cardinality(Backs(d)) <= Cardinality(Backs(c)) + 1
    BY <1>5, <2>4, OneMore
  <2>6. ASSUME c = <<>> \/ c[n][1] <= p[1]
        PROVE  Cardinality(Backs(d)) <= Cardinality(Backs(c))
    <3>1. n \notin Backs(d)
      <4>1. CASE c = <<>>
        BY <2>2, <4>1 DEF Backs
      <4>2. CASE c # <<>>
        <5>1. c[n][1] < p[1]
          BY <1>2, <1>3, <1>1, <1>4, <1>7, <2>6, <4>2
        <5> QED BY <1>1, <1>2, <1>3, <1>4, <2>3, <4>2, <5>1 DEF Backs
      <4> QED BY <4>1, <4>2
    <3>2. Backs(d) \in SUBSET Backs(c)
      BY <2>4, <3>1
    <3> QED BY <1>5, <3>2, FS_Subset
  <2>7. d \in Charts /\ d # <<>> /\ d[Len(d)] = p
    BY <1>1, <1>7, <2>2, <2>3 DEF Charts
  <2>8. \A i \in 1 .. Len(d) : d[i] = p \/ \E j \in 1 .. Len(c) : d[i] = c[j]
    BY <1>1, <2>2, <2>3
  <2> QED BY <2>5, <2>6, <2>7, <2>8 DEF d
<1>8. CASE ~(c # <<>> /\ c[n][1] = p[1]) /\ n = MaxPoints
  <2>0. c # <<>>
    BY <1>1, <1>8
  <2> DEFINE t == Tail(c)
  <2>1. d = Append(t, p)
    BY <1>8 DEF PushPoint, Last
  <2>2. t \in Seq(Points) /\ Len(t) = n - 1 /\ \A i \in 1 .. n - 1 : t[i] = c[i + 1]
    BY <1>1, <2>0
  <2> HIDE DEF d, t
  <2>3. d \in Seq(Points) /\ Len(d) = n
    BY <1>1, <2>0, <2>1, <2>2
  <2>4. \A i \in 1 .. n : d[i] = IF i = n THEN p ELSE c[i + 1]
    BY <1>1, <2>1, <2>2
  <2> DEFINE R == {i \in 1 .. n - 2 : i + 1 \in Backs(c)}
  <2>5. Backs(d) \subseteq R \cup {n - 1}
    <3> SUFFICES ASSUME NEW i \in 1 .. n - 1, d[i + 1][1] <= d[i][1], i # n - 1
                 PROVE  i \in 1 .. n - 2 /\ i + 1 \in Backs(c)
      BY <2>3 DEF Backs
    <3>1. i \in 1 .. n - 2 /\ i + 1 \in 1 .. n - 1
      BY <1>1
    <3>2. d[i + 1] = c[(i + 1) + 1] /\ d[i] = c[i + 1]
      BY <1>1, <2>4, <3>1
    <3> QED BY <3>1, <3>2 DEF Backs
  <2>6. IsFiniteSet(R) /\ Cardinality(R) <= Cardinality(Backs(c))
    <3> DEFINE f == [i \in R |-> i + 1]
    <3>1. f \in Injection(R, Backs(c))
      <4>1. f \in [R -> Backs(c)]
        OBVIOUS
      <4>2. \A i, j \in R : f[i] = f[j] => i = j
        <5>1. \A i \in R : i \in Int /\ f[i] = i + 1
          OBVIOUS
        <5> HIDE DEF R, f
        <5> QED BY <5>1
      <4> QED BY <4>1, <4>2 DEF Injection, IsInjective
    <3> HIDE DEF R, f
    <3> QED BY <1>5, <3>1, FS_Injection
  <2>7. Cardinality(R) \in Nat
    BY <2>6, FS_CardinalityType
  <2>8. Cardinality(Backs(d)) <= Cardinality(Backs(c)) + 1
    <3>1. Cardinality(Backs(d)) <= Cardinality(R) + 1 /\ Cardinality(Backs(d)) \in Nat
      BY <2>5, <2>6, OneMore
    <3> QED BY <1>5, <2>6, <2>7, <3>1
  <2>9. ASSUME c = <<>> \/ c[n][1] <= p[1]
        PROVE  Cardinality(Backs(d)) <= Cardinality(Backs(c))
    <3>1. c[n][1] < p[1]
      BY <1>1, <1>2, <1>3, <1>4, <1>8, <2>0, <2>9
    <3>2. n - 1 \notin Backs(d)
      <4>1. CASE n = 1
        BY <2>3, <4>1 DEF Backs
      <4>2. CASE n # 1
        <5>1. d[n - 1] = c[n] /\ d[(n - 1) + 1] = p
          <6>1. n - 1 \in 1 .. n /\ n - 1 # n /\ (n - 1) + 1 = n /\ n \in 1 .. n
            <7> HIDE DEF d, R
            <7>1. n \in Nat /\ n # 0 /\ n # 1
              BY <1>1, <1>4, <2>0, <4>2
            <7> HIDE DEF n
            <7> QED BY <7>1
          <6> HIDE DEF n
          <6> QED BY <2>4, <6>1
        <5> QED BY <1>1, <1>2, <1>3, <1>4, <2>0, <3>1, <5>1 DEF Backs
      <4> QED BY <4>1, <4>2
    <3>3. Backs(d) \in SUBSET R
      BY <2>5, <3>2
    <3>4. Cardinality(Backs(d)) <= Cardinality(R) /\ Cardinality(Backs(d)) \in Nat
      BY <2>6, <3>3, FS_Subset, FS_CardinalityType
    <3> QED BY <1>5, <2>6, <2>7, <3>4
  <2>10. d \in Charts /\ d # <<>> /\ d[Len(d)] = p
    BY <1>1, <1>4, <2>0, <2>3, <2>4 DEF Charts
  <2>11. \A i \in 1 .. Len(d) : d[i] = p \/ \E j \in 1 .. Len(c) : d[i] = c[j]
    BY <1>1, <2>3, <2>4
  <2> QED BY <2>8, <2>9, <2>10, <2>11 DEF d
<1> QED BY <1>6, <1>7, <1>8

(* A message is drawn point by point.                                      *)
LEMMA PushOneByOne ==
    ASSUME NEW c \in Charts, NEW m \in Seq(Points)
    PROVE  \E g : /\ g[0] = c
                  /\ \A n \in 1 .. Len(m) : g[n] = PushPoint(g[n - 1], m[n])
                  /\ FoldLeft(PushPoint, c, m) = g[Len(m)]
<1> DEFINE S == 1 .. Len(m)
           step == [i \in S |-> [d \in Charts |-> PushPoint(d, m[i])]]
           pick == [T \in SUBSET S |-> Max(T)]
           Chosen(g) ==
             g = [T \in SUBSET S |->
                    IF T = {} THEN c
                    ELSE PushPoint(g[T \ {Max(T)}], m[Max(T)])]
<1>1. DOMAIN m = S /\ IsFiniteSet(S) /\ \A i \in S : m[i] \in Points
  BY FS_Interval
<1>2. FoldLeft(PushPoint, c, m) = (CHOOSE g : Chosen(g))[S]
  <2>1. FoldLeft(PushPoint, c, m) = (CHOOSE g :
             g = [T \in SUBSET (DOMAIN m) |->
                    IF T = {} THEN c
                    ELSE PushPoint(g[T \ {Max(T)}], m[Max(T)])])[DOMAIN m]
    BY DEF FoldLeft, MapThenFoldSet
  <2> QED BY <1>1, <2>1
<1>3. \A T \in SUBSET S : T # {} => Max(T) \in T /\ \A i \in T : i <= Max(T)
  <2> SUFFICES ASSUME NEW T \in SUBSET S, T # {}
               PROVE  Max(T) \in T /\ \A i \in T : i <= Max(T)
    OBVIOUS
  <2>1. T \subseteq Int /\ IsFiniteSet(T)
    <3>1. S \subseteq Int
      OBVIOUS
    <3>2. IsFiniteSet(T)
      BY <1>1, FS_Subset
    <3> HIDE DEF S
    <3> QED BY <3>1, <3>2
  <2>2. PICK x \in T : \A i \in T : i <= x
    BY <2>1, LargestExists
  <2>3. \A i \in T : x >= i
    BY <2>1, <2>2
  <2>4. Max(T) \in T /\ \A i \in T : Max(T) >= i
    BY <2>3 DEF Max
  <2> QED BY <2>1, <2>4
<1>4. \E g : Chosen(g)
  <2>1. \A i \in S : \A d \in Charts : step[i][d] = PushPoint(d, m[i])
                                       /\ step[i][d] \in Charts
    <3>1. \A i \in S : \A d \in Charts : PushPoint(d, m[i]) \in Charts
      BY <1>1, PushFacts
    <3> QED BY <3>1
  <2>2. \A T \in SUBSET S : pick[T] = Max(T) /\ (T # {} => pick[T] \in T)
    BY <1>3
  <2> HIDE DEF step, pick
  <2>3. PICK g \in [SUBSET S -> Charts] : Folds(g, S, c, step, pick)
    BY <1>1, <2>1, <2>2, FoldExists
  <2>4. g = [T \in SUBSET S |-> IF T = {} THEN c ELSE step[pick[T]][g[T \ {pick[T]}]]]
    BY <2>3 DEF Folds
  <2>5. \A T \in SUBSET S : T # {} =>
          step[pick[T]][g[T \ {pick[T]}]] = PushPoint(g[T \ {Max(T)}], m[Max(T)])
    BY <2>1, <2>2, <2>3
  <2>6. Chosen(g)
    BY <2>4, <2>5
  <2> HIDE DEF Chosen
  <2> QED BY <2>6
<1>5. PICK h : Chosen(h) /\ FoldLeft(PushPoint, c, m) = h[S]
  <2> HIDE DEF Chosen
  <2>1. Chosen(CHOOSE g : Chosen(g))
    BY <1>4, Zenon
  <2> QED BY <1>2, <2>1, Zenon
<1> DEFINE g == [n \in 0 .. Len(m) |-> h[1 .. n]]
<1>6. g[0] = c
  <2>1. 1 .. 0 = {} /\ 0 \in 0 .. Len(m)
    OBVIOUS
  <2> QED BY <1>5, <2>1
<1>7. ASSUME NEW n \in 1 .. Len(m) PROVE g[n] = PushPoint(g[n - 1], m[n])
  <2>1. /\ 1 .. n \in SUBSET S /\ n \in 1 .. n
        /\ n - 1 \in 0 .. Len(m) /\ n \in 0 .. Len(m)
    <3>1. Len(m) \in Nat
      OBVIOUS
    <3> HIDE DEF g, step, pick, Chosen
    <3> QED BY <3>1
  <2>2. Max(1 .. n) = n
    <3>1. Max(1 .. n) \in 1 .. n /\ n <= Max(1 .. n)
      BY <1>3, <2>1
    <3> QED BY <3>1
  <2>3. (1 .. n) \ {n} = 1 .. n - 1
    OBVIOUS
  <2>4. h[1 .. n] = PushPoint(h[(1 .. n) \ {Max(1 .. n)}], m[Max(1 .. n)])
    BY <1>5, <2>1
  <2>5. h[1 .. n] = PushPoint(h[1 .. n - 1], m[n])
    BY <2>2, <2>3, <2>4
  <2>6. g[n] = h[1 .. n] /\ g[n - 1] = h[1 .. n - 1]
    BY <2>1
  <2> QED BY <2>5, <2>6
<1>8. FoldLeft(PushPoint, c, m) = g[Len(m)]
  BY <1>5
<1> HIDE DEF g
<1> QED BY <1>6, <1>7, <1>8

(* A message whose windows ascend adds at most one step back, and none     *)
(* when it begins where the chart ends or later.                           *)
LEMMA ReceiveFacts ==
    ASSUME NEW c \in Charts, NEW m \in Seq(Points),
           \A i, j \in 1 .. Len(m) : i < j => m[i][1] < m[j][1]
    PROVE  LET d == FoldLeft(PushPoint, c, m) IN
           /\ d \in Charts
           /\ m = <<>> => d = c
           /\ m # <<>> => d # <<>> /\ d[Len(d)] = m[Len(m)]
           /\ \A i \in 1 .. Len(d) : (\E j \in 1 .. Len(m) : d[i] = m[j])
                                     \/ (\E j \in 1 .. Len(c) : d[i] = c[j])
           /\ Cardinality(Backs(d)) <= Cardinality(Backs(c)) + 1
           /\ c = <<>> \/ m = <<>> \/ c[Len(c)][1] <= m[1][1] =>
                Cardinality(Backs(d)) <= Cardinality(Backs(c))
<1>1. PICK g : /\ g[0] = c
               /\ \A n \in 1 .. Len(m) : g[n] = PushPoint(g[n - 1], m[n])
               /\ FoldLeft(PushPoint, c, m) = g[Len(m)]
  BY PushOneByOne
<1> DEFINE k == IF c = <<>> \/ m = <<>> \/ c[Len(c)][1] <= m[1][1] THEN 0 ELSE 1
           Drawn(n) ==
             /\ g[n] \in Charts
             /\ n > 0 => g[n] # <<>> /\ g[n][Len(g[n])] = m[n]
             /\ \A i \in 1 .. Len(g[n]) : (\E j \in 1 .. n : g[n][i] = m[j])
                                          \/ (\E j \in 1 .. Len(c) : g[n][i] = c[j])
             /\ Cardinality(Backs(g[n])) <= Cardinality(Backs(c)) + (IF n = 0 THEN 0 ELSE k)
           N == {n \in Nat : n <= Len(m) => Drawn(n)}
<1>2. k \in 0 .. 1 /\ Len(m) \in Nat /\ \A i \in 1 .. Len(m) : m[i] \in Points
  <2>1. k = 0 \/ k = 1
    BY Zenon
  <2> HIDE DEF k
  <2> QED BY <2>1
<1>3. \A d \in Charts : Cardinality(Backs(d)) \in Nat
  BY BacksFinite DEF Charts
<1>4. 0 \in N
  BY <1>1, <1>3
<1>5. ASSUME NEW n \in Nat, n \in N PROVE n + 1 \in N
  <2> SUFFICES ASSUME n + 1 <= Len(m) PROVE Drawn(n + 1)
    <3>1. n + 1 \in Nat
      OBVIOUS
    <3> HIDE DEF Drawn
    <3> QED BY <3>1
  <2> DEFINE d == g[n]
             e == g[n + 1]
             p == m[n + 1]
  <2>1. n + 1 \in 1 .. Len(m) /\ n <= Len(m) /\ (n + 1) - 1 = n
    BY <1>2
  <2>2. Drawn(n)
    BY <1>5, <2>1
  <2>3. e = PushPoint(d, p) /\ p \in Points
    BY <1>1, <1>2, <2>1
  <2>4. /\ e \in Charts /\ e # <<>> /\ e[Len(e)] = p
        /\ \A i \in 1 .. Len(e) : e[i] = p \/ \E j \in 1 .. Len(d) : e[i] = d[j]
        /\ Cardinality(Backs(e)) <= Cardinality(Backs(d)) + 1
        /\ d = <<>> \/ d[Len(d)][1] <= p[1] =>
             Cardinality(Backs(e)) <= Cardinality(Backs(d))
    <3> HIDE DEF d, e, p
    <3>1. d \in Charts
      BY <2>2 DEF d
    <3> QED BY <2>3, <3>1, PushFacts
  <2>5. Cardinality(Backs(e)) <= Cardinality(Backs(c)) + k
    <3>1. Cardinality(Backs(d)) \in Nat /\ Cardinality(Backs(e)) \in Nat
          /\ Cardinality(Backs(c)) \in Nat
      BY <1>3, <2>2, <2>4
    <3>2. CASE n = 0
      <4>1. d = c /\ p = m[1] /\ m # <<>>
        BY <1>1, <2>1, <3>2
      <4>2. Cardinality(Backs(e)) <= Cardinality(Backs(c)) + 1
        BY <2>4, <4>1
      <4>3. k = 0 => Cardinality(Backs(e)) <= Cardinality(Backs(c))
        BY <2>4, <4>1
      <4> HIDE DEF k, e, d, p
      <4> QED BY <1>2, <3>1, <4>2, <4>3
    <3>3. CASE n # 0
      <4>1. d[Len(d)] = m[n] /\ m[n][1] < p[1] /\ m[n][1] \in Nat /\ p[1] \in Nat
        <5>1. n \in 1 .. Len(m) /\ n < n + 1 /\ n > 0
          BY <2>1, <3>3
        <5>2. \A pt \in Points : pt[1] \in Nat
          BY WindowsAssumption DEF Points
        <5>3. d[Len(d)] = m[n]
          BY <2>2, <5>1
        <5> QED BY <1>2, <2>1, <5>1, <5>2, <5>3
      <4>2. Cardinality(Backs(e)) <= Cardinality(Backs(d))
        BY <2>4, <4>1
      <4>3. Cardinality(Backs(d)) <= Cardinality(Backs(c)) + k
        BY <2>2, <3>3
      <4> HIDE DEF k, e, d, p
      <4> QED BY <1>2, <3>1, <4>2, <4>3
    <3> QED BY <3>2, <3>3
  <2>6. \A i \in 1 .. Len(e) : (\E j \in 1 .. n + 1 : e[i] = m[j])
                               \/ (\E j \in 1 .. Len(c) : e[i] = c[j])
    <3> SUFFICES ASSUME NEW i \in 1 .. Len(e)
                 PROVE  (\E j \in 1 .. n + 1 : e[i] = m[j])
                        \/ (\E j \in 1 .. Len(c) : e[i] = c[j])
      OBVIOUS
    <3>1. CASE e[i] = p
      <4>1. n + 1 \in 1 .. n + 1
        OBVIOUS
      <4> QED BY <3>1, <4>1
    <3>2. CASE e[i] # p
      <4>1. PICK j \in 1 .. Len(d) : e[i] = d[j]
        BY <2>4, <3>2
      <4>2. (\E q \in 1 .. n : d[j] = m[q]) \/ (\E q \in 1 .. Len(c) : d[j] = c[q])
        BY <2>2
      <4>3. \A q \in 1 .. n : q \in 1 .. n + 1
        OBVIOUS
      <4> HIDE DEF e, d, p
      <4> QED BY <4>1, <4>2, <4>3
    <3> QED BY <3>1, <3>2
  <2> HIDE DEF k
  <2> QED BY <2>4, <2>5, <2>6
<1>6. Drawn(Len(m))
  <2>1. Nat \subseteq N
    <3> HIDE DEF N
    <3> QED BY <1>4, <1>5, NatInduct
  <2> HIDE DEF Drawn
  <2> QED BY <1>2, <2>1
<1>7. m = <<>> => FoldLeft(PushPoint, c, m) = c
  BY <1>1
<1>8. m # <<>> => Len(m) > 0
  BY <1>2
<1> DEFINE d == FoldLeft(PushPoint, c, m)
<1>9. d = g[Len(m)]
  BY <1>1
<1> HIDE DEF d
<1>10. /\ Cardinality(Backs(d)) <= Cardinality(Backs(c)) + 1
       /\ k = 0 => Cardinality(Backs(d)) <= Cardinality(Backs(c))
  <2>1. Cardinality(Backs(d)) <= Cardinality(Backs(c)) + (IF Len(m) = 0 THEN 0 ELSE k)
    BY <1>6, <1>9
  <2>2. Cardinality(Backs(d)) \in Nat /\ Cardinality(Backs(c)) \in Nat
    BY <1>3, <1>6, <1>9
  <2> HIDE DEF k
  <2> QED BY <1>2, <2>1, <2>2
<1>11. /\ d \in Charts
       /\ m # <<>> => d # <<>> /\ d[Len(d)] = m[Len(m)]
       /\ \A i \in 1 .. Len(d) : (\E j \in 1 .. Len(m) : d[i] = m[j])
                                 \/ (\E j \in 1 .. Len(c) : d[i] = c[j])
  BY <1>6, <1>8, <1>9
<1> QED BY <1>7, <1>10, <1>11 DEF d

-----------------------------------------------------------------------------
(* A point of the chart                                                    *)

TotalOf(h) == SumOver([p \in There(h) |-> Cardinality(h[p])], There(h))
BotsOf(h) == SumOver([p \in There(h) |-> Cardinality(h[p] \cap Bots)], There(h))

LEMMA PointOfHash ==
    ASSUME NEW h \in Hashes
    PROVE  /\ HistoryPoint([p \in There(h) |-> Totals(h[p])])
                = [total |-> TotalOf(h), bots |-> BotsOf(h)]
           /\ TotalOf(h) \in Nat /\ BotsOf(h) \in Nat
<1> DEFINE c == [p \in There(h) |-> Totals(h[p])]
           a == [p \in There(h) |-> Cardinality(h[p])]
           b == [p \in There(h) |-> Cardinality(h[p] \cap Bots)]
<1>1. IsFiniteSet(There(h))
      /\ \A p \in There(h) : IsFiniteSet(h[p]) /\ IsFiniteSet(h[p] \cap Bots)
  BY HashFacts, FS_Intersection
<1>2. \A p \in There(h) : a[p] \in Nat /\ b[p] \in Nat
  BY <1>1, FS_CardinalityType
<1>3. DOMAIN c = There(h) /\ \A p \in There(h) : a[p] = c[p].total /\ b[p] = c[p].bots
  <2>1. \A p \in There(h) : c[p] = Totals(h[p])
    OBVIOUS
  <2>2. \A p \in There(h) : Totals(h[p]).total = a[p] /\ Totals(h[p]).bots = b[p]
    BY DEF Totals
  <2>3. DOMAIN c = There(h)
    OBVIOUS
  <2> HIDE DEF c, a, b
  <2> QED BY <2>1, <2>2, <2>3
<1> HIDE DEF a, b, c
<1>4. HistoryPoint(c) = [total |-> SumOver(a, There(h)), bots |-> SumOver(b, There(h))]
  BY <1>1, <1>2, <1>3, HistoryPointSums
<1>5. SumOver(a, There(h)) \in Nat /\ SumOver(b, There(h)) \in Nat
  BY <1>1, <1>2, SumNat
<1> QED BY <1>4, <1>5, Zenon DEF TotalOf, BotsOf, a, b, c

(* A hash that gained slices, or events in them, has no less.              *)
LEMMA MoreSlices ==
    ASSUME NEW h \in Hashes, NEW k \in Hashes, There(h) \subseteq There(k),
           \A p \in There(h) : h[p] \subseteq k[p]
    PROVE  TotalOf(h) <= TotalOf(k) /\ BotsOf(h) <= BotsOf(k)
<1> DEFINE a == [p \in There(h) |-> Cardinality(h[p])]
           b == [p \in There(h) |-> Cardinality(h[p] \cap Bots)]
           x == [p \in There(k) |-> Cardinality(k[p])]
           y == [p \in There(k) |-> Cardinality(k[p] \cap Bots)]
<1>1. /\ IsFiniteSet(There(h)) /\ IsFiniteSet(There(k))
      /\ \A p \in There(k) : IsFiniteSet(k[p]) /\ IsFiniteSet(k[p] \cap Bots)
  BY HashFacts, FS_Intersection
<1>2. \A p \in There(k) : x[p] \in Nat /\ y[p] \in Nat
  BY <1>1, FS_CardinalityType
<1>3. ASSUME NEW p \in There(h)
      PROVE  /\ a[p] \in Nat /\ x[p] \in Nat /\ a[p] <= x[p]
             /\ b[p] \in Nat /\ y[p] \in Nat /\ b[p] <= y[p]
  <2>1. p \in There(k) /\ IsFiniteSet(k[p]) /\ IsFiniteSet(k[p] \cap Bots)
    BY <1>1
  <2>2. h[p] \in SUBSET k[p] /\ (h[p] \cap Bots) \in SUBSET (k[p] \cap Bots)
    OBVIOUS
  <2>3. /\ Cardinality(h[p]) <= Cardinality(k[p])
        /\ Cardinality(h[p] \cap Bots) <= Cardinality(k[p] \cap Bots)
    BY <2>1, <2>2, FS_Subset
  <2>4. /\ Cardinality(h[p]) \in Nat /\ Cardinality(k[p]) \in Nat
        /\ Cardinality(h[p] \cap Bots) \in Nat /\ Cardinality(k[p] \cap Bots) \in Nat
    BY <2>1, <2>2, FS_Subset, FS_CardinalityType
  <2> QED BY <2>1, <2>3, <2>4
<1>4. TotalOf(h) = SumOver(a, There(h)) /\ BotsOf(h) = SumOver(b, There(h))
      /\ TotalOf(k) = SumOver(x, There(k)) /\ BotsOf(k) = SumOver(y, There(k))
  BY Zenon DEF TotalOf, BotsOf
<1> HIDE DEF a, b, x, y
<1>5. SumOver(a, There(h)) <= SumOver(x, There(h)) /\ SumOver(b, There(h)) <= SumOver(y, There(h))
  BY <1>1, <1>3, SumMono
<1>6. /\ SumOver(x, There(h)) <= SumOver(x, There(k))
      /\ SumOver(y, There(h)) <= SumOver(y, There(k))
  BY <1>1, <1>2, SumSubset
<1>7. /\ SumOver(a, There(h)) \in Nat /\ SumOver(x, There(h)) \in Nat /\ SumOver(x, There(k)) \in Nat
      /\ SumOver(b, There(h)) \in Nat /\ SumOver(y, There(h)) \in Nat /\ SumOver(y, There(k)) \in Nat
  BY <1>1, <1>2, <1>3, SumNat
<1> QED BY <1>4, <1>5, <1>6, <1>7

-----------------------------------------------------------------------------
(* The inductive invariant                                                 *)

(* What has the type it should have.                                       *)
Shape ==
    /\ store.index \subseteq StoredWindows /\ IsFiniteSet(store.index)
    /\ store.slices \in [StoredWindows -> Hashes]
    /\ writes \in 0 .. MaxWrites
    /\ reduced \subseteq StoredWindows
    /\ server \in Servers
    /\ members \subseteq StoredWindows /\ IsFiniteSet(members)
    /\ lastSent \in (StoredWindows \X Nat) \cup {Nothing}
    /\ link \in Seq(Seq(Points))
    /\ chart \in Charts
    /\ drops \in 0 .. MaxDrops

(* A point that was sent has no more than its window, unless that has lost *)
(* something, until the window is trimmed, and then HistoryMax newer ones  *)
(* keep it from coming back.                                               *)
Settled(pt) ==
    \/ pt[1] \in reduced
    \/ /\ Live(pt[1]) => pt[2] <= Point(pt[1])[2] /\ pt[3] <= Point(pt[1])[3]
       /\ ~Live(pt[1]) => ~(Cardinality(Above(store.index, pt[1])) < HistoryMax)
Reached(w) == \E v \in store.index : w <= v
Known(pt) == Settled(pt) /\ Reached(pt[1])
KnownPoints == {pt \in Points : Known(pt)}
ReachedWindows == {w \in StoredWindows : Reached(w)}

SentAreKnown ==
    /\ \A i \in 1 .. Len(link) : \A j \in 1 .. Len(link[i]) : link[i][j] \in KnownPoints
    /\ \A i \in 1 .. Len(chart) : chart[i] \in KnownPoints
    /\ members \subseteq ReachedWindows

(* The messages run forward, and so does what is about to be sent; where   *)
(* the chart does not go on forward, there was a drop for it.              *)
InOrder(m) == \A i, j \in 1 .. Len(m) : i < j => m[i][1] < m[j][1]
Onward(ms) ==
    /\ \A i \in 1 .. Len(ms) : InOrder(ms[i])
    /\ \A i, k \in 1 .. Len(ms) : i < k =>
          \A j \in 1 .. Len(ms[i]), l \in 1 .. Len(ms[k]) : ms[i][j][1] <= ms[k][l][1]
Since(ms, w) == \A i \in 1 .. Len(ms) : \A j \in 1 .. Len(ms[i]) : w <= ms[i][j][1]
Until(ms, w) == \A i \in 1 .. Len(ms) : \A j \in 1 .. Len(ms[i]) : ms[i][j][1] <= w
Owed(c, n) == c # <<>> => Cardinality(Backs(c)) < n

Forward ==
    /\ Onward(link)
    /\ server = "fetch latest" => \A w \in members : Until(link, w)
    /\ server \in {"closed", "history", "fetch history"} => link = <<>> /\ Owed(chart, drops)
    /\ \/ Owed(chart, drops)
       \/ /\ Since(link, chart[Len(chart)][1])
          /\ server = "fetch latest" => \A w \in members : chart[Len(chart)][1] <= w
    /\ Cardinality(Backs(chart)) <= drops

IInv == Shape /\ SentAreKnown /\ Forward

-----------------------------------------------------------------------------
(* Every step keeps it                                                     *)

LEMMA InitIInv == Init => IInv
<1> SUFFICES ASSUME Init PROVE IInv
  OBVIOUS
<1>1. /\ store.index = {} /\ store.slices = [w \in StoredWindows |-> NoHash]
      /\ writes = 0 /\ reduced = {}
      /\ server = "closed" /\ members = {} /\ lastSent = Nothing
      /\ link = <<>> /\ chart = <<>> /\ drops = 0
  BY DEF Init, EmptyStore
<1>2. NoHash \in Hashes /\ \A p \in Writers : NoHash[p] = NoSlice
  BY DEF Hashes, NoHash
<1>3. /\ <<>> \in Seq(Seq(Points)) /\ <<>> \in Charts /\ Len(<<>>) = 0
  BY MaxPointsAssumption DEF Charts
<1>4. Shape
  BY <1>1, <1>2, <1>3, BoundsAssumption, FS_EmptySet DEF Shape, Servers, Nothing
<1>5. SentAreKnown
  BY <1>1, <1>3 DEF SentAreKnown
<1>6. Cardinality(Backs(<<>>)) = 0
  <2>1. Backs(<<>>) = {}
    BY <1>3 DEF Backs
  <2> QED BY <2>1, FS_EmptySet
<1>7. Forward
  BY <1>1, <1>3, <1>6 DEF Forward, Owed, Onward
<1> QED BY <1>4, <1>5, <1>7 DEF IInv

LEMMA PointFacts ==
    ASSUME NEW w, store.slices[w] \in Hashes
    PROVE  /\ Point(w) = <<w, TotalOf(store.slices[w]), BotsOf(store.slices[w])>>
           /\ w \in StoredWindows => Point(w) \in Points
<1>1. Slices(w) = There(store.slices[w])
  BY DEF Slices, There
<1> DEFINE sums == HistoryPoint([p \in There(store.slices[w]) |-> Totals(store.slices[w][p])])
<1>2. Point(w) = <<w, sums.total, sums.bots>>
  BY <1>1 DEF Point
<1>3. /\ sums = [total |-> TotalOf(store.slices[w]), bots |-> BotsOf(store.slices[w])]
      /\ TotalOf(store.slices[w]) \in Nat /\ BotsOf(store.slices[w]) \in Nat
  BY PointOfHash
<1> HIDE DEF sums
<1>4. Point(w) = <<w, TotalOf(store.slices[w]), BotsOf(store.slices[w])>>
  BY <1>2, <1>3
<1> QED BY <1>3, <1>4 DEF Points

LEMMA PointAfterwards ==
    ASSUME NEW w, store'.slices[w] \in Hashes
    PROVE  Point(w)' = <<w, TotalOf(store'.slices[w]), BotsOf(store'.slices[w])>>
<1>1. Slices(w)' = There(store'.slices[w])
  BY DEF Slices, There
<1> DEFINE sums == HistoryPoint([p \in There(store'.slices[w]) |-> Totals(store'.slices[w][p])])
<1>2. Point(w)' = <<w, sums.total, sums.bots>>
  BY <1>1 DEF Point
<1>3. sums = [total |-> TotalOf(store'.slices[w]), bots |-> BotsOf(store'.slices[w])]
  BY PointOfHash
<1> HIDE DEF sums
<1> QED BY <1>2, <1>3

LEMMA SameStore ==
    ASSUME UNCHANGED <<store, reduced>>
    PROVE  KnownPoints' = KnownPoints /\ ReachedWindows' = ReachedWindows
BY DEF KnownPoints, ReachedWindows, Known, Settled, Reached, Live, Point, Slices

LEMMA HistoryMaxCount ==
    \A a, b \in Nat : a <= b /\ ~(a < HistoryMax) => ~(b < HistoryMax)
BY HistoryMaxAssumption

(* A write keeps what is known of every window: a slice is added to one    *)
(* that is there or replaced by one that has no less, unless the window is *)
(* reduced, and one that was trimmed is trimmed again.                     *)
LEMMA WriteStep ==
    ASSUME IInv, NEW p \in Writers, NEW from \in StoredWindows, NEW to \in StoredWindows,
           WriteWindows(p, from, to)
    PROVE  /\ Shape'
           /\ KnownPoints \subseteq KnownPoints'
           /\ ReachedWindows \subseteq ReachedWindows'
<1> DEFINE B == from .. to
           T == store.index \cup B
<1>1. /\ store.index \subseteq StoredWindows /\ IsFiniteSet(store.index)
      /\ store.slices \in [StoredWindows -> Hashes]
      /\ writes \in 0 .. MaxWrites /\ reduced \subseteq StoredWindows
  BY DEF IInv, Shape
<1>2. from \in Int /\ to \in Int
  BY WindowsAssumption
<1>3. B \subseteq StoredWindows /\ IsFiniteSet(B)
  BY <1>2, FS_Interval DEF WriteWindows
<1>4. PICK slices \in [B -> Contents[p]] :
        /\ store' = Write(store, {<<p, w, slices[w]>> : w \in B})
        /\ reduced' = reduced \cup {w \in B : Reduces(store.slices[w][p], slices[w])}
  BY DEF WriteWindows
<1>5. /\ writes < MaxWrites /\ writes' = writes + 1
      /\ UNCHANGED <<server, members, lastSent, link, chart, drops>>
  BY DEF WriteWindows, session
<1> HIDE DEF B
<1>6. /\ T \subseteq StoredWindows /\ IsFiniteSet(T)
      /\ store'.index = NewestOf(T, HistoryMax)
      /\ store'.slices = [w \in StoredWindows |-> store'.slices[w]]
      /\ \A w \in StoredWindows :
            store'.slices[w] = IF w \in T \ NewestOf(T, HistoryMax) THEN NoHash
                               ELSE Updated(store, p, B, slices, w)
  <2>1. T = store.index \cup B
    OBVIOUS
  <2>2. store' = Write(store, Entries(p, B, slices))
    BY <1>4 DEF Entries
  <2> HIDE DEF T
  <2> QED BY <1>1, <1>3, <2>1, <2>2, WriteFacts
<1>7. NoHash \in Hashes /\ NoHash = [q \in Writers |-> NoSlice]
  BY DEF Hashes, NoHash
<1>8. \A h : h \in Hashes <=> /\ h = [q \in Writers |-> h[q]]
                              /\ \A q \in Writers : h[q] \in {NoSlice} \cup Contents[q]
  <2>1. \A q \in Writers : Contents[q] \in Range(Contents)
    BY ContentsAssumption DEF Range
  <2>2. ASSUME NEW h, h = [q \in Writers |-> h[q]],
               \A q \in Writers : h[q] \in {NoSlice} \cup Contents[q]
        PROVE  h \in Hashes
    <3>1. \A q \in Writers : h[q] \in {NoSlice} \cup UNION Range(Contents)
      BY <2>1, <2>2
    <3>2. h \in [Writers -> {NoSlice} \cup UNION Range(Contents)]
      BY <2>2, <3>1
    <3> QED BY <2>2, <3>2 DEF Hashes
  <2>3. ASSUME NEW h \in Hashes
        PROVE  /\ h = [q \in Writers |-> h[q]]
               /\ \A q \in Writers : h[q] \in {NoSlice} \cup Contents[q]
    BY DEF Hashes
  <2> QED BY <2>2, <2>3
<1> DEFINE New(w) == [q \in Writers |-> IF q = p /\ w \in B THEN slices[w]
                                        ELSE store.slices[w][q]]
<1>9. ASSUME NEW w \in StoredWindows
      PROVE  /\ New(w) \in Hashes
             /\ There(store.slices[w]) \subseteq There(New(w))
             /\ w \notin reduced' =>
                  \A q \in There(store.slices[w]) : store.slices[w][q] \subseteq New(w)[q]
             /\ w \notin B => New(w) = store.slices[w]
  <2>1. store.slices[w] \in Hashes
    BY <1>1
  <2>2. store.slices[w] = [q \in Writers |-> store.slices[w][q]]
        /\ \A q \in Writers : store.slices[w][q] \in {NoSlice} \cup Contents[q]
    BY <1>8, <2>1
  <2>3. \A q \in Writers : New(w)[q] \in {NoSlice} \cup Contents[q]
    BY <1>4, <2>2
  <2>4. New(w) = [q \in Writers |-> New(w)[q]]
    OBVIOUS
  <2>5. \A q \in There(store.slices[w]) : q \in Writers /\ New(w)[q] # NoSlice
    BY <1>4, ContentsAssumption DEF There
  <2>8. ASSUME w \notin reduced', NEW q \in There(store.slices[w])
        PROVE  store.slices[w][q] \subseteq New(w)[q]
    <3>1. q \in Writers /\ store.slices[w][q] # NoSlice
      BY DEF There
    <3>2. CASE q = p /\ w \in B
      <4>1. ~Reduces(store.slices[w][p], slices[w])
        BY <1>4, <2>8, <3>2
      <4> QED BY <3>1, <3>2, <4>1 DEF Reduces
    <3>3. CASE ~(q = p /\ w \in B)
      BY <3>1, <3>3
    <3> QED BY <3>2, <3>3
  <2>6. There(store.slices[w]) \subseteq There(New(w))
    <3> HIDE DEF New
    <3> QED BY <2>5 DEF There
  <2>7. w \notin B => New(w) = store.slices[w]
    BY <2>2
  <2> HIDE DEF New
  <2> QED BY <1>8, <2>3, <2>4, <2>6, <2>7, <2>8
<1>10. \A w \in StoredWindows :
         store'.slices[w] = IF w \in T \ NewestOf(T, HistoryMax) THEN NoHash ELSE New(w)
  BY <1>6 DEF Updated
<1>11. \A w \in StoredWindows : store'.slices[w] \in Hashes
  <2> HIDE DEF New, T
  <2> QED BY <1>7, <1>9, <1>10
<1>12. /\ T \subseteq Int /\ store.index \subseteq Int /\ StoredWindows \subseteq Int
       /\ NewestOf(T, HistoryMax) \subseteq T
  <2>1. StoredWindows \subseteq Int
    BY WindowsAssumption
  <2>2. NewestOf(T, HistoryMax) \subseteq T
    BY DEF NewestOf
  <2> HIDE DEF T
  <2> QED BY <1>1, <1>6, <2>1, <2>2
<1>13. Shape'
  <2>1. store'.index \subseteq StoredWindows /\ IsFiniteSet(store'.index)
    <3>1. NewestOf(T, HistoryMax) \in SUBSET T
      BY <1>12
    <3> HIDE DEF T
    <3> QED BY <1>6, <3>1, FS_Subset
  <2>2. store'.slices \in [StoredWindows -> Hashes]
    BY <1>6, <1>11
  <2>3. writes' \in 0 .. MaxWrites
    BY <1>1, <1>5, BoundsAssumption
  <2>4. reduced' \subseteq StoredWindows
    BY <1>1, <1>3, <1>4
  <2>5. /\ server' \in Servers /\ members' \subseteq StoredWindows /\ IsFiniteSet(members')
        /\ lastSent' \in (StoredWindows \X Nat) \cup {Nothing}
        /\ link' \in Seq(Seq(Points)) /\ chart' \in Charts /\ drops' \in 0 .. MaxDrops
    BY <1>5 DEF IInv, Shape
  <2> QED BY <2>1, <2>2, <2>3, <2>4, <2>5 DEF Shape
<1>14. ASSUME NEW w \in StoredWindows, Reached(w) PROVE Reached(w)'
  <2>1. PICK v \in store.index : w <= v
    BY <1>14 DEF Reached
  <2>2. PICK u \in NewestOf(T, HistoryMax) : v <= u
    BY <1>6, <1>12, NewestReach, HistoryMaxAssumption
  <2>3. w \in Int /\ v \in Int /\ u \in Int
    BY <1>6, <1>12
  <2> HIDE DEF T
  <2>4. w <= u /\ u \in store'.index
    BY <1>6, <2>1, <2>2, <2>3
  <2> QED BY <2>4 DEF Reached
<1>15. ASSUME NEW w \in StoredWindows, ~(Cardinality(Above(T, w)) < HistoryMax)
       PROVE  ~(Cardinality(Above(store'.index, w)) < HistoryMax)
  <2>1. w \in Int
    BY <1>12
  <2> HIDE DEF T
  <2> QED BY <1>6, <1>12, <1>15, <2>1, NewestAbove, HistoryMaxAssumption
<1>16. ASSUME NEW w \in StoredWindows, ~(Cardinality(Above(store.index, w)) < HistoryMax)
       PROVE  ~(Cardinality(Above(T, w)) < HistoryMax)
  <2>1. Above(store.index, w) \in SUBSET Above(T, w)
    BY DEF Above
  <2>2. /\ Cardinality(Above(store.index, w)) <= Cardinality(Above(T, w))
        /\ Cardinality(Above(store.index, w)) \in Nat /\ Cardinality(Above(T, w)) \in Nat
    <3> HIDE DEF T
    <3> QED BY <1>1, <1>6, <1>12, <2>1, AboveFacts
  <2> QED BY <1>16, <2>2, HistoryMaxCount
<1>17. ASSUME NEW pt \in Points, Settled(pt) PROVE Settled(pt)'
  <2> DEFINE w == pt[1]
  <2>1. w \in StoredWindows /\ pt[2] \in Nat /\ pt[3] \in Nat
    BY DEF Points
  <2>2. store.slices[w] \in Hashes /\ store'.slices[w] \in Hashes
    BY <1>1, <1>11, <2>1
  <2> SUFFICES ASSUME w \notin reduced' PROVE Settled(pt)'
    BY DEF Settled
  <2>6. w \notin reduced
    BY <1>4
  <2> HIDE DEF w
  <2>3. CASE w \in T \ NewestOf(T, HistoryMax)
    <3>1. ~(Cardinality(Above(T, w)) < HistoryMax)
      BY <2>3 DEF NewestOf
    <3>2. ~Live(w)'
      BY <1>10, <2>1, <2>3 DEF Live
    <3>3. ~(Cardinality(Above(store'.index, w)) < HistoryMax)
      BY <1>15, <2>1, <3>1
    <3> QED BY <3>2, <3>3 DEF Settled, w
  <2>4. CASE w \notin T \ NewestOf(T, HistoryMax) /\ Live(w)
    <3>1. store'.slices[w] = New(w)
      BY <1>10, <2>1, <2>4
    <3>2. There(store.slices[w]) # {}
      <4>1. store.slices[w] = [q \in Writers |-> store.slices[w][q]]
        BY <1>8, <2>2
      <4>2. store.slices[w] # [q \in Writers |-> NoSlice]
        BY <1>7, <2>4 DEF Live
      <4>3. PICK q \in Writers : store.slices[w][q] # NoSlice
        BY <4>1, <4>2
      <4> QED BY <4>3 DEF There
    <3>3. /\ There(store.slices[w]) \subseteq There(store'.slices[w])
          /\ \A q \in There(store.slices[w]) : store.slices[w][q] \subseteq store'.slices[w][q]
      <4> HIDE DEF New
      <4> QED BY <1>9, <2>1, <3>1
    <3>4. Live(w)'
      <4>1. PICK q \in Writers : store'.slices[w][q] # NoSlice
        BY <3>2, <3>3 DEF There
      <4> QED BY <1>7, <4>1 DEF Live
    <3>5. /\ TotalOf(store.slices[w]) <= TotalOf(store'.slices[w])
          /\ BotsOf(store.slices[w]) <= BotsOf(store'.slices[w])
      BY <2>2, <3>3, MoreSlices
    <3>6. /\ Point(w) = <<w, TotalOf(store.slices[w]), BotsOf(store.slices[w])>>
          /\ Point(w)' = <<w, TotalOf(store'.slices[w]), BotsOf(store'.slices[w])>>
      <4>1. Point(w) = <<w, TotalOf(store.slices[w]), BotsOf(store.slices[w])>>
        BY <2>2, PointFacts
      <4>2. Point(w)' = <<w, TotalOf(store'.slices[w]), BotsOf(store'.slices[w])>>
        BY <2>2, PointAfterwards
      <4> QED BY <4>1, <4>2
    <3>7. /\ TotalOf(store.slices[w]) \in Nat /\ BotsOf(store.slices[w]) \in Nat
          /\ TotalOf(store'.slices[w]) \in Nat /\ BotsOf(store'.slices[w]) \in Nat
      BY <2>2, PointOfHash
    <3>8. pt[2] <= TotalOf(store.slices[w]) /\ pt[3] <= BotsOf(store.slices[w])
      BY <1>17, <2>4, <2>6, <3>6 DEF Settled, w
    <3>9. pt[2] <= TotalOf(store'.slices[w]) /\ pt[3] <= BotsOf(store'.slices[w])
      BY <2>1, <3>5, <3>7, <3>8
    <3>10. pt[2] <= Point(w)'[2] /\ pt[3] <= Point(w)'[3]
      BY <3>6, <3>9
    <3> QED BY <3>4, <3>10 DEF Settled, w
  <2>5. CASE w \notin T \ NewestOf(T, HistoryMax) /\ ~Live(w)
    <3>1. ~(Cardinality(Above(store.index, w)) < HistoryMax)
      BY <1>17, <2>5, <2>6 DEF Settled, w
    <3>2. ~(Cardinality(Above(T, w)) < HistoryMax)
      BY <1>16, <2>1, <3>1
    <3>3. w \notin NewestOf(T, HistoryMax)
      BY <3>2 DEF NewestOf
    <3>4. w \notin B
      BY <2>5, <3>3
    <3>5. store'.slices[w] = store.slices[w]
      <4> HIDE DEF New, T
      <4> QED BY <1>9, <1>10, <2>1, <2>5, <3>4
    <3>6. ~Live(w)'
      BY <2>5, <3>5 DEF Live
    <3>7. ~(Cardinality(Above(store'.index, w)) < HistoryMax)
      BY <1>15, <2>1, <3>2
    <3> QED BY <3>6, <3>7 DEF Settled, w
  <2> QED BY <2>3, <2>4, <2>5
<1>18. ASSUME NEW pt \in Points, Known(pt) PROVE Known(pt)'
  <2>1. Settled(pt)' /\ pt[1] \in StoredWindows /\ Reached(pt[1])
    BY <1>17, <1>18 DEF Known, Points
  <2>2. Reached(pt[1])'
    BY <1>14, <2>1
  <2> QED BY <2>1, <2>2 DEF Known
<1>19. KnownPoints \subseteq KnownPoints'
  BY <1>18 DEF KnownPoints
<1>20. ReachedWindows \subseteq ReachedWindows'
  BY <1>14 DEF ReachedWindows
<1> QED BY <1>13, <1>19, <1>20

(* What expires takes the window with it, and no other.                    *)
LEMMA ExpireStep ==
    ASSUME IInv, NEW x \in StoredWindows, Expire(x)
    PROVE  /\ Shape'
           /\ KnownPoints \subseteq KnownPoints'
           /\ ReachedWindows \subseteq ReachedWindows'
<1>1. /\ store.index \subseteq StoredWindows /\ IsFiniteSet(store.index)
      /\ store.slices \in [StoredWindows -> Hashes] /\ reduced \subseteq StoredWindows
  BY DEF IInv, Shape
<1>2. /\ store' = [store EXCEPT !.slices[x] = NoHash] /\ reduced' = reduced \cup {x}
      /\ UNCHANGED <<writes, server, members, lastSent, link, chart, drops>>
  BY DEF Expire, ExpireHash, session
<1>3. store'.index = store.index
  BY <1>2
<1>4. /\ store'.slices = [store.slices EXCEPT ![x] = NoHash]
      /\ \A w \in StoredWindows : w # x => store'.slices[w] = store.slices[w]
  BY <1>1, <1>2
<1>5. Shape'
  <2>1. NoHash \in Hashes
    BY DEF Hashes, NoHash
  <2>2. store'.slices \in [StoredWindows -> Hashes]
    BY <1>1, <1>4, <2>1
  <2> QED BY <1>1, <1>2, <1>3, <2>2 DEF IInv, Shape
<1>6. ASSUME NEW pt \in Points, Settled(pt), pt[1] \notin reduced' PROVE Settled(pt)'
  <2>1. pt[1] # x /\ pt[1] \notin reduced /\ store'.slices[pt[1]] = store.slices[pt[1]]
    BY <1>2, <1>4, <1>6 DEF Points
  <2>2. Point(pt[1])' = Point(pt[1]) /\ Live(pt[1])' = Live(pt[1])
    BY <2>1 DEF Point, Slices, Live
  <2> QED BY <1>3, <1>6, <2>1, <2>2 DEF Settled
<1>7. \A w : Reached(w) => Reached(w)'
  BY <1>3 DEF Reached
<1>8. ASSUME NEW pt \in KnownPoints PROVE pt \in KnownPoints'
  <2>1. pt \in Points /\ Settled(pt) /\ Reached(pt[1])
    BY DEF KnownPoints, Known
  <2>2. Settled(pt)'
    BY <1>6, <2>1 DEF Settled
  <2> QED BY <1>7, <2>1, <2>2 DEF KnownPoints, Known
<1>9. ReachedWindows \subseteq ReachedWindows'
  BY <1>7 DEF ReachedWindows
<1> QED BY <1>5, <1>8, <1>9

(* The point that is read of a window that is there is known.              *)
LEMMA ReadPoint ==
    ASSUME Shape, NEW w \in ReachedWindows, Live(w)
    PROVE  Point(w) \in KnownPoints /\ Point(w)[1] = w /\ Point(w)[2] \in Nat
<1>1. w \in StoredWindows /\ Reached(w) /\ store.slices[w] \in Hashes
  BY DEF ReachedWindows, Shape
<1>2. /\ Point(w) = <<w, TotalOf(store.slices[w]), BotsOf(store.slices[w])>>
      /\ Point(w) \in Points
  BY <1>1, PointFacts
<1>3. Point(w)[1] = w /\ Point(w)[2] \in Nat /\ Point(w)[3] \in Nat
  <2>1. \A pt \in Points : pt[2] \in Nat /\ pt[3] \in Nat
    BY DEF Points
  <2> QED BY <1>2, <2>1
<1>4. Point(w)[2] <= Point(w)[2] /\ Point(w)[3] <= Point(w)[3]
  BY <1>3
<1>5. Settled(Point(w))
  BY <1>3, <1>4 DEF Settled
<1> QED BY <1>1, <1>2, <1>3, <1>5 DEF KnownPoints, Known

LEMMA KnownFacts ==
    ASSUME Shape
    PROVE  /\ KnownPoints \subseteq Points
           /\ \A pt \in Points : pt[1] \in StoredWindows /\ pt[1] \in Nat
           /\ \A pt \in KnownPoints : \E v \in store.index : pt[1] <= v
           /\ store.index \subseteq Nat
<1>1. \A pt \in Points : pt[1] \in StoredWindows
  BY DEF Points
<1>2. StoredWindows \subseteq Nat
  BY WindowsAssumption
<1>3. store.index \subseteq StoredWindows
  BY DEF Shape
<1> QED BY <1>1, <1>2, <1>3 DEF KnownPoints, Known, Reached

LEMMA RedisKeeps ==
    ASSUME IInv,
           \/ \E p \in Writers, from, to \in StoredWindows : WriteWindows(p, from, to)
           \/ \E w \in StoredWindows : Expire(w)
    PROVE  IInv'
<1>1. Shape' /\ KnownPoints \subseteq KnownPoints' /\ ReachedWindows \subseteq ReachedWindows'
  BY WriteStep, ExpireStep
<1>2. UNCHANGED <<server, members, lastSent, link, chart, drops>>
  BY DEF WriteWindows, Expire, session
<1>3. SentAreKnown'
  BY <1>1, <1>2 DEF IInv, SentAreKnown
<1>4. Forward'
  BY <1>2 DEF IInv, Forward
<1> QED BY <1>1, <1>3, <1>4 DEF IInv

LEMMA ConnectKeeps ==
    ASSUME IInv, Connect PROVE IInv'
<1>1. /\ server = "closed" /\ server' = "history" /\ lastSent' = Nothing
      /\ UNCHANGED <<store, writes, reduced, members, link, chart, drops>>
  BY DEF Connect, redis
<1>2. Shape'
  BY <1>1 DEF IInv, Shape, Servers
<1>3. KnownPoints' = KnownPoints /\ ReachedWindows' = ReachedWindows
  BY <1>1, SameStore
<1>4. SentAreKnown'
  BY <1>1, <1>3 DEF IInv, SentAreKnown
<1>5. Forward'
  BY <1>1 DEF IInv, Forward
<1> QED BY <1>2, <1>4, <1>5 DEF IInv

LEMMA DropKeeps ==
    ASSUME IInv, Drop PROVE IInv'
<1>1. /\ drops < MaxDrops /\ drops' = drops + 1 /\ server' = "closed" /\ members' = {}
      /\ lastSent' = Nothing /\ link' = <<>>
      /\ UNCHANGED <<store, writes, reduced, chart>>
  BY DEF Drop, redis
<1>2. Shape'
  <2>1. <<>> \in Seq(Seq(Points)) /\ IsFiniteSet({})
    BY FS_EmptySet
  <2>2. drops' \in 0 .. MaxDrops
    BY <1>1, BoundsAssumption DEF IInv, Shape
  <2> QED BY <1>1, <2>1, <2>2 DEF IInv, Shape, Servers
<1>3. KnownPoints' = KnownPoints /\ ReachedWindows' = ReachedWindows
  BY <1>1, SameStore
<1>4. SentAreKnown'
  BY <1>1, <1>3 DEF IInv, SentAreKnown
<1>5. /\ Cardinality(Backs(chart)) < drops + 1
      /\ Cardinality(Backs(chart)) <= drops + 1
  <2>1. Cardinality(Backs(chart)) \in Nat /\ drops \in Nat
    BY BacksFinite, BoundsAssumption DEF IInv, Shape, Charts
  <2>2. Cardinality(Backs(chart)) <= drops
    BY DEF IInv, Forward
  <2> QED BY <2>1, <2>2
<1>6. Forward'
  BY <1>1, <1>5 DEF Forward, Onward, InOrder, Since, Until, Owed
<1> QED BY <1>2, <1>4, <1>6 DEF IInv

LEMMA ReadKeeps ==
    ASSUME IInv, ReadIndex PROVE IInv'
<1>1. /\ server \in {"history", "latest"}
      /\ server' = IF server = "history" THEN "fetch history" ELSE "fetch latest"
      /\ members' \subseteq store.index
      /\ server = "latest" =>
           \A w \in members' : Cardinality({v \in store.index : v > w}) < 1
      /\ UNCHANGED <<store, writes, reduced, lastSent, link, chart, drops>>
  BY DEF ReadIndex, redis, Newest
<1>2. store.index \subseteq StoredWindows /\ IsFiniteSet(store.index)
  BY DEF IInv, Shape
<1>3. StoredWindows \subseteq Nat
  BY WindowsAssumption
<1>4. Shape'
  <2>1. IsFiniteSet(members')
    BY <1>1, <1>2, FS_Subset
  <2> QED BY <1>1, <1>2, <2>1 DEF IInv, Shape, Servers
<1>5. KnownPoints' = KnownPoints /\ ReachedWindows' = ReachedWindows
  BY <1>1, SameStore
<1>6. members' \subseteq ReachedWindows
  <2>1. \A w \in store.index : w \in Nat
    BY <1>2, <1>3
  <2>2. \A w \in store.index : w <= w
    BY <2>1
  <2> QED BY <1>1, <1>2, <2>2 DEF ReachedWindows, Reached
<1>7. SentAreKnown'
  BY <1>1, <1>5, <1>6 DEF IInv, SentAreKnown
<1>8. ASSUME server = "latest", NEW w \in members'
      PROVE  \A pt \in KnownPoints : pt[1] <= w
  <2>1. w \in store.index /\ Cardinality(Above(store.index, w)) < 1
    BY <1>1, <1>8 DEF Above
  <2>2. Above(store.index, w) = {}
    <3>1. store.index \subseteq Int
      <4>1. \A v \in store.index : v \in Nat
        BY <1>2, <1>3
      <4> QED BY <4>1
    <3>2. IsFiniteSet(Above(store.index, w)) /\ Cardinality(Above(store.index, w)) \in Nat
      BY <1>2, <3>1, AboveFacts
    <3>3. Cardinality(Above(store.index, w)) = 0
      BY <2>1, <3>2
    <3> QED BY <3>2, <3>3, FS_EmptySet
  <2>3. \A v \in store.index : ~(v > w)
    BY <2>2 DEF Above
  <2> SUFFICES ASSUME NEW pt \in KnownPoints PROVE pt[1] <= w
    OBVIOUS
  <2>4. Shape
    BY DEF IInv
  <2>5. PICK v \in store.index : pt[1] <= v
    BY <2>4, KnownFacts
  <2>6. pt[1] \in Nat /\ v \in Nat /\ w \in Nat
    BY <2>1, <2>4, KnownFacts
  <2> QED BY <2>3, <2>5, <2>6
<1>9. server = "latest" => \A w \in members' :
        /\ Until(link, w)
        /\ chart # <<>> => chart[Len(chart)][1] <= w
  <2> SUFFICES ASSUME server = "latest", NEW w \in members'
               PROVE  Until(link, w) /\ (chart # <<>> => chart[Len(chart)][1] <= w)
    OBVIOUS
  <2>1. \A i \in 1 .. Len(link) : \A j \in 1 .. Len(link[i]) : link[i][j] \in KnownPoints
    BY DEF IInv, SentAreKnown
  <2>2. Until(link, w)
    BY <1>8, <2>1 DEF Until
  <2>3. chart # <<>> => chart[Len(chart)] \in KnownPoints
    <3>1. chart \in Seq(Points)
      BY DEF IInv, Shape, Charts
    <3>2. chart # <<>> => Len(chart) \in 1 .. Len(chart)
      BY <3>1
    <3> QED BY <3>2 DEF IInv, SentAreKnown
  <2> QED BY <1>8, <2>2, <2>3
<1>10. /\ server = "latest" <=> server' = "fetch latest"
       /\ server = "history" <=> server' = "fetch history"
       /\ server' \notin {"closed", "history", "latest"}
  BY <1>1
<1>12. chart = <<>> => Owed(chart, drops)
  BY DEF Owed
<1>13. Forward
  BY DEF IInv
<1>14. server' = "fetch latest" => \A w \in members' : Until(link', w)
  BY <1>1, <1>9, <1>10
<1>15. server' \in {"closed", "history", "fetch history"} => link' = <<>> /\ Owed(chart', drops')
  BY <1>1, <1>10, <1>13 DEF Forward
<1>16. \/ Owed(chart', drops')
       \/ /\ Since(link', chart'[Len(chart')][1])
          /\ server' = "fetch latest" => \A w \in members' : chart'[Len(chart')][1] <= w
  <2>1. CASE Owed(chart, drops)
    BY <1>1, <2>1
  <2>2. CASE ~Owed(chart, drops)
    <3>1. Since(link, chart[Len(chart)][1])
      BY <1>13, <2>2 DEF Forward
    <3>2. Since(link', chart'[Len(chart')][1])
      BY <1>1, <3>1
    <3>3. server' = "fetch latest" => \A w \in members' : chart'[Len(chart')][1] <= w
      BY <1>1, <1>9, <1>10, <1>12, <2>2
    <3> QED BY <3>2, <3>3
  <2> QED BY <2>1, <2>2
<1>17. Forward'
  BY <1>1, <1>13, <1>14, <1>15, <1>16 DEF Forward
<1> QED BY <1>4, <1>7, <1>17 DEF IInv

LEMMA SentFacts ==
    ASSUME NEW ms \in Seq(Seq(Points)), NEW m \in Seq(Points)
    PROVE  /\ Append(ms, m) \in Seq(Seq(Points))
           /\ Len(Append(ms, m)) = Len(ms) + 1 /\ Len(ms) \in Nat /\ Len(m) \in Nat
           /\ \A i \in 1 .. Len(ms) : Append(ms, m)[i] = ms[i]
           /\ Append(ms, m)[Len(ms) + 1] = m
           /\ \A i \in 1 .. Len(ms) + 1 : i \in 1 .. Len(ms) \/ i = Len(ms) + 1
<1>1. \A i \in 1 .. Len(ms) + 1 : i \in 1 .. Len(ms) \/ i = Len(ms) + 1
  <2>1. Len(ms) \in Nat
    OBVIOUS
  <2> QED BY <2>1
<1> QED BY <1>1

(* A message of later windows joins the others.                            *)
LEMMA SentOnward ==
    ASSUME NEW ms \in Seq(Seq(Points)), NEW m \in Seq(Points), Onward(ms), InOrder(m),
           \A j \in 1 .. Len(m) : Until(ms, m[j][1])
    PROVE  Onward(Append(ms, m))
<1> DEFINE l == Append(ms, m)
<1>1. /\ Len(l) = Len(ms) + 1 /\ Len(ms) \in Nat
      /\ \A i \in 1 .. Len(ms) : l[i] = ms[i]
      /\ l[Len(ms) + 1] = m
      /\ \A i \in 1 .. Len(l) : i \in 1 .. Len(ms) \/ i = Len(ms) + 1
  <2>1. Len(l) = Len(ms) + 1
    BY SentFacts
  <2> HIDE DEF l
  <2> QED BY <2>1, SentFacts DEF l
<1> HIDE DEF l
<1>2. \A i \in 1 .. Len(l) : InOrder(l[i])
  BY <1>1 DEF Onward
<1>3. ASSUME NEW i \in 1 .. Len(l), NEW k \in 1 .. Len(l), i < k,
             NEW j \in 1 .. Len(l[i]), NEW n \in 1 .. Len(l[k])
      PROVE  l[i][j][1] <= l[k][n][1]
  <2>1. CASE k \in 1 .. Len(ms)
    <3>1. i \in 1 .. Len(ms)
      BY <1>1, <1>3, <2>1
    <3>2. l[i] = ms[i] /\ l[k] = ms[k]
      BY <1>1, <2>1, <3>1
    <3> QED BY <1>3, <2>1, <3>1, <3>2 DEF Onward
  <2>2. CASE k = Len(ms) + 1
    <3>1. i \in 1 .. Len(ms)
      BY <1>1, <1>3, <2>2
    <3>2. l[i] = ms[i] /\ l[k] = m
      BY <1>1, <2>2, <3>1
    <3>3. Until(ms, m[n][1])
      BY <3>2
    <3> QED BY <1>3, <3>1, <3>2, <3>3 DEF Until
  <2> QED BY <1>1, <2>1, <2>2
<1>4. Onward(l)
  BY <1>2, <1>3 DEF Onward
<1> QED BY <1>4 DEF l

LEMMA SentSince ==
    ASSUME NEW ms \in Seq(Seq(Points)), NEW m \in Seq(Points), NEW w, Since(ms, w),
           \A j \in 1 .. Len(m) : w <= m[j][1]
    PROVE  Since(Append(ms, m), w)
<1> DEFINE l == Append(ms, m)
<1>1. /\ Len(l) = Len(ms) + 1 /\ Len(ms) \in Nat
      /\ \A i \in 1 .. Len(ms) : l[i] = ms[i]
      /\ l[Len(ms) + 1] = m
      /\ \A i \in 1 .. Len(ms) + 1 : i \in 1 .. Len(ms) \/ i = Len(ms) + 1
  BY SentFacts
<1> HIDE DEF l
<1>2. ASSUME NEW i \in 1 .. Len(l), NEW j \in 1 .. Len(l[i]) PROVE w <= l[i][j][1]
  <2>1. CASE i \in 1 .. Len(ms)
    BY <1>1, <2>1 DEF Since
  <2>2. CASE i = Len(ms) + 1
    BY <1>1, <2>2
  <2> QED BY <1>1, <2>1, <2>2
<1>3. Since(l, w)
  BY <1>2 DEF Since
<1> QED BY <1>3 DEF l

LEMMA SentKnown ==
    ASSUME NEW ms \in Seq(Seq(Points)), NEW m \in Seq(Points),
           \A i \in 1 .. Len(ms) : \A j \in 1 .. Len(ms[i]) : ms[i][j] \in KnownPoints,
           \A j \in 1 .. Len(m) : m[j] \in KnownPoints
    PROVE  \A i \in 1 .. Len(Append(ms, m)) :
              \A j \in 1 .. Len(Append(ms, m)[i]) : Append(ms, m)[i][j] \in KnownPoints
<1> DEFINE l == Append(ms, m)
<1>1. /\ Len(l) = Len(ms) + 1 /\ Len(ms) \in Nat
      /\ \A i \in 1 .. Len(ms) : l[i] = ms[i]
      /\ l[Len(ms) + 1] = m
      /\ \A i \in 1 .. Len(ms) + 1 : i \in 1 .. Len(ms) \/ i = Len(ms) + 1
  BY SentFacts
<1> HIDE DEF l
<1>2. ASSUME NEW i \in 1 .. Len(l), NEW j \in 1 .. Len(l[i]) PROVE l[i][j] \in KnownPoints
  <2>1. CASE i \in 1 .. Len(ms)
    BY <1>1, <2>1
  <2>2. CASE i = Len(ms) + 1
    BY <1>1, <2>2
  <2> QED BY <1>1, <2>1, <2>2
<1> QED BY <1>2 DEF l

(* What is read for the history is known, and its windows ascend.          *)
LEMMA HistoryFacts ==
    ASSUME Shape, members \subseteq ReachedWindows
    PROVE  LET found == Ascending({w \in members : Live(w)})
               m == [i \in DOMAIN found |-> Point(found[i])]
           IN  /\ m \in Seq(Points) /\ InOrder(m)
               /\ \A i \in 1 .. Len(m) : m[i] \in KnownPoints
<1> DEFINE S == {w \in members : Live(w)}
           f == Ascending(S)
           n == Cardinality(S)
           m == [i \in DOMAIN f |-> Point(f[i])]
<1>1. IsFiniteSet(members) /\ S \in SUBSET members /\ members \subseteq StoredWindows
  BY DEF Shape
<1>2. IsFiniteSet(S) /\ n \in Nat
  BY <1>1, FS_Subset, FS_CardinalityType
<1>3. S \subseteq Int /\ \A w \in S : Live(w) /\ w \in ReachedWindows
  <2>1. \A w \in S : w \in StoredWindows /\ Live(w) /\ w \in ReachedWindows
    BY <1>1
  <2>2. \A w \in StoredWindows : w \in Int
    BY WindowsAssumption
  <2> HIDE DEF S
  <2> QED BY <2>1, <2>2
<1> HIDE DEF S
<1>4. f \in [1 .. n -> S] /\ \A i, j \in 1 .. n : i < j => f[i] < f[j]
  <2>1. \E g \in [1 .. n -> S] : \A i, j \in DOMAIN g : i < j => g[i] < g[j]
    <3>1. PICK g \in [1 .. n -> S] : \A i, j \in 1 .. n : i < j => g[i] < g[j]
      BY <1>2, <1>3, OrderExists
    <3>2. DOMAIN g = 1 .. n
      OBVIOUS
    <3> HIDE DEF n
    <3> QED BY <3>1, <3>2
  <2>2. f \in [1 .. n -> S] /\ \A i, j \in DOMAIN f : i < j => f[i] < f[j]
    BY <2>1 DEF Ascending
  <2> QED BY <2>2
<1> HIDE DEF f, n
<1>5. /\ DOMAIN m = 1 .. n
      /\ \A i \in 1 .. n : m[i] = Point(f[i])
  BY <1>4
<1>6. ASSUME NEW i \in 1 .. n
      PROVE  m[i] \in KnownPoints /\ m[i] \in Points /\ m[i][1] = f[i]
  <2>1. f[i] \in S /\ f[i] \in ReachedWindows /\ Live(f[i])
    BY <1>3, <1>4
  <2>2. Point(f[i]) \in KnownPoints /\ Point(f[i])[1] = f[i]
    BY <2>1, ReadPoint
  <2> HIDE DEF m
  <2> QED BY <1>5, <2>2 DEF KnownPoints
<1>7. m = [i \in 1 .. n |-> m[i]]
  BY <1>5
<1> HIDE DEF m
<1>8. m \in Seq(Points) /\ Len(m) = n
  <2>1. m \in [1 .. n -> Points]
    BY <1>6, <1>7
  <2> QED BY <1>2, <2>1
<1>9. InOrder(m)
  BY <1>4, <1>6, <1>8 DEF InOrder
<1>10. \A i \in 1 .. Len(m) : m[i] \in KnownPoints
  BY <1>6, <1>8
<1> QED BY <1>8, <1>9, <1>10 DEF m, f, S

LEMMA HistoryKeeps ==
    ASSUME IInv, SendHistory PROVE IInv'
<1>1. PICK m \in Seq(Points) :
        /\ InOrder(m) /\ \A i \in 1 .. Len(m) : m[i] \in KnownPoints
        /\ link' = Append(link, m)
  <2> DEFINE found == Ascending({w \in members : Live(w)})
             m == [i \in DOMAIN found |-> Point(found[i])]
  <2>1. m \in Seq(Points) /\ InOrder(m) /\ \A i \in 1 .. Len(m) : m[i] \in KnownPoints
    BY HistoryFacts DEF IInv, SentAreKnown
  <2>2. link' = Append(link, m)
    BY DEF SendHistory, redis
  <2> HIDE DEF m
  <2> QED BY <2>1, <2>2
<1>2. /\ server = "fetch history" /\ server' = "latest" /\ members' = {}
      /\ UNCHANGED <<store, writes, reduced, lastSent, chart, drops>>
  BY DEF SendHistory, redis
<1>3. link \in Seq(Seq(Points)) /\ Onward(link) /\ link = <<>> /\ Owed(chart, drops)
  BY <1>2 DEF IInv, Shape, Forward
<1>4. Shape'
  <2>1. link' \in Seq(Seq(Points))
    BY <1>1, <1>3, SentFacts
  <2> QED BY <1>2, <2>1, FS_EmptySet DEF IInv, Shape, Servers
<1>5. KnownPoints' = KnownPoints /\ ReachedWindows' = ReachedWindows
  BY <1>2, SameStore
<1>6. \A i \in 1 .. Len(link') : \A j \in 1 .. Len(link'[i]) : link'[i][j] \in KnownPoints
  BY <1>1, <1>3, SentKnown DEF IInv, SentAreKnown
<1>7. SentAreKnown'
  BY <1>2, <1>5, <1>6 DEF IInv, SentAreKnown
<1>8. Onward(link')
  <2>1. \A j \in 1 .. Len(m) : Until(link, m[j][1])
    BY <1>3 DEF Until
  <2> QED BY <1>1, <1>3, <2>1, SentOnward
<1>9. Forward'
  BY <1>2, <1>3, <1>8 DEF IInv, Forward
<1> QED BY <1>4, <1>7, <1>9 DEF IInv

LEMMA LatestKeeps ==
    ASSUME IInv, SendLatest PROVE IInv'
<1> DEFINE found == {w \in members : Live(w)}
           w == CHOOSE v \in found : TRUE
           changed == found # {} /\ Fingerprint(Point(w)) # lastSent
<1>1. /\ server = "fetch latest" /\ server' = "latest" /\ members' = {}
      /\ link' = (IF changed THEN Append(link, <<Point(w)>>) ELSE link)
      /\ lastSent' = (IF changed THEN Fingerprint(Point(w)) ELSE lastSent)
      /\ UNCHANGED <<store, writes, reduced, chart, drops>>
  BY DEF SendLatest, redis
<1>2. KnownPoints' = KnownPoints /\ ReachedWindows' = ReachedWindows
  BY <1>1, SameStore
<1>3. /\ link \in Seq(Seq(Points)) /\ Onward(link)
      /\ \A v \in members : Until(link, v)
      /\ \/ Owed(chart, drops)
         \/ /\ Since(link, chart[Len(chart)][1])
            /\ \A v \in members : chart[Len(chart)][1] <= v
  BY <1>1 DEF IInv, Shape, Forward
<1>4. CASE changed
  <2>1. w \in members /\ w \in ReachedWindows /\ Live(w)
    <3>1. w \in found
      BY <1>4
    <3> QED BY <3>1 DEF IInv, SentAreKnown
  <2> DEFINE pt == Point(w)
             m == <<pt>>
  <2> HIDE DEF changed, w, found
  <2>2. pt \in KnownPoints /\ pt[1] = w /\ pt[2] \in Nat /\ pt \in Points /\ w \in StoredWindows
    BY <2>1, ReadPoint DEF IInv, KnownPoints, ReachedWindows
  <2>3. link' = Append(link, <<pt>>) /\ lastSent' = <<pt[1], pt[2]>>
    BY <1>1, <1>4 DEF Fingerprint
  <2> HIDE DEF pt
  <2>4. /\ <<pt>> \in Seq(Points) /\ Len(<<pt>>) = 1 /\ <<pt>>[1] = pt
        /\ \A j \in 1 .. Len(<<pt>>) : <<pt>>[j] = pt /\ j = 1
    BY <2>2
  <2> DEFINE s == <<pt>>
  <2>5. /\ s \in Seq(Points) /\ \A j \in 1 .. Len(s) : s[j] = pt /\ j = 1
        /\ link' = Append(link, s)
    BY <2>3, <2>4
  <2> HIDE DEF s
  <2>6. Shape'
    <3>1. link' \in Seq(Seq(Points))
      BY <1>3, <2>5, SentFacts
    <3>2. lastSent' \in StoredWindows \X Nat
      BY <2>2, <2>3
    <3>3. lastSent' \in (StoredWindows \X Nat) \cup {Nothing}
      BY <3>2
    <3>4. Shape
      BY DEF IInv
    <3> QED BY <1>1, <3>1, <3>3, <3>4, FS_EmptySet DEF Shape, Servers
  <2>7. \A i \in 1 .. Len(link') : \A j \in 1 .. Len(link'[i]) : link'[i][j] \in KnownPoints
    BY <1>3, <2>2, <2>5, SentKnown DEF IInv, SentAreKnown
  <2>8. SentAreKnown'
    BY <1>1, <1>2, <2>7 DEF IInv, SentAreKnown
  <2>9. Onward(link')
    <3>1. InOrder(s)
      BY <2>5 DEF InOrder
    <3>2. \A j \in 1 .. Len(s) : Until(link, s[j][1])
      BY <1>3, <2>1, <2>2, <2>5
    <3> QED BY <1>3, <2>5, <3>1, <3>2, SentOnward
  <2>10. Owed(chart, drops) \/ Since(link', chart[Len(chart)][1])
    <3> SUFFICES ASSUME ~Owed(chart, drops) PROVE Since(link', chart[Len(chart)][1])
      OBVIOUS
    <3>1. /\ Since(link, chart[Len(chart)][1])
          /\ \A j \in 1 .. Len(s) : chart[Len(chart)][1] <= s[j][1]
      BY <1>3, <2>1, <2>2, <2>5
    <3> QED BY <1>3, <2>5, <3>1, SentSince
  <2>11. Forward'
    BY <1>1, <2>9, <2>10 DEF IInv, Forward
  <2> QED BY <2>6, <2>8, <2>11 DEF IInv
<1>5. CASE ~changed
  <2>1. server' = "latest" /\ members' = {} /\ UNCHANGED <<store, writes, reduced, link, lastSent, chart, drops>>
    BY <1>1, <1>5
  <2> HIDE DEF changed, w, found
  <2>2. Shape'
    BY <2>1, FS_EmptySet DEF IInv, Shape, Servers
  <2>3. SentAreKnown'
    BY <1>2, <2>1 DEF IInv, SentAreKnown
  <2>4. Forward'
    BY <1>1, <1>3, <2>1 DEF IInv, Forward
  <2> QED BY <2>2, <2>3, <2>4 DEF IInv
<1> QED BY <1>4, <1>5

LEMMA ReceiveKeeps ==
    ASSUME IInv, Receive PROVE IInv'
<1> DEFINE m == Head(link)
           d == FoldLeft(PushPoint, chart, m)
           last == Len(chart)
<1>1. /\ link # <<>> /\ chart' = d /\ link' = Tail(link)
      /\ UNCHANGED <<store, writes, reduced, server, members, lastSent, drops>>
  BY DEF Receive, redis, session
<1>2. link \in Seq(Seq(Points)) /\ chart \in Charts /\ chart \in Seq(Points)
  BY DEF IInv, Shape, Charts
<1>3. KnownPoints' = KnownPoints /\ ReachedWindows' = ReachedWindows
  BY <1>1, SameStore
<1>4. /\ Len(link) \in Nat /\ Len(link) > 0 /\ m = link[1] /\ m \in Seq(Points)
      /\ link' \in Seq(Seq(Points)) /\ Len(link') = Len(link) - 1
      /\ \A i \in 1 .. Len(link') : i + 1 \in 1 .. Len(link) /\ link'[i] = link[i + 1]
  <2>1. /\ m = link[1] /\ m \in Seq(Points) /\ Tail(link) \in Seq(Seq(Points))
        /\ Len(link) \in Nat /\ Len(link) > 0 /\ Len(Tail(link)) = Len(link) - 1
        /\ \A i \in 1 .. Len(link) - 1 : Tail(link)[i] = link[i + 1]
    BY <1>1, <1>2
  <2> HIDE DEF m, d
  <2> QED BY <1>1, <2>1
<1> HIDE DEF m, d
<1>5. /\ Onward(link)
      /\ \A i \in 1 .. Len(link) : \A j \in 1 .. Len(link[i]) : link[i][j] \in KnownPoints
      /\ \A i \in 1 .. Len(chart) : chart[i] \in KnownPoints
  BY DEF IInv, Forward, SentAreKnown
<1>6. InOrder(m)
  BY <1>4, <1>5 DEF Onward
<1>7. /\ d \in Charts
      /\ m = <<>> => d = chart
      /\ m # <<>> => d # <<>> /\ d[Len(d)] = m[Len(m)]
      /\ \A i \in 1 .. Len(d) : (\E j \in 1 .. Len(m) : d[i] = m[j])
                                \/ (\E j \in 1 .. Len(chart) : d[i] = chart[j])
      /\ Cardinality(Backs(d)) <= Cardinality(Backs(chart)) + 1
      /\ chart = <<>> \/ m = <<>> \/ chart[Len(chart)][1] <= m[1][1] =>
           Cardinality(Backs(d)) <= Cardinality(Backs(chart))
  BY <1>2, <1>4, <1>6, ReceiveFacts DEF InOrder, d
<1>8. Shape'
  BY <1>1, <1>4, <1>7 DEF IInv, Shape
<1>9. \A i \in 1 .. Len(link') : \A j \in 1 .. Len(link'[i]) : link'[i][j] \in KnownPoints
  BY <1>4, <1>5
<1>10. \A i \in 1 .. Len(d) : d[i] \in KnownPoints
  <2>1. \A j \in 1 .. Len(m) : m[j] \in KnownPoints
    BY <1>4, <1>5
  <2> QED BY <1>5, <1>7, <2>1
<1>11. SentAreKnown'
  BY <1>1, <1>3, <1>9, <1>10 DEF IInv, SentAreKnown
<1>12. Onward(link')
  <2>1. \A i \in 1 .. Len(link') : InOrder(link'[i])
    BY <1>4, <1>5 DEF Onward
  <2>2. ASSUME NEW i \in 1 .. Len(link'), NEW k \in 1 .. Len(link'), i < k,
               NEW j \in 1 .. Len(link'[i]), NEW n \in 1 .. Len(link'[k])
        PROVE  link'[i][j][1] <= link'[k][n][1]
    <3>1. i + 1 < k + 1
      BY <1>4, <2>2
    <3> QED BY <1>4, <1>5, <2>2, <3>1 DEF Onward
  <2> QED BY <2>1, <2>2 DEF Onward
<1>13. server = "fetch latest" => \A w \in members : Until(link', w)
  <2>1. ASSUME NEW w, Until(link, w) PROVE Until(link', w)
    BY <1>4, <2>1 DEF Until
  <2> QED BY <2>1 DEF IInv, Forward
<1>14. server \notin {"closed", "history", "fetch history"}
  BY <1>1 DEF IInv, Forward
<1>15. /\ Cardinality(Backs(chart)) \in Nat /\ Cardinality(Backs(d)) \in Nat
       /\ drops \in Nat /\ Cardinality(Backs(chart)) <= drops
  <2>1. drops \in Nat
    BY BoundsAssumption DEF IInv, Shape
  <2>2. Cardinality(Backs(chart)) <= drops
    BY DEF IInv, Forward
  <2> QED BY <1>2, <1>7, <2>1, <2>2, BacksFinite DEF Charts
<1>16. Owed(chart, drops) \/ Cardinality(Backs(d)) <= Cardinality(Backs(chart))
  <2> SUFFICES ASSUME ~Owed(chart, drops), m # <<>>
               PROVE  chart[Len(chart)][1] <= m[1][1]
    BY <1>7
  <2>1. Since(link, chart[Len(chart)][1])
    BY DEF IInv, Forward
  <2>2. 1 \in 1 .. Len(m) /\ 1 \in 1 .. Len(link)
    BY <1>4
  <2> QED BY <1>4, <2>1, <2>2 DEF Since
<1>17. Cardinality(Backs(d)) <= drops
  <2>1. CASE chart = <<>>
    BY <1>7, <1>15, <2>1
  <2>2. CASE chart # <<>> /\ Owed(chart, drops)
    BY <1>7, <1>15, <2>2 DEF Owed
  <2>3. CASE ~Owed(chart, drops)
    BY <1>15, <1>16, <2>3
  <2> QED BY <2>1, <2>2, <2>3
<1>18. \/ Owed(d, drops)
       \/ /\ Since(link', d[Len(d)][1])
          /\ server = "fetch latest" => \A w \in members : d[Len(d)][1] <= w
  <2>1. CASE m = <<>>
    <3>1. d = chart
      BY <1>7, <2>1
    <3>2. ASSUME NEW w, Since(link, w) PROVE Since(link', w)
      BY <1>4, <3>2 DEF Since
    <3> QED BY <3>1, <3>2 DEF IInv, Forward
  <2>2. CASE m # <<>>
    <3>1. Len(m) \in 1 .. Len(m) /\ d[Len(d)] = m[Len(m)] /\ 1 \in 1 .. Len(link)
      BY <1>4, <1>7, <2>2
    <3>2. Since(link', m[Len(m)][1])
      <4>1. ASSUME NEW i \in 1 .. Len(link'), NEW j \in 1 .. Len(link'[i])
            PROVE  m[Len(m)][1] <= link'[i][j][1]
        <5>1. 1 < i + 1 /\ i + 1 \in 1 .. Len(link) /\ link'[i] = link[i + 1]
          BY <1>4
        <5> QED BY <1>4, <1>5, <3>1, <5>1 DEF Onward
      <4> QED BY <4>1 DEF Since
    <3>3. server = "fetch latest" => \A w \in members : m[Len(m)][1] <= w
      BY <1>4, <3>1 DEF IInv, Forward, Until
    <3> QED BY <3>1, <3>2, <3>3
  <2> QED BY <2>1, <2>2
<1>19. Forward'
  BY <1>1, <1>12, <1>13, <1>14, <1>17, <1>18 DEF Forward
<1> QED BY <1>8, <1>11, <1>19 DEF IInv

LEMMA StepKeeps == IInv /\ [Next]_vars => IInv'
<1> SUFFICES ASSUME IInv, [Next]_vars PROVE IInv'
  OBVIOUS
<1>1. ASSUME \/ \E p \in Writers, from, to \in StoredWindows : WriteWindows(p, from, to)
             \/ \E w \in StoredWindows : Expire(w)
      PROVE  IInv'
  BY <1>1, RedisKeeps
<1>2. CASE Connect
  BY <1>2, ConnectKeeps
<1>3. CASE ReadIndex
  BY <1>3, ReadKeeps
<1>4. CASE SendHistory
  BY <1>4, HistoryKeeps
<1>5. CASE SendLatest
  BY <1>5, LatestKeeps
<1>6. CASE Drop
  BY <1>6, DropKeeps
<1>7. CASE Receive
  BY <1>7, ReceiveKeeps
<1>8. CASE UNCHANGED vars
  <2>1. UNCHANGED <<store, writes, reduced, server, members, lastSent, link, chart, drops>>
    BY <1>8 DEF vars, redis, session
  <2>2. KnownPoints' = KnownPoints /\ ReachedWindows' = ReachedWindows
    BY <2>1, SameStore
  <2>3. Shape'
    BY <2>1 DEF IInv, Shape
  <2>4. SentAreKnown'
    BY <2>1, <2>2 DEF IInv, SentAreKnown
  <2>5. Forward'
    BY <2>1 DEF IInv, Forward
  <2> QED BY <2>3, <2>4, <2>5 DEF IInv
<1> QED BY <1>1, <1>2, <1>3, <1>4, <1>5, <1>6, <1>7, <1>8 DEF Next

LEMMA AlwaysIInv == Spec => []IInv
BY InitIInv, StepKeeps, PTL DEF Spec

-----------------------------------------------------------------------------
(* What follows from it                                                    *)

(* Redis, the connection and the chart keep their shape, for any number of *)
(* partitions, windows, messages on their way and points.                  *)
THEOREM LiveTypeCorrect == Spec => []TypeOK
<1>1. ASSUME IInv PROVE TypeOK
  <2>1. Shape
    BY <1>1 DEF IInv
  <2>2. ASSUME NEW w \in StoredWindows, NEW p \in Writers
        PROVE  store.slices[w][p] \in Contents[p] \cup {NoSlice}
    <3>1. store.slices[w] \in Hashes
      BY <2>1 DEF Shape
    <3> QED BY <3>1 DEF Hashes
  <2>3. \A i \in 1 .. Len(link) : \A j \in 1 .. Len(link[i]) : link[i][j] \in Points
    <3>1. link \in Seq(Seq(Points))
      BY <2>1 DEF Shape
    <3>2. \A i \in 1 .. Len(link) : link[i] \in Seq(Points)
      BY <3>1
    <3> QED BY <3>2
  <2>4. Len(chart) <= MaxPoints /\ \A i \in 1 .. Len(chart) : chart[i] \in Points
    BY <2>1 DEF Shape, Charts
  <2> QED BY <2>1, <2>2, <2>3, <2>4 DEF TypeOK, Shape
<1> QED BY <1>1, AlwaysIInv, PTL

(* The chart goes back in time no more often than the connection broke,    *)
(* wherever writes and trims fall between the reads of ws() and pushPoint. *)
THEOREM LiveForward == Spec => []ForwardWhileConnected
<1>1. IInv => ForwardWhileConnected
  BY DEF IInv, Forward, ForwardWhileConnected, StepsBack, Backs
<1> QED BY <1>1, AlwaysIInv, PTL

(* What the chart shows of a window in Redis is no more than its hash      *)
(* holds, unless a rewrite or expiry took something from it: trimming      *)
(* never lets a window come back with less.                                *)
THEOREM LiveNeverMore == Spec => []NeverMoreThanWritten
<1>1. ASSUME IInv PROVE NeverMoreThanWritten
  <2>1. ASSUME NEW i \in 1 .. Len(chart), Live(chart[i][1]), chart[i][1] \notin reduced
        PROVE  /\ chart[i][2] <= Point(chart[i][1])[2]
               /\ chart[i][3] <= Point(chart[i][1])[3]
    <3>1. Settled(chart[i])
      BY <1>1 DEF IInv, SentAreKnown, KnownPoints, Known
    <3> QED BY <2>1, <3>1 DEF Settled
  <2> QED BY <2>1 DEF NeverMoreThanWritten
<1> QED BY <1>1, AlwaysIInv, PTL

(* Whichever slices of a window are in Redis, merging them gives what one  *)
(* summary of their events would have said, up to the cut of the editors.  *)
THEOREM LiveMergeExact == Spec => []MergeIsExact
<1>1. ASSUME IInv PROVE MergeIsExact
  <2>1. \A w \in StoredWindows : store.slices[w] \in Hashes
    BY <1>1 DEF IInv, Shape
  <2> QED BY <2>1, EveryMergeIsFaithful DEF MergeIsExact
<1> QED BY <1>1, AlwaysIInv, PTL
=============================================================================
