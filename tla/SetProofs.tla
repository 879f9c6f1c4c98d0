----------------------------- MODULE SetProofs -----------------------------
(***************************************************************************)
(* Folds and sums over finite sets, and the newest members of a set.  The  *)
(* induction theorems of the library take a predicate as a parameter; here *)
(* an induction is over a set of the objects for which the predicate       *)
(* holds.                                                                  *)
(***************************************************************************)
EXTENDS FiniteSetsExt, FiniteSetTheorems, WellFoundedInduction, TLAPS

LEMMA NatInduct ==
    ASSUME NEW P, 0 \in P, \A n \in Nat : n \in P => n + 1 \in P
    PROVE  Nat \subseteq P
<1> DEFINE Q == Nat \ P
<1> SUFFICES ASSUME Q # {} PROVE FALSE
  OBVIOUS
<1>1. IsWellFoundedOn(OpToRel(<, Nat), Nat)
  BY NatLessThanWellFounded
<1>2. PICK m \in Q : \A n \in Q : ~ <<n, m>> \in OpToRel(<, Nat)
  <2> HIDE DEF Q
  <2>1. Q \subseteq Nat
    BY DEF Q
  <2> QED BY <1>1, <2>1, WFMin
<1>3. m \in Nat /\ m # 0 /\ m \notin P
  OBVIOUS
<1>4. m - 1 \in Nat /\ m - 1 < m /\ (m - 1) + 1 = m
  BY <1>3
<1>5. m - 1 \in P
  BY <1>2, <1>4 DEF OpToRel
<1> QED BY <1>3, <1>4, <1>5

LEMMA OneElementLess ==
    ASSUME NEW T, IsFiniteSet(T), NEW x \in T
    PROVE  /\ IsFiniteSet(T \ {x})
           /\ Cardinality(T \ {x}) = Cardinality(T) - 1
           /\ Cardinality(T) \in Nat \ {0}
<1>1. Cardinality(T) \in Nat
  BY FS_CardinalityType
<1>2. Cardinality(T) # 0
  BY FS_EmptySet
<1>3. IsFiniteSet(T \ {x})
  BY FS_RemoveElement
<1>4. Cardinality(T \ {x}) = Cardinality(T) - 1
  BY FS_RemoveElement
<1> QED BY <1>1, <1>2, <1>3, <1>4

(* What holds of the empty set, and of any part of S with one element more *)
(* when it holds of the part, holds of S.                                  *)
LEMMA SetInduct ==
    ASSUME NEW S, IsFiniteSet(S), NEW P, {} \in P,
           \A T \in SUBSET S : \A x \in S \ T : T \in P => T \cup {x} \in P
    PROVE  S \in P
<1> DEFINE N == {n \in Nat : \A T \in SUBSET S : Cardinality(T) = n => T \in P}
<1>1. 0 \in N
  <2> SUFFICES ASSUME NEW T \in SUBSET S, Cardinality(T) = 0 PROVE T \in P
    OBVIOUS
  <2>1. T = {}
    BY FS_Subset, FS_EmptySet
  <2> QED BY <2>1
<1>2. ASSUME NEW n \in Nat, n \in N PROVE n + 1 \in N
  <2> SUFFICES ASSUME NEW T \in SUBSET S, Cardinality(T) = n + 1 PROVE T \in P
    OBVIOUS
  <2>1. IsFiniteSet(T)
    BY FS_Subset
  <2>2. T # {}
    BY <2>1, FS_EmptySet
  <2>3. PICK x \in T : TRUE
    BY <2>2
  <2>4. Cardinality(T \ {x}) = n
    <3>1. Cardinality(T \ {x}) = Cardinality(T) - 1
      BY <2>1, OneElementLess
    <3> QED BY <3>1
  <2>5. T \ {x} \in P /\ x \in S \ (T \ {x}) /\ T = (T \ {x}) \cup {x}
    BY <1>2, <2>4
  <2> QED BY <2>5
<1>3. Cardinality(S) \in Nat
  BY FS_CardinalityType
<1>4. Nat \subseteq N
  <2> HIDE DEF N
  <2> QED BY <1>1, <1>2, NatInduct
<1> QED BY <1>3, <1>4

-----------------------------------------------------------------------------
(* A fold: g[T] is made of the element that pick takes from T and of what  *)
(* the rest is folded to.                                                  *)
Folds(g, S, base, step, pick) ==
    g = [T \in SUBSET S |->
            IF T = {} THEN base ELSE step[pick[T]][g[T \ {pick[T]}]]]

(* Recursion over the parts of a finite set defines a function.            *)
LEMMA FoldExists ==
    ASSUME NEW S, IsFiniteSet(S), NEW V, NEW base \in V, NEW step,
           \A x \in S : \A v \in V : step[x][v] \in V,
           NEW pick, \A T \in SUBSET S : T # {} => pick[T] \in T
    PROVE  \E g \in [SUBSET S -> V] : Folds(g, S, base, step, pick)
<1> DEFINE Small(n) == {T \in SUBSET S : Cardinality(T) <= n}
           Rest(T) == T \ {pick[T]}
           N == {n \in Nat : \E g \in [Small(n) -> V] :
                    \A T \in Small(n) :
                        g[T] = IF T = {} THEN base ELSE step[pick[T]][g[Rest(T)]]}
<1>1. \A T \in SUBSET S : IsFiniteSet(T) /\ Cardinality(T) \in Nat
  BY FS_Subset, FS_CardinalityType
<1>2. \A T \in SUBSET S : T # {} =>
        Cardinality(Rest(T)) = Cardinality(T) - 1 /\ Rest(T) \in SUBSET S
  BY <1>1, OneElementLess
<1>3. 0 \in N
  <2>1. Small(0) \subseteq {{}}
    <3> SUFFICES ASSUME NEW T \in SUBSET S, Cardinality(T) <= 0 PROVE T = {}
      OBVIOUS
    <3>1. IsFiniteSet(T) /\ Cardinality(T) = 0
      BY <1>1
    <3> QED BY <3>1, FS_EmptySet
  <2> DEFINE g == [T \in Small(0) |-> base]
  <2>2. g \in [Small(0) -> V] /\ \A T \in Small(0) : g[T] = base /\ T = {}
    BY <2>1
  <2> QED BY <2>2
<1>4. ASSUME NEW n \in Nat, n \in N PROVE n + 1 \in N
  <2>1. PICK g \in [Small(n) -> V] : \A T \in Small(n) :
            g[T] = IF T = {} THEN base ELSE step[pick[T]][g[Rest(T)]]
    BY <1>4
  <2> DEFINE h == [T \in Small(n + 1) |->
                      IF T = {} THEN base ELSE step[pick[T]][g[Rest(T)]]]
  <2>2. \A T \in Small(n + 1) : T # {} => Rest(T) \in Small(n)
    <3> SUFFICES ASSUME NEW T \in SUBSET S, Cardinality(T) <= n + 1, T # {}
                 PROVE  Rest(T) \in SUBSET S /\ Cardinality(Rest(T)) <= n
      OBVIOUS
    <3>1. Cardinality(T) \in Nat
      BY <1>1
    <3>2. Cardinality(Rest(T)) = Cardinality(T) - 1 /\ Rest(T) \in SUBSET S
      BY <1>2
    <3> QED BY <3>1, <3>2
  <2>3. Small(n) \subseteq Small(n + 1)
    <3> SUFFICES ASSUME NEW T \in SUBSET S, Cardinality(T) <= n
                 PROVE  Cardinality(T) <= n + 1
      OBVIOUS
    <3>1. Cardinality(T) \in Nat
      BY <1>1
    <3> QED BY <3>1
  <2>4. Small(n + 1) \subseteq SUBSET S
    OBVIOUS
  <2> HIDE DEF Small, Rest
  <2>5. ASSUME NEW T \in Small(n + 1), T # {}
        PROVE  /\ pick[T] \in S
               /\ g[Rest(T)] \in V
               /\ h[Rest(T)] = g[Rest(T)]
    <3>1. Rest(T) \in Small(n)
      BY <2>2, <2>5
    <3>2. pick[T] \in S
      BY <2>4, <2>5
    <3>3. g[Rest(T)] \in V
      BY <3>1
    <3>4. h[Rest(T)] = IF Rest(T) = {} THEN base
                       ELSE step[pick[Rest(T)]][g[Rest(Rest(T))]]
      BY <3>1, <2>3
    <3>5. g[Rest(T)] = IF Rest(T) = {} THEN base
                       ELSE step[pick[Rest(T)]][g[Rest(Rest(T))]]
      BY <3>1, <2>1
    <3> QED BY <3>2, <3>3, <3>4, <3>5
  <2>6. h \in [Small(n + 1) -> V]
    <3> SUFFICES ASSUME NEW T \in Small(n + 1)
                 PROVE  (IF T = {} THEN base ELSE step[pick[T]][g[Rest(T)]]) \in V
      OBVIOUS
    <3>1. T # {} => step[pick[T]][g[Rest(T)]] \in V
      <4> SUFFICES ASSUME T # {} PROVE step[pick[T]][g[Rest(T)]] \in V
        OBVIOUS
      <4>1. pick[T] \in S /\ g[Rest(T)] \in V
        BY <2>5
      <4> QED BY <4>1
    <3> QED BY <3>1
  <2>7. \A T \in Small(n + 1) :
            h[T] = IF T = {} THEN base ELSE step[pick[T]][h[Rest(T)]]
    <3> SUFFICES ASSUME NEW T \in Small(n + 1)
                 PROVE  h[T] = IF T = {} THEN base ELSE step[pick[T]][h[Rest(T)]]
      OBVIOUS
    <3>1. h[T] = IF T = {} THEN base ELSE step[pick[T]][g[Rest(T)]]
      OBVIOUS
    <3> HIDE DEF h
    <3> QED BY <3>1, <2>5
  <2> HIDE DEF h
  <2>8. \E k \in [Small(n + 1) -> V] : \A T \in Small(n + 1) :
            k[T] = IF T = {} THEN base ELSE step[pick[T]][k[Rest(T)]]
    BY <2>6, <2>7
  <2>9. n + 1 \in Nat
    OBVIOUS
  <2> QED BY <2>8, <2>9, Zenon
<1>5. Cardinality(S) \in N
  <2>1. Nat \subseteq N
    <3> HIDE DEF N
    <3> QED BY <1>3, <1>4, NatInduct
  <2> HIDE DEF N
  <2> QED BY <1>1, <2>1
<1>6. Small(Cardinality(S)) = SUBSET S
  BY FS_Subset
<1>7. PICK g \in [SUBSET S -> V] : \A T \in SUBSET S :
          g[T] = IF T = {} THEN base ELSE step[pick[T]][g[Rest(T)]]
  BY <1>5, <1>6
<1>8. g = [T \in SUBSET S |-> IF T = {} THEN base ELSE step[pick[T]][g[Rest(T)]]]
  BY <1>7
<1> QED BY <1>8 DEF Folds

-----------------------------------------------------------------------------
SumOver(f, S) == MapThenSumSet(LAMBDA x : f[x], S)

Adds(g, f, S) ==
    g = [T \in SUBSET S |->
            IF T = {} THEN 0
            ELSE f[CHOOSE x \in T : TRUE] + g[T \ {CHOOSE x \in T : TRUE}]]

(* There is one function that adds, and MapThenSumSet is its value.        *)
LEMMA AddsExists ==
    ASSUME NEW S, IsFiniteSet(S), NEW f, \A x \in S : f[x] \in Nat
    PROVE  \E g \in [SUBSET S -> Nat] : Adds(g, f, S)
<1> DEFINE step == [x \in S |-> [n \in Nat |-> f[x] + n]]
           pick == [T \in SUBSET S |-> CHOOSE x \in T : TRUE]
<1>1. \A x \in S : \A n \in Nat : step[x][n] = f[x] + n /\ step[x][n] \in Nat
  OBVIOUS
<1>2. \A T \in SUBSET S : T # {} =>
        pick[T] \in T /\ pick[T] \in S /\ pick[T] = CHOOSE x \in T : TRUE
  OBVIOUS
<1> HIDE DEF step, pick
<1>3. PICK g \in [SUBSET S -> Nat] : Folds(g, S, 0, step, pick)
  BY <1>1, <1>2, FoldExists
<1>4. g = [T \in SUBSET S |->
              IF T = {} THEN 0 ELSE step[pick[T]][g[T \ {pick[T]}]]]
  BY <1>3 DEF Folds
<1>5. \A T \in SUBSET S :
        g[T] = IF T = {} THEN 0
               ELSE f[CHOOSE x \in T : TRUE] + g[T \ {CHOOSE x \in T : TRUE}]
  <2> SUFFICES ASSUME NEW T \in SUBSET S
               PROVE  g[T] = IF T = {} THEN 0
                             ELSE f[CHOOSE x \in T : TRUE]
                                    + g[T \ {CHOOSE x \in T : TRUE}]
    OBVIOUS
  <2>1. g[T] = IF T = {} THEN 0 ELSE step[pick[T]][g[T \ {pick[T]}]]
    BY <1>4
  <2>2. CASE T = {}
    BY <2>1, <2>2
  <2>3. CASE T # {}
    <3>1. pick[T] \in S /\ g[T \ {pick[T]}] \in Nat
      BY <1>2, <2>3
    <3>2. g[T] = f[pick[T]] + g[T \ {pick[T]}]
      BY <1>1, <2>1, <2>3, <3>1
    <3> QED BY <1>2, <2>3, <3>2
  <2> QED BY <2>2, <2>3
<1>6. Adds(g, f, S)
  BY <1>5 DEF Adds
<1> QED BY <1>6

LEMMA AddsOf ==
    ASSUME NEW S, NEW f, NEW g, Adds(g, f, S)
    PROVE  \A T \in SUBSET S :
             g[T] = IF T = {} THEN 0
                    ELSE f[CHOOSE x \in T : TRUE] + g[T \ {CHOOSE x \in T : TRUE}]
<1>1. g = [T \in SUBSET S |->
             IF T = {} THEN 0
             ELSE f[CHOOSE x \in T : TRUE] + g[T \ {CHOOSE x \in T : TRUE}]]
  BY DEF Adds
<1> QED BY <1>1

LEMMA AddsUnique ==
    ASSUME NEW S, IsFiniteSet(S), NEW f, NEW g, Adds(g, f, S),
           NEW R, S \subseteq R, NEW h, Adds(h, f, R)
    PROVE  \A T \in SUBSET S : g[T] = h[T]
<1> DEFINE N == {n \in Nat : \A T \in SUBSET S : Cardinality(T) = n => g[T] = h[T]}
<1>1. \A T \in SUBSET S : IsFiniteSet(T) /\ Cardinality(T) \in Nat
  BY FS_Subset, FS_CardinalityType
<1>2. /\ \A T \in SUBSET S :
           g[T] = IF T = {} THEN 0
                  ELSE f[CHOOSE x \in T : TRUE] + g[T \ {CHOOSE x \in T : TRUE}]
      /\ \A T \in SUBSET S :
           h[T] = IF T = {} THEN 0
                  ELSE f[CHOOSE x \in T : TRUE] + h[T \ {CHOOSE x \in T : TRUE}]
  <2>1. g = [T \in SUBSET S |->
               IF T = {} THEN 0
               ELSE f[CHOOSE x \in T : TRUE] + g[T \ {CHOOSE x \in T : TRUE}]]
    BY DEF Adds
  <2>2. h = [T \in SUBSET R |->
               IF T = {} THEN 0
               ELSE f[CHOOSE x \in T : TRUE] + h[T \ {CHOOSE x \in T : TRUE}]]
    BY DEF Adds
  <2>3. \A T \in SUBSET S :
           g[T] = IF T = {} THEN 0
                  ELSE f[CHOOSE x \in T : TRUE] + g[T \ {CHOOSE x \in T : TRUE}]
    BY <2>1
  <2>4. \A T \in SUBSET S :
           h[T] = IF T = {} THEN 0
                  ELSE f[CHOOSE x \in T : TRUE] + h[T \ {CHOOSE x \in T : TRUE}]
    BY <2>2
  <2> QED BY <2>3, <2>4
<1>3. 0 \in N
  <2> SUFFICES ASSUME NEW T \in SUBSET S, Cardinality(T) = 0 PROVE g[T] = h[T]
    OBVIOUS
  <2>1. T = {}
    BY <1>1, FS_EmptySet
  <2> QED BY <1>2, <2>1
<1>4. ASSUME NEW n \in Nat, n \in N PROVE n + 1 \in N
  <2> SUFFICES ASSUME NEW T \in SUBSET S, Cardinality(T) = n + 1 PROVE g[T] = h[T]
    OBVIOUS
  <2>1. T # {}
    BY <1>1, FS_EmptySet
  <2> DEFINE x == CHOOSE x \in T : TRUE
  <2>2. x \in T
    BY <2>1
  <2>3. g[T] = f[x] + g[T \ {x}] /\ h[T] = f[x] + h[T \ {x}]
    BY <1>2, <2>1
  <2> HIDE DEF x
  <2>4. Cardinality(T \ {x}) = n /\ T \ {x} \in SUBSET S
    <3>1. Cardinality(T \ {x}) = Cardinality(T) - 1
      BY <1>1, <2>2, OneElementLess
    <3> QED BY <3>1
  <2>5. g[T \ {x}] = h[T \ {x}]
    BY <1>4, <2>4
  <2> QED BY <2>3, <2>5
<1>5. Nat \subseteq N
  <2> HIDE DEF N
  <2> QED BY <1>3, <1>4, NatInduct
<1> QED BY <1>1, <1>5

(* The sum is the value of any function that adds.                         *)
LEMMA SumIs ==
    ASSUME NEW S, IsFiniteSet(S), NEW f, \A x \in S : f[x] \in Nat,
           NEW R, S \subseteq R, NEW g, Adds(g, f, R)
    PROVE  g[S] = SumOver(f, S)
<1> DEFINE h == CHOOSE h :
        h = [T \in SUBSET S |->
               IF T = {} THEN 0
               ELSE f[CHOOSE x \in T : TRUE] + h[T \ {CHOOSE x \in T : TRUE}]]
<1>1. SumOver(f, S) = h[S]
  BY DEF SumOver, MapThenSumSet, MapThenFoldSet
<1>2. PICK k : Adds(k, f, S)
  BY AddsExists
<1>3. k = [T \in SUBSET S |->
             IF T = {} THEN 0
             ELSE f[CHOOSE x \in T : TRUE] + k[T \ {CHOOSE x \in T : TRUE}]]
  BY <1>2 DEF Adds
<1>4. h = [T \in SUBSET S |->
             IF T = {} THEN 0
             ELSE f[CHOOSE x \in T : TRUE] + h[T \ {CHOOSE x \in T : TRUE}]]
  BY <1>3, Zenon
<1> HIDE DEF h
<1>5. Adds(h, f, S)
  BY <1>4, Zenon DEF Adds
<1>6. h[S] = g[S]
  BY <1>5, AddsUnique
<1> QED BY <1>1, <1>6

LEMMA SumEmpty ==
    ASSUME NEW f
    PROVE  SumOver(f, {}) = 0
<1>1. IsFiniteSet({})
  BY FS_EmptySet
<1>2. PICK g : Adds(g, f, {})
  BY <1>1, AddsExists
<1>3. g[{}] = 0
  BY <1>2, AddsOf
<1>4. g[{}] = SumOver(f, {})
  BY <1>1, <1>2, SumIs
<1> QED BY <1>3, <1>4

LEMMA SumNat ==
    ASSUME NEW S, IsFiniteSet(S), NEW f, \A x \in S : f[x] \in Nat
    PROVE  SumOver(f, S) \in Nat
<1>1. PICK g \in [SUBSET S -> Nat] : Adds(g, f, S)
  BY AddsExists
<1>2. g[S] = SumOver(f, S)
  BY <1>1, SumIs
<1> QED BY <1>2

(* Whatever is taken out first.                                            *)
LEMMA SumRemove ==
    ASSUME NEW S, IsFiniteSet(S), NEW f, \A x \in S : f[x] \in Nat, NEW a \in S
    PROVE  SumOver(f, S) = f[a] + SumOver(f, S \ {a})
<1>1. PICK g \in [SUBSET S -> Nat] : Adds(g, f, S)
  BY AddsExists
<1> DEFINE N == {n \in Nat : \A T \in SUBSET S : Cardinality(T) = n =>
                                \A x \in T : g[T] = f[x] + g[T \ {x}]}
<1>2. \A T \in SUBSET S : IsFiniteSet(T) /\ Cardinality(T) \in Nat
  BY FS_Subset, FS_CardinalityType
<1>3. 0 \in N
  <2> SUFFICES ASSUME NEW T \in SUBSET S, Cardinality(T) = 0 PROVE T = {}
    OBVIOUS
  <2> QED BY <1>2, FS_EmptySet
<1>4. ASSUME NEW n \in Nat, n \in N PROVE n + 1 \in N
  <2> SUFFICES ASSUME NEW T \in SUBSET S, Cardinality(T) = n + 1, NEW x \in T
               PROVE  g[T] = f[x] + g[T \ {x}]
    OBVIOUS
  <2> DEFINE y == CHOOSE y \in T : TRUE
  <2>1. y \in T
    OBVIOUS
  <2>2. g[T] = f[y] + g[T \ {y}]
    BY <1>1, AddsOf
  <2> HIDE DEF y
  <2>3. CASE x = y
    BY <2>2, <2>3
  <2>4. CASE x # y
    <3>1. Cardinality(T \ {y}) = n /\ Cardinality(T \ {x}) = n
      <4>1. Cardinality(T \ {y}) = Cardinality(T) - 1
        BY <1>2, <2>1, OneElementLess
      <4>2. Cardinality(T \ {x}) = Cardinality(T) - 1
        BY <1>2, OneElementLess
      <4> QED BY <4>1, <4>2
    <3>2. g[T \ {y}] = f[x] + g[(T \ {y}) \ {x}]
      BY <1>4, <2>4, <3>1
    <3>3. g[T \ {x}] = f[y] + g[(T \ {x}) \ {y}]
      BY <1>4, <2>1, <2>4, <3>1
    <3>4. (T \ {y}) \ {x} = (T \ {x}) \ {y}
      OBVIOUS
    <3>5. f[x] \in Nat /\ f[y] \in Nat /\ g[(T \ {x}) \ {y}] \in Nat
      BY <1>1, <2>1
    <3>6. g[T \ {y}] = f[x] + g[(T \ {x}) \ {y}]
      BY <3>2, <3>4
    <3> HIDE DEF N
    <3> QED BY <2>2, <3>3, <3>5, <3>6
  <2> QED BY <2>3, <2>4
<1>5. Nat \subseteq N
  <2> HIDE DEF N
  <2> QED BY <1>3, <1>4, NatInduct
<1>6. g[S] = f[a] + g[S \ {a}]
  BY <1>2, <1>5
<1>7. g[S] = SumOver(f, S)
  BY <1>1, SumIs
<1>8. g[S \ {a}] = SumOver(f, S \ {a})
  BY <1>1, <1>2, SumIs
<1> QED BY <1>6, <1>7, <1>8

LEMMA SumAdd ==
    ASSUME NEW S, IsFiniteSet(S), NEW a, a \notin S,
           NEW f, \A x \in S \cup {a} : f[x] \in Nat
    PROVE  SumOver(f, S \cup {a}) = f[a] + SumOver(f, S)
<1>1. IsFiniteSet(S \cup {a}) /\ (S \cup {a}) \ {a} = S
  BY FS_AddElement
<1> QED BY <1>1, SumRemove

(* What is more in every place is more in sum.                             *)
LEMMA SumMono ==
    ASSUME NEW S, IsFiniteSet(S), NEW f, NEW h,
           \A x \in S : f[x] \in Nat /\ h[x] \in Nat /\ f[x] <= h[x]
    PROVE  SumOver(f, S) <= SumOver(h, S)
<1> DEFINE P == {T \in SUBSET S : SumOver(f, T) <= SumOver(h, T)}
<1>1. {} \in P
  BY SumEmpty
<1>2. ASSUME NEW T \in SUBSET S, NEW x \in S \ T, T \in P PROVE T \cup {x} \in P
  <2>1. IsFiniteSet(T)
    BY FS_Subset
  <2>2. SumOver(f, T) \in Nat /\ SumOver(h, T) \in Nat
    BY <2>1, SumNat
  <2>3. SumOver(f, T \cup {x}) = f[x] + SumOver(f, T)
    BY <2>1, SumAdd
  <2>4. SumOver(h, T \cup {x}) = h[x] + SumOver(h, T)
    BY <2>1, SumAdd
  <2> QED BY <1>2, <2>2, <2>3, <2>4
<1>3. S \in P
  <2> HIDE DEF P
  <2> QED BY <1>1, <1>2, SetInduct
<1> QED BY <1>3

LEMMA SumSame ==
    ASSUME NEW S, IsFiniteSet(S), NEW f, NEW h,
           \A x \in S : f[x] \in Nat /\ h[x] = f[x]
    PROVE  SumOver(f, S) = SumOver(h, S)
<1>1. SumOver(f, S) <= SumOver(h, S) /\ SumOver(h, S) <= SumOver(f, S)
  BY SumMono
<1>2. SumOver(f, S) \in Nat /\ SumOver(h, S) \in Nat
  BY SumNat
<1> QED BY <1>1, <1>2

LEMMA SumSplit ==
    ASSUME NEW S, IsFiniteSet(S), NEW f, \A x \in S : f[x] \in Nat,
           NEW R \in SUBSET S
    PROVE  SumOver(f, S) = SumOver(f, R) + SumOver(f, S \ R)
<1> DEFINE P == {T \in SUBSET S :
                    SumOver(f, T) = SumOver(f, R \cap T) + SumOver(f, T \ R)}
<1>1. {} \in P
  <2>1. R \cap {} = {} /\ {} \ R = {}
    OBVIOUS
  <2> QED BY <2>1, SumEmpty
<1>2. ASSUME NEW T \in SUBSET S, NEW x \in S \ T, T \in P PROVE T \cup {x} \in P
  <2>1. IsFiniteSet(T) /\ IsFiniteSet(R \cap T) /\ IsFiniteSet(T \ R)
    BY FS_Subset
  <2>2. /\ SumOver(f, T) \in Nat /\ SumOver(f, R \cap T) \in Nat
        /\ SumOver(f, T \ R) \in Nat /\ f[x] \in Nat
    BY <2>1, SumNat
  <2>3. SumOver(f, T \cup {x}) = f[x] + SumOver(f, T)
    BY <2>1, SumAdd
  <2>4. SumOver(f, T) = SumOver(f, R \cap T) + SumOver(f, T \ R)
    BY <1>2
  <2>5. CASE x \in R
    <3>1. /\ R \cap (T \cup {x}) = (R \cap T) \cup {x} /\ x \notin R \cap T
          /\ (T \cup {x}) \ R = T \ R
      BY <2>5
    <3>2. SumOver(f, (R \cap T) \cup {x}) = f[x] + SumOver(f, R \cap T)
      BY <2>1, <3>1, SumAdd
    <3>3. SumOver(f, R \cap (T \cup {x})) = f[x] + SumOver(f, R \cap T)
      BY <3>1, <3>2
    <3>4. SumOver(f, (T \cup {x}) \ R) = SumOver(f, T \ R)
      BY <3>1
    <3>5. SumOver(f, T \cup {x})
            = SumOver(f, R \cap (T \cup {x})) + SumOver(f, (T \cup {x}) \ R)
      BY <2>2, <2>3, <2>4, <3>3, <3>4
    <3> QED BY <3>5
  <2>6. CASE x \notin R
    <3>1. /\ R \cap (T \cup {x}) = R \cap T
          /\ (T \cup {x}) \ R = (T \ R) \cup {x} /\ x \notin T \ R
      BY <2>6
    <3>2. SumOver(f, (T \ R) \cup {x}) = f[x] + SumOver(f, T \ R)
      BY <2>1, <3>1, SumAdd
    <3>3. SumOver(f, (T \cup {x}) \ R) = f[x] + SumOver(f, T \ R)
      BY <3>1, <3>2
    <3>4. SumOver(f, R \cap (T \cup {x})) = SumOver(f, R \cap T)
      BY <3>1
    <3>5. SumOver(f, T \cup {x})
            = SumOver(f, R \cap (T \cup {x})) + SumOver(f, (T \cup {x}) \ R)
      BY <2>2, <2>3, <2>4, <3>3, <3>4
    <3> QED BY <3>5
  <2> QED BY <2>5, <2>6
<1>3. S \in P
  <2> HIDE DEF P
  <2> QED BY <1>1, <1>2, SetInduct
<1>4. R \cap S = R
  OBVIOUS
<1> QED BY <1>3, <1>4

LEMMA SumSubset ==
    ASSUME NEW S, IsFiniteSet(S), NEW f, \A x \in S : f[x] \in Nat,
           NEW R \in SUBSET S
    PROVE  SumOver(f, R) <= SumOver(f, S)
<1>1. SumOver(f, S) = SumOver(f, R) + SumOver(f, S \ R)
  BY SumSplit
<1>2. IsFiniteSet(R) /\ IsFiniteSet(S \ R)
  BY FS_Subset
<1>3. SumOver(f, R) \in Nat /\ SumOver(f, S \ R) \in Nat
  BY <1>2, SumNat
<1> QED BY <1>1, <1>3

LEMMA SumPlus ==
    ASSUME NEW S, IsFiniteSet(S), NEW f, NEW h, NEW k,
           \A x \in S : f[x] \in Nat /\ h[x] \in Nat /\ k[x] = f[x] + h[x]
    PROVE  SumOver(k, S) = SumOver(f, S) + SumOver(h, S)
<1> DEFINE P == {T \in SUBSET S : SumOver(k, T) = SumOver(f, T) + SumOver(h, T)}
<1>1. {} \in P
  BY SumEmpty
<1>2. ASSUME NEW T \in SUBSET S, NEW x \in S \ T, T \in P PROVE T \cup {x} \in P
  <2>1. IsFiniteSet(T)
    BY FS_Subset
  <2>2. SumOver(f, T) \in Nat /\ SumOver(h, T) \in Nat
    BY <2>1, SumNat
  <2>3. SumOver(f, T \cup {x}) = f[x] + SumOver(f, T)
    BY <2>1, SumAdd
  <2>4. SumOver(h, T \cup {x}) = h[x] + SumOver(h, T)
    BY <2>1, SumAdd
  <2>5. SumOver(k, T \cup {x}) = k[x] + SumOver(k, T)
    <3>1. \A y \in T \cup {x} : k[y] \in Nat
      OBVIOUS
    <3> QED BY <2>1, <3>1, SumAdd
  <2> QED BY <1>2, <2>2, <2>3, <2>4, <2>5
<1>3. S \in P
  <2> HIDE DEF P
  <2> QED BY <1>1, <1>2, SetInduct
<1> QED BY <1>3

LEMMA SumZero ==
    ASSUME NEW S, IsFiniteSet(S), NEW f, \A x \in S : f[x] = 0
    PROVE  SumOver(f, S) = 0
<1>1. SumOver(f, S) = SumOver(f, S) + SumOver(f, S)
  BY SumPlus
<1>2. SumOver(f, S) \in Nat
  BY SumNat
<1>3. \A n \in Nat : n = n + n => n = 0
  OBVIOUS
<1> QED BY <1>1, <1>2, <1>3

(* What counts for nothing may be left out.                                *)
LEMMA SumOfRest ==
    ASSUME NEW S, IsFiniteSet(S), NEW f, \A x \in S : f[x] \in Nat,
           NEW R \in SUBSET S, \A x \in S \ R : f[x] = 0
    PROVE  SumOver(f, S) = SumOver(f, R)
<1>1. SumOver(f, S) = SumOver(f, R) + SumOver(f, S \ R)
  BY SumSplit
<1>2. IsFiniteSet(R) /\ IsFiniteSet(S \ R)
  BY FS_Subset
<1>3. SumOver(f, R) \in Nat /\ SumOver(f, S \ R) = 0
  BY <1>2, SumNat, SumZero
<1> QED BY <1>1, <1>3

(* The size of a union of sets that have nothing in common.                *)
LEMMA SumOfSizes ==
    ASSUME NEW S, IsFiniteSet(S), NEW A, \A x \in S : IsFiniteSet(A[x]),
           \A x, y \in S : x # y => A[x] \cap A[y] = {},
           NEW size, \A x \in S : size[x] = Cardinality(A[x])
    PROVE  /\ IsFiniteSet(UNION {A[x] : x \in S})
           /\ Cardinality(UNION {A[x] : x \in S}) = SumOver(size, S)
<1> DEFINE U(T) == UNION {A[x] : x \in T}
           P == {T \in SUBSET S : IsFiniteSet(U(T)) /\ Cardinality(U(T)) = SumOver(size, T)}
<1>0. \A x \in S : size[x] \in Nat
  BY FS_CardinalityType
<1>1. {} \in P
  <2>1. U({}) = {}
    OBVIOUS
  <2> QED BY <2>1, SumEmpty, FS_EmptySet
<1>2. ASSUME NEW T \in SUBSET S, NEW x \in S \ T, T \in P PROVE T \cup {x} \in P
  <2>1. IsFiniteSet(T)
    BY FS_Subset
  <2>2. U(T \cup {x}) = U(T) \cup A[x] /\ U(T) \cap A[x] = {}
    OBVIOUS
  <2>3. SumOver(size, T \cup {x}) = size[x] + SumOver(size, T)
    BY <1>0, <2>1, SumAdd
  <2>4. IsFiniteSet(U(T)) /\ IsFiniteSet(A[x]) /\ Cardinality(U(T)) = SumOver(size, T)
    BY <1>2
  <2> HIDE DEF U
  <2>5. Cardinality({}) = 0
    BY FS_EmptySet
  <2>6. /\ IsFiniteSet(U(T) \cup A[x])
        /\ Cardinality(U(T) \cup A[x]) =
             Cardinality(U(T)) + Cardinality(A[x]) - Cardinality(U(T) \cap A[x])
    BY <2>4, FS_Union
  <2>7. Cardinality(U(T)) \in Nat /\ Cardinality(A[x]) \in Nat
    BY <2>4, FS_CardinalityType
  <2>8. Cardinality(U(T) \cup A[x]) = size[x] + SumOver(size, T)
    <3>1. Cardinality(U(T) \cap A[x]) = 0 /\ size[x] = Cardinality(A[x])
      BY <2>2, <2>5
    <3> HIDE DEF P
    <3> QED BY <2>4, <2>6, <2>7, <3>1
  <2> QED BY <2>2, <2>3, <2>6, <2>8
<1>3. S \in P
  <2> HIDE DEF P
  <2> QED BY <1>1, <1>2, SetInduct
<1> QED BY <1>3

-----------------------------------------------------------------------------
(* Finite sets of numbers                                                  *)

LEMMA LargestExists ==
    ASSUME NEW S, S \subseteq Int, IsFiniteSet(S), S # {}
    PROVE  \E m \in S : \A x \in S : x <= m
<1> DEFINE P == {T \in SUBSET S : T # {} => \E m \in T : \A x \in T : x <= m}
<1>1. {} \in P
  OBVIOUS
<1>2. ASSUME NEW T \in SUBSET S, NEW y \in S \ T, T \in P PROVE T \cup {y} \in P
  <2>1. CASE T = {}
    <3>1. \A x \in T \cup {y} : x <= y
      BY <2>1
    <3> QED BY <3>1
  <2>2. CASE T # {}
    <3>1. PICK m \in T : \A x \in T : x <= m
      BY <1>2, <2>2
    <3>2. m \in Int /\ y \in Int
      OBVIOUS
    <3>3. CASE m <= y
      <4>1. \A x \in T \cup {y} : x <= y
        BY <3>1, <3>2, <3>3
      <4> QED BY <4>1
    <3>4. CASE y <= m
      <4>1. \A x \in T \cup {y} : x <= m
        BY <3>1, <3>2, <3>4
      <4> QED BY <4>1
    <3> QED BY <3>2, <3>3, <3>4
  <2> QED BY <2>1, <2>2
<1>3. S \in P
  <2> HIDE DEF P
  <2> QED BY <1>1, <1>2, SetInduct
<1> QED BY <1>3

(* They can be put in order.                                               *)
LEMMA OrderExists ==
    ASSUME NEW S, S \subseteq Int, IsFiniteSet(S)
    PROVE  \E f \in [1 .. Cardinality(S) -> S] :
              \A i, j \in 1 .. Cardinality(S) : i < j => f[i] < f[j]
<1> DEFINE N == {n \in Nat : \A T \in SUBSET S : Cardinality(T) = n =>
                    \E f \in [1 .. n -> T] : \A i, j \in 1 .. n : i < j => f[i] < f[j]}
<1>1. \A T \in SUBSET S : IsFiniteSet(T) /\ Cardinality(T) \in Nat
  BY FS_Subset, FS_CardinalityType
<1>2. 0 \in N
  <2> SUFFICES ASSUME NEW T \in SUBSET S
               PROVE  \E f \in [1 .. 0 -> T] : \A i, j \in 1 .. 0 : i < j => f[i] < f[j]
    OBVIOUS
  <2>1. 1 .. 0 = {}
    OBVIOUS
  <2> DEFINE f == [i \in 1 .. 0 |-> i]
  <2>2. f \in [1 .. 0 -> T]
    BY <2>1
  <2> QED BY <2>1, <2>2
<1>3. ASSUME NEW n \in Nat, n \in N PROVE n + 1 \in N
  <2> SUFFICES ASSUME NEW T \in SUBSET S, Cardinality(T) = n + 1
               PROVE  \E f \in [1 .. n + 1 -> T] :
                         \A i, j \in 1 .. n + 1 : i < j => f[i] < f[j]
    OBVIOUS
  <2>1. IsFiniteSet(T) /\ T # {} /\ T \subseteq Int
    BY <1>1, FS_EmptySet
  <2>2. PICK m \in T : \A x \in T : x <= m
    BY <2>1, LargestExists
  <2>3. Cardinality(T \ {m}) = n /\ T \ {m} \in SUBSET S
    <3>1. Cardinality(T \ {m}) = Cardinality(T) - 1
      BY <2>1, OneElementLess
    <3> QED BY <3>1
  <2>4. PICK f \in [1 .. n -> T \ {m}] : \A i, j \in 1 .. n : i < j => f[i] < f[j]
    BY <1>3, <2>3
  <2> DEFINE g == [i \in 1 .. n + 1 |-> IF i = n + 1 THEN m ELSE f[i]]
  <2>5. g \in [1 .. n + 1 -> T]
    OBVIOUS
  <2>6. ASSUME NEW i \in 1 .. n + 1, NEW j \in 1 .. n + 1, i < j PROVE g[i] < g[j]
    <3>1. i \in 1 .. n /\ g[i] = f[i] /\ f[i] \in T \ {m}
      BY <2>6
    <3>2. CASE j = n + 1
      <4>1. g[j] = m /\ f[i] <= m /\ f[i] # m /\ f[i] \in Int /\ m \in Int
        BY <2>1, <2>2, <3>1, <3>2
      <4> HIDE DEF g
      <4> QED BY <3>1, <4>1
    <3>3. CASE j # n + 1
      <4>1. j \in 1 .. n /\ g[j] = f[j]
        BY <3>3
      <4> HIDE DEF g
      <4> QED BY <2>4, <2>6, <3>1, <4>1
    <3> QED BY <3>2, <3>3
  <2> HIDE DEF g
  <2> QED BY <2>5, <2>6
<1>4. Nat \subseteq N
  <2> HIDE DEF N
  <2> QED BY <1>2, <1>3, NatInduct
<1> QED BY <1>1, <1>4

-----------------------------------------------------------------------------
(* The newest members of a set of windows                                  *)

Above(S, w) == {v \in S : v > w}
NewestOf(S, k) == {w \in S : Cardinality(Above(S, w)) < k}

LEMMA AboveFacts ==
    ASSUME NEW S, S \subseteq Int, IsFiniteSet(S), NEW w
    PROVE  /\ IsFiniteSet(Above(S, w))
           /\ Cardinality(Above(S, w)) \in Nat
           /\ \A T \in SUBSET Above(S, w) :
                 IsFiniteSet(T) /\ Cardinality(T) \in Nat
                 /\ Cardinality(T) <= Cardinality(Above(S, w))
<1>1. Above(S, w) \in SUBSET S
  BY DEF Above
<1>2. IsFiniteSet(Above(S, w))
  BY <1>1, FS_Subset
<1> QED BY <1>2, FS_Subset, FS_CardinalityType

LEMMA AboveAbove ==
    ASSUME NEW S, S \subseteq Int, NEW w \in Int, NEW u \in Int, u > w
    PROVE  Above(S, u) \subseteq Above(S, w) /\ (u \in S => u \in Above(S, w))
           /\ u \notin Above(S, u)
<1>1. \A v \in S : v \in Int /\ (v > u => v > w)
  OBVIOUS
<1>2. Above(S, u) \subseteq Above(S, w)
  BY <1>1, Zenon DEF Above
<1>3. u \in S => u \in Above(S, w)
  BY Zenon DEF Above
<1>4. ~(u > u)
  OBVIOUS
<1>5. u \notin Above(S, u)
  BY <1>4, Zenon DEF Above
<1> QED BY <1>2, <1>3, <1>5

LEMMA NotFewer ==
    \A k, a, b \in Nat : a <= b /\ b < k => a < k
OBVIOUS

(* A member that is not among the k newest has k of them above it: of the  *)
(* members above it that are not among the newest themselves, take the one *)
(* with the fewest above it.                                               *)
LEMMA NewestAbove ==
    ASSUME NEW k \in Nat,
           NEW S, S \subseteq Int, IsFiniteSet(S), NEW w \in Int,
           ~(Cardinality(Above(S, w)) < k)
    PROVE  ~(Cardinality(Above(NewestOf(S, k), w)) < k)
<1> DEFINE Bad == Above(S, w) \ NewestOf(S, k)
           N(u) == Cardinality(Above(S, u))
           Ns == {N(u) : u \in Bad}
<1>1. IsFiniteSet(NewestOf(S, k)) /\ NewestOf(S, k) \subseteq S
  <2>1. NewestOf(S, k) \in SUBSET S
    BY DEF NewestOf
  <2> QED BY <2>1, FS_Subset
<1>2. CASE Bad = {}
  <2>1. Above(NewestOf(S, k), w) = Above(S, w)
    BY <1>1, <1>2 DEF Above
  <2> QED BY <2>1
<1>3. CASE Bad # {}
  <2>1. Ns \subseteq Nat /\ Ns # {}
    BY <1>3, AboveFacts
  <2>2. \E n \in Ns : \A q \in Ns : ~ <<q, n>> \in OpToRel(<, Nat)
    <3> HIDE DEF Ns
    <3> QED BY <2>1, NatLessThanWellFounded, WFMin
  <2>3. PICK u \in Bad : \A v \in Bad : ~(N(v) < N(u))
    <3>1. PICK n \in Ns : \A q \in Ns : ~(q < n)
      <4> HIDE DEF Ns
      <4> QED BY <2>1, <2>2 DEF OpToRel
    <3> QED BY <3>1
  <2>4. u \in S /\ u > w /\ ~(N(u) < k) /\ u \in Int
    BY DEF Above, NewestOf
  <2>5. Above(S, u) \subseteq NewestOf(S, k)
    <3> SUFFICES ASSUME NEW v \in S, v > u, v \notin NewestOf(S, k) PROVE FALSE
      BY DEF Above
    <3>1. v \in Bad
      <4>1. v \in Int /\ u \in Int /\ v > w
        BY <2>4
      <4> QED BY <4>1 DEF Above
    <3>2. N(v) < N(u)
      <4>0. u \in Int /\ v \in Int /\ v > u
        BY <2>4
      <4>1. Above(S, v) \subseteq Above(S, u) /\ v \in Above(S, u) /\ v \notin Above(S, v)
        BY <4>0, AboveAbove
      <4>2. IsFiniteSet(Above(S, u)) /\ Above(S, v) \in SUBSET Above(S, u)
        BY <4>1, AboveFacts
      <4>3. N(v) <= N(u) /\ N(v) # N(u)
        BY <4>1, <4>2, FS_Subset
      <4>4. N(v) \in Nat /\ N(u) \in Nat
        BY AboveFacts
      <4> QED BY <4>3, <4>4
    <3> QED BY <2>3, <3>1, <3>2
  <2>6. Above(S, u) \in SUBSET Above(NewestOf(S, k), w)
    <3>1. Above(S, u) \subseteq Above(S, w)
      BY <2>4, AboveAbove
    <3> QED BY <2>5, <3>1 DEF Above
  <2>7. N(u) <= Cardinality(Above(NewestOf(S, k), w)) /\ N(u) \in Nat
        /\ Cardinality(Above(NewestOf(S, k), w)) \in Nat
    <3>1. IsFiniteSet(Above(NewestOf(S, k), w)) /\ Cardinality(Above(NewestOf(S, k), w)) \in Nat
      BY <1>1, AboveFacts
    <3> HIDE DEF N
    <3> QED BY <2>6, <3>1, FS_Subset, AboveFacts DEF N
  <2> HIDE DEF N
  <2> QED BY <2>4, <2>7, NotFewer
<1> QED BY <1>2, <1>3

(* Trimming after every write keeps the newest of all: a member that was   *)
(* trimmed before would not be kept now.                                   *)
LEMMA NewestOfUnion ==
    ASSUME NEW k \in Nat,
           NEW S, S \subseteq Int, IsFiniteSet(S), NEW B, B \subseteq Int, IsFiniteSet(B)
    PROVE  NewestOf(NewestOf(S, k) \cup B, k) = NewestOf(S \cup B, k)
<1> DEFINE M == NewestOf(S, k) \cup B
           U == S \cup B
<1>1. /\ M \subseteq U /\ U \subseteq Int /\ M \subseteq Int /\ NewestOf(S, k) \subseteq S
      /\ IsFiniteSet(U) /\ IsFiniteSet(M) /\ IsFiniteSet(NewestOf(S, k))
  <2>1. NewestOf(S, k) \in SUBSET S
    BY DEF NewestOf
  <2>2. IsFiniteSet(U)
    BY FS_Union
  <2>3. M \in SUBSET U
    BY <2>1
  <2> QED BY <2>1, <2>2, <2>3, FS_Subset
<1> HIDE DEF M, U
<1>2. ASSUME NEW w \in Int PROVE Cardinality(Above(M, w)) <= Cardinality(Above(U, w))
  <2>1. Above(M, w) \in SUBSET Above(U, w)
    BY <1>1 DEF Above
  <2> QED BY <1>1, <2>1, AboveFacts
<1>3. \A w \in Int : /\ Cardinality(Above(M, w)) \in Nat
                     /\ Cardinality(Above(U, w)) \in Nat
                     /\ Cardinality(Above(S, w)) \in Nat
  BY <1>1, AboveFacts
<1>4. ASSUME NEW w \in NewestOf(U, k) PROVE w \in NewestOf(M, k)
  <2>1. w \in U /\ w \in Int /\ Cardinality(Above(U, w)) < k
    BY <1>1, <1>4 DEF NewestOf
  <2>2. Cardinality(Above(M, w)) < k
    BY <1>2, <1>3, <2>1, NotFewer
  <2>3. w \in M
    <3>1. CASE w \in S
      <4>1. Above(S, w) \in SUBSET Above(U, w)
        BY DEF Above, U
      <4>2. Cardinality(Above(S, w)) <= Cardinality(Above(U, w))
        BY <1>1, <4>1, AboveFacts
      <4>3. Cardinality(Above(S, w)) < k
        BY <1>3, <2>1, <4>2, NotFewer
      <4> QED BY <3>1, <4>3 DEF NewestOf, M
    <3> QED BY <2>1, <3>1 DEF M, U
  <2> QED BY <2>2, <2>3 DEF NewestOf
<1>5. ASSUME NEW w \in NewestOf(M, k) PROVE w \in NewestOf(U, k)
  <2>1. w \in M /\ w \in U /\ w \in Int /\ Cardinality(Above(M, w)) < k
    BY <1>1, <1>5 DEF NewestOf
  <2> SUFFICES ASSUME ~(Cardinality(Above(U, w)) < k) PROVE FALSE
    BY <2>1 DEF NewestOf
  <2>2. CASE Above(S, w) \subseteq NewestOf(S, k)
    <3>1. Above(M, w) = Above(U, w)
      BY <1>1, <2>2 DEF Above, M, U
    <3> QED BY <2>1, <3>1
  <2>3. CASE ~(Above(S, w) \subseteq NewestOf(S, k))
    <3>1. PICK u \in S : u > w /\ u \notin NewestOf(S, k)
      BY <2>3 DEF Above
    <3>2. u \in Int /\ ~(Cardinality(Above(S, u)) < k)
      BY <3>1 DEF NewestOf
    <3>3. ~(Cardinality(Above(NewestOf(S, k), u)) < k)
      BY <3>2, NewestAbove
    <3>4. Above(NewestOf(S, k), u) \in SUBSET Above(M, w)
      <4>1. Above(NewestOf(S, k), u) \subseteq Above(NewestOf(S, k), w)
        BY <1>1, <2>1, <3>1, <3>2, AboveAbove
      <4> QED BY <4>1 DEF Above, M
    <3>5. /\ Cardinality(Above(NewestOf(S, k), u)) <= Cardinality(Above(M, w))
          /\ Cardinality(Above(NewestOf(S, k), u)) \in Nat
      BY <1>1, <3>4, AboveFacts
    <3> QED BY <1>3, <2>1, <3>3, <3>5, NotFewer
  <2> QED BY <2>2, <2>3
<1> QED BY <1>4, <1>5 DEF M, U

(* A member is not trimmed by what is added and then among the newest.     *)
LEMMA NewestOfFewer ==
    ASSUME NEW k \in Nat,
           NEW S, S \subseteq Int, IsFiniteSet(S), NEW B, B \subseteq Int, IsFiniteSet(B),
           NEW w \in S, w \in NewestOf(S \cup B, k)
    PROVE  w \in NewestOf(S, k)
<1>1. IsFiniteSet(S \cup B) /\ S \cup B \subseteq Int
  BY FS_Union
<1>2. Above(S, w) \in SUBSET Above(S \cup B, w)
  BY DEF Above
<1>3. /\ Cardinality(Above(S, w)) <= Cardinality(Above(S \cup B, w))
      /\ Cardinality(Above(S, w)) \in Nat /\ Cardinality(Above(S \cup B, w)) \in Nat
  BY <1>1, <1>2, AboveFacts
<1> QED BY <1>3, NotFewer DEF NewestOf

(* Of every window there is one among the newest that is not older.        *)
LEMMA NewestReach ==
    ASSUME NEW k \in Nat \ {0},
           NEW S, S \subseteq Int, IsFiniteSet(S), NEW w \in S
    PROVE  \E v \in NewestOf(S, k) : w <= v
<1>1. PICK m \in S : \A x \in S : x <= m
  BY LargestExists
<1>2. Above(S, m) = {}
  <2> SUFFICES ASSUME NEW v \in S, v > m PROVE FALSE
    BY DEF Above
  <2>1. v \in Int /\ m \in Int /\ v <= m
    BY <1>1
  <2> QED BY <2>1
<1>3. Cardinality(Above(S, m)) < k
  BY <1>2, FS_EmptySet
<1> QED BY <1>1, <1>3 DEF NewestOf
=============================================================================
