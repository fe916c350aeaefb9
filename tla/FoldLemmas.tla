------------------------------ MODULE FoldLemmas ------------------------------
(***************************************************************************)
(* What the models' folds compute, for every finite set: a largest element     *)
(* exists, a function defined by taking one element after another exists, and   *)
(* a total over a set may be split, compared and changed element by element.    *)
(* The library's induction theorems take operators, so induction is stated here *)
(* for the members of a set G, from the well-founded order of the subsets.      *)
(***************************************************************************)
EXTENDS Integers, FiniteSets, FiniteSetsExt, FiniteSetTheorems, TLAPS

(* Induction over the subsets of a finite set: what all smaller sets have.    *)
LEMMA SetInduction ==
  ASSUME NEW S, IsFiniteSet(S), NEW G,
         \A T \in SUBSET S : (\A U \in SUBSET T : U # T => U \in G) => T \in G
  PROVE  \A T \in SUBSET S : T \in G
<1> DEFINE Bad == {T \in SUBSET S : T \notin G}
<1> SUFFICES ASSUME Bad # {} PROVE FALSE
  OBVIOUS
<1>1. IsWellFoundedOn(StrictSubsetOrdering(S), SUBSET S)
  <2>1. FiniteSubsetsOf(S) = SUBSET S
    BY FS_FiniteSubsetsOfFinite
  <2>2. IsWellFoundedOn(StrictSubsetOrdering(S), FiniteSubsetsOf(S))
    BY FS_StrictSubsetOrderingWellFounded
  <2> QED
    BY <2>1, <2>2
<1>2. PICK T \in Bad : \A U \in Bad : ~(<<U, T>> \in StrictSubsetOrdering(S))
  <2> Bad \subseteq SUBSET S
    OBVIOUS
  <2> HIDE DEF Bad
  <2> QED
    BY <1>1, WFMin
<1>3. \A U \in SUBSET T : U # T => U \notin Bad
  BY <1>2 DEF StrictSubsetOrdering
<1> QED
  BY <1>2, <1>3

(* Induction over the natural numbers, for a set.                           *)
LEMMA CountingUp ==
  ASSUME NEW G, 0 \in G, \A n \in Nat : n \in G => n + 1 \in G
  PROVE  \A n \in Nat : n \in G
<1> TAKE n \in Nat
<1> DEFINE Segments == {T \in SUBSET (0..n) : \A m \in 0..n : T = 0..m => m \in G}
<1>1. ASSUME NEW T \in SUBSET (0..n), \A U \in SUBSET T : U # T => U \in Segments
      PROVE  T \in Segments
  <2> SUFFICES ASSUME NEW m \in 0..n, T = 0..m PROVE m \in G
    OBVIOUS
  <2>1. CASE m = 0
    BY <2>1
  <2>2. CASE m # 0
    <3>1. m - 1 \in 0..n /\ m - 1 \in Nat
      BY <2>2
    <3>2. 0..(m - 1) \in SUBSET T /\ m \in T /\ m \notin 0..(m - 1)
      BY <2>2
    <3>3. 0..(m - 1) \in Segments
      BY <1>1, <3>2
    <3>4. m - 1 \in G
      BY <3>1, <3>3
    <3> QED
      BY <3>1, <3>4, (m - 1) + 1 = m
  <2> QED
    BY <2>1, <2>2
<1> DEFINE D == 0..n
<1>2. IsFiniteSet(D)
  BY FS_Interval
<1> HIDE DEF Segments
<1>3. \A T \in SUBSET D : (\A U \in SUBSET T : U # T => U \in Segments) => T \in Segments
  BY <1>1
<1>4. \A T \in SUBSET D : T \in Segments
  <2> HIDE DEF D
  <2> QED
    BY <1>2, <1>3, SetInduction
<1>5. 0..n \in Segments
  BY <1>4
<1> QED
  BY <1>5 DEF Segments

(* A function that is defined by taking one element after another out of a    *)
(* finite set exists.                                                       *)
Picks(pick, D) == \A s \in SUBSET D : s # {} => pick[s] \in s

IsFold(g, D, pick, base, step) ==
    \A s \in SUBSET D : g[s] = IF s = {} THEN base ELSE step[<<pick[s], g[s \ {pick[s]}]>>]

LEMMA FoldExists ==
  ASSUME NEW D, IsFiniteSet(D), NEW pick, Picks(pick, D),
         NEW V, NEW base \in V, NEW step \in [D \X V -> V]
  PROVE  \E g \in [SUBSET D -> V] : IsFold(g, D, pick, base, step)
<1> USE DEF Picks
<1> DEFINE Small(n) == {s \in SUBSET D : Cardinality(s) <= n}
           Folds(n) == {g \in [Small(n) -> V] : \A s \in Small(n) :
                          g[s] = IF s = {} THEN base ELSE step[<<pick[s], g[s \ {pick[s]}]>>]}
           G == {n \in Nat : Folds(n) # {}}
<1>0. \A s \in SUBSET D : IsFiniteSet(s) /\ Cardinality(s) \in Nat
  BY FS_Subset, FS_CardinalityType
<1>00. \A s \in SUBSET D : s # {} => /\ s \ {pick[s]} \in SUBSET D
                                     /\ Cardinality(s \ {pick[s]}) = Cardinality(s) - 1
                                     /\ pick[s] \in D
  BY <1>0, FS_RemoveElement
<1>1. 0 \in G
  <2> DEFINE g == [s \in Small(0) |-> base]
  <2>1. \A s \in Small(0) : s = {}
    BY <1>0, FS_EmptySet
  <2>2. g \in Folds(0)
    BY <2>1
  <2> QED
    BY <2>2
<1>2. ASSUME NEW n \in Nat, n \in G PROVE n + 1 \in G
  <2>1. PICK g \in [Small(n) -> V] : \A s \in Small(n) :
                  g[s] = IF s = {} THEN base ELSE step[<<pick[s], g[s \ {pick[s]}]>>]
    BY <1>2
  <2> DEFINE h == [s \in Small(n + 1) |->
                     IF s = {} THEN base ELSE step[<<pick[s], g[s \ {pick[s]}]>>]]
  <2>2. \A s \in Small(n + 1) : s # {} => s \ {pick[s]} \in Small(n)
    BY <1>0, <1>00
  <2>3. h \in [Small(n + 1) -> V]
    <3>1. ASSUME NEW s \in Small(n + 1), s # {} PROVE step[<<pick[s], g[s \ {pick[s]}]>>] \in V
      <4>1. g[s \ {pick[s]}] \in V
        BY <2>1, <2>2, <3>1
      <4>2. pick[s] \in D
        BY <1>00, <3>1
      <4> QED
        BY <4>1, <4>2
    <3> HIDE DEF Small
    <3> QED
      BY <3>1
  <2>4. \A s \in Small(n) : h[s] = g[s] /\ s \in Small(n + 1)
    <3>1. \A s \in Small(n) : s \in Small(n + 1)
      BY <1>0
    <3> HIDE DEF Small
    <3> QED
      BY <2>1, <3>1
  <2>5. \A s \in Small(n + 1) :
            h[s] = IF s = {} THEN base ELSE step[<<pick[s], h[s \ {pick[s]}]>>]
    <3> HIDE DEF Small
    <3> QED
      BY <2>2, <2>4
  <2>6. h \in Folds(n + 1)
    BY <2>3, <2>5
  <2> HIDE DEF h, Folds
  <2> QED
    BY <2>6
<1>3. Cardinality(D) \in G
  <2> Cardinality(D) \in Nat
    BY FS_CardinalityType
  <2> HIDE DEF G
  <2> QED
    BY <1>1, <1>2, CountingUp
<1>4. Small(Cardinality(D)) = SUBSET D
  BY FS_Subset
<1> HIDE DEF Small
<1> QED
  BY <1>3, <1>4 DEF IsFold

(* A finite set of integers that is not empty has a largest element.         *)
LEMMA MaxExists ==
  ASSUME NEW S, IsFiniteSet(S), S \subseteq Int, S # {}
  PROVE  Max(S) \in S /\ \A y \in S : Max(S) >= y
<1> DEFINE G == {T \in SUBSET S : T # {} => \E x \in T : \A y \in T : x >= y}
<1>1. ASSUME NEW T \in SUBSET S, \A U \in SUBSET T : U # T => U \in G
      PROVE  T \in G
  <2> SUFFICES ASSUME NEW z \in T PROVE \E x \in T : \A y \in T : x >= y
    OBVIOUS
  <2>1. T \ {z} \in G
    BY <1>1
  <2>2. CASE T \ {z} = {}
    BY <2>2
  <2>3. CASE T \ {z} # {}
    <3>1. PICK x \in T \ {z} : \A y \in T \ {z} : x >= y
      BY <2>1, <2>3
    <3>2. x \in Int /\ z \in Int /\ T \subseteq Int
      OBVIOUS
    <3>3. CASE x >= z
      BY <3>1, <3>3
    <3>4. CASE z >= x
      BY <3>1, <3>2, <3>4
    <3> QED
      BY <3>2, <3>3, <3>4
  <2> QED
    BY <2>2, <2>3
<1>2. \A T \in SUBSET S : T \in G
  <2> HIDE DEF G
  <2> QED
    BY <1>1, SetInduction
<1>3. \E x \in S : \A y \in S : x >= y
  BY <1>2
<1> QED
  BY <1>3 DEF Max

(* And one of the integers a smallest.                                       *)
LEMMA MinExists ==
  ASSUME NEW S, IsFiniteSet(S), S \subseteq Int, S # {}
  PROVE  Min(S) \in S /\ \A y \in S : Min(S) <= y
<1> DEFINE G == {T \in SUBSET S : T # {} => \E x \in T : \A y \in T : x <= y}
<1>1. ASSUME NEW T \in SUBSET S, \A U \in SUBSET T : U # T => U \in G
      PROVE  T \in G
  <2> SUFFICES ASSUME NEW z \in T PROVE \E x \in T : \A y \in T : x <= y
    OBVIOUS
  <2>1. T \ {z} \in G
    BY <1>1
  <2>2. CASE T \ {z} = {}
    BY <2>2
  <2>3. CASE T \ {z} # {}
    <3>1. PICK x \in T \ {z} : \A y \in T \ {z} : x <= y
      BY <2>1, <2>3
    <3>2. x \in Int /\ z \in Int /\ T \subseteq Int
      OBVIOUS
    <3>3. CASE x <= z
      BY <3>1, <3>3
    <3>4. CASE z <= x
      BY <3>1, <3>2, <3>4
    <3> QED
      BY <3>2, <3>3, <3>4
  <2> QED
    BY <2>2, <2>3
<1>2. \A T \in SUBSET S : T \in G
  <2> HIDE DEF G
  <2> QED
    BY <1>1, SetInduction
<1>3. \E x \in S : \A y \in S : x <= y
  BY <1>2
<1> QED
  BY <1>3 DEF Min

LEMMA MaxOfSegment ==
  ASSUME NEW i \in Nat
  PROVE  Max(1..(i + 1)) = i + 1 /\ (1..(i + 1)) \ {i + 1} = 1..i
<1>1. IsFiniteSet(1..(i + 1)) /\ 1..(i + 1) \subseteq Int /\ 1..(i + 1) # {}
  <2>1. IsFiniteSet(1..(i + 1))
    BY FS_Interval
  <2>2. 1 \in 1..(i + 1)
    OBVIOUS
  <2> QED
    BY <2>1, <2>2
<1>2. Max(1..(i + 1)) \in 1..(i + 1) /\ \A y \in 1..(i + 1) : Max(1..(i + 1)) >= y
  BY <1>1, MaxExists
<1> DEFINE m == Max(1..(i + 1))
<1> HIDE DEF m
<1>3. m \in 1..(i + 1) /\ m >= i + 1
  BY <1>2 DEF m
<1>4. m = i + 1
  BY <1>3
<1> QED
  BY <1>4 DEF m

-----------------------------------------------------------------------------
(* Folds over a list, one member after another.                              *)

LEMMA MaxOfPlaces ==
  ASSUME NEW n \in Nat, NEW s \in SUBSET (1..n), s # {}
  PROVE  Max(s) \in s
<1> DEFINE D == 1..n
<1>1. IsFiniteSet(D)
  BY FS_Interval
<1>2. s \in SUBSET D /\ s \subseteq Int
  OBVIOUS
<1> HIDE DEF D
<1>3. IsFiniteSet(s)
  BY <1>1, <1>2, FS_Subset
<1> QED
  BY <1>2, <1>3, MaxExists

(* A fold that stays in a set V exists: SequencesExt's FoldLeft takes the last  *)
(* member of what is left of the list.                                      *)
IsListFold(g, n, order, base, step) ==
    \A s \in SUBSET (1..n) :
        g[s] = IF s = {} THEN base ELSE step[<<g[s \ {Max(s)}], order[Max(s)]>>]

LEMMA FoldOfAListExists ==
  ASSUME NEW n \in Nat, NEW E, NEW order \in [1..n -> E],
         NEW V, NEW base \in V, NEW step \in [V \X E -> V]
  PROVE  \E g \in [SUBSET (1..n) -> V] : IsListFold(g, n, order, base, step)
<1> DEFINE D == 1..n
           pick == [s \in SUBSET D |-> Max(s)]
           move == [x \in D \X V |-> step[<<x[2], order[x[1]]>>]]
<1>1. IsFiniteSet(D)
  BY FS_Interval
<1>2. \A s \in SUBSET D : s # {} => Max(s) \in s
  <2> SUFFICES ASSUME NEW s \in SUBSET D, s # {} PROVE Max(s) \in s
    OBVIOUS
  <2>1. IsFiniteSet(s)
    BY <1>1, FS_Subset
  <2>2. s \subseteq Int
    OBVIOUS
  <2> HIDE DEF D
  <2> QED
    BY <2>1, <2>2, MaxExists
<1>3. Picks(pick, D)
  BY <1>2 DEF Picks
<1>4. move \in [D \X V -> V]
  OBVIOUS
<1>5. PICK g \in [SUBSET D -> V] : IsFold(g, D, pick, base, move)
  <2> HIDE DEF D, pick, move
  <2> QED
    BY <1>1, <1>3, <1>4, FoldExists
<1>6. ASSUME NEW s \in SUBSET D, s # {}
      PROVE  move[<<pick[s], g[s \ {pick[s]}]>>] = step[<<g[s \ {Max(s)}], order[Max(s)]>>]
  <2>1. pick[s] = Max(s) /\ Max(s) \in D /\ s \ {Max(s)} \in SUBSET D
    BY <1>2, <1>6
  <2>2. g[s \ {Max(s)}] \in V
    BY <2>1
  <2> HIDE DEF D
  <2> QED
    BY <2>1, <2>2
<1>7. \A s \in SUBSET D :
         g[s] = IF s = {} THEN base ELSE step[<<g[s \ {Max(s)}], order[Max(s)]>>]
  BY <1>5, <1>6 DEF IsFold
<1> QED
  BY <1>7 DEF IsListFold

(* A function of the sets of places that takes one step for the last of them.  *)
Steps(iter, n, order, V, base, step) ==
    /\ iter[{}] = base
    /\ \A s \in SUBSET (1..n) : s # {} /\ iter[s \ {Max(s)}] \in V
          => iter[s] = step[<<iter[s \ {Max(s)}], order[Max(s)]>>]

(* Such a fold, read from the front: one step for each member of the list.    *)
Runs(iter, n, order, V, base, step) ==
    /\ \A m \in 0..n : iter[1..m] \in V
    /\ iter[1..0] = base
    /\ \A m \in 1..n : iter[1..m] = step[<<iter[1..(m - 1)], order[m]>>]

LEMMA FoldOfAListRuns ==
  ASSUME NEW n \in Nat, NEW E, NEW order \in [1..n -> E],
         NEW V, NEW base \in V, NEW step \in [V \X E -> V],
         NEW iter, Steps(iter, n, order, V, base, step)
  PROVE  Runs(iter, n, order, V, base, step)
<1> DEFINE G == {m \in Nat : m <= n => iter[1..m] \in V}
<1>0. 1..0 = {} /\ iter[1..0] = base
  BY DEF Steps
<1>1. ASSUME NEW m \in Nat, m + 1 <= n, iter[1..m] \in V
      PROVE  /\ iter[1..(m + 1)] = step[<<iter[1..m], order[m + 1]>>]
             /\ iter[1..(m + 1)] \in V
  <2> DEFINE s == 1..(m + 1)
  <2>1. s \in SUBSET (1..n) /\ s # {} /\ m + 1 \in 1..n
    <3>1. m + 1 \in s
      OBVIOUS
    <3>2. s \in SUBSET (1..n)
      BY <1>1
    <3> QED
      BY <1>1, <3>1, <3>2
  <2>2. Max(s) = m + 1 /\ s \ {m + 1} = 1..m
    BY MaxOfSegment
  <2>3. iter[s] = step[<<iter[s \ {Max(s)}], order[Max(s)]>>]
    <3> HIDE DEF s
    <3> QED
      BY <1>1, <2>1, <2>2 DEF Steps
  <2>4. iter[s] = step[<<iter[1..m], order[m + 1]>>]
    <3> HIDE DEF s
    <3> QED
      BY <2>2, <2>3
  <2>5. order[m + 1] \in E
    BY <2>1
  <2> QED
    BY <1>1, <2>4, <2>5
<1>2. 0 \in G
  BY <1>0
<1>3. ASSUME NEW m \in Nat, m \in G PROVE m + 1 \in G
  <2>1. m + 1 \in Nat /\ (m + 1 <= n => m <= n)
    OBVIOUS
  <2>2. m + 1 <= n => iter[1..(m + 1)] \in V
    BY <1>1, <1>3, <2>1
  <2> QED
    BY <2>1, <2>2
<1>4. \A m \in Nat : m \in G
  <2>1. \A m \in Nat : m \in G => m + 1 \in G
    BY <1>3
  <2> HIDE DEF G
  <2> QED
    BY <1>2, <2>1, CountingUp
<1>5. \A m \in 0..n : iter[1..m] \in V
  BY <1>4
<1>6. ASSUME NEW m \in 1..n
      PROVE  iter[1..m] = step[<<iter[1..(m - 1)], order[m]>>]
  <2>1. m - 1 \in Nat /\ (m - 1) + 1 = m /\ m - 1 \in 0..n /\ m <= n
    OBVIOUS
  <2>2. iter[1..(m - 1)] \in V
    BY <1>5, <2>1
  <2> DEFINE k == m - 1
  <2>3. k \in Nat /\ k + 1 = m /\ k + 1 <= n /\ iter[1..k] \in V
    BY <2>1, <2>2
  <2> HIDE DEF k
  <2>4. iter[1..(k + 1)] = step[<<iter[1..k], order[k + 1]>>]
    BY <1>1, <2>3
  <2> QED
    BY <2>3, <2>4 DEF k
<1> QED
  BY <1>0, <1>5, <1>6 DEF Runs

(* What holds before the first member and is kept by each holds after the last. *)
KeptBySteps(G, n, order, V, step) ==
    \A m \in 1..n, v \in V : <<m - 1, v>> \in G => <<m, step[<<v, order[m]>>]>> \in G

LEMMA FoldOfAListKeeps ==
  ASSUME NEW n \in Nat, NEW E, NEW order \in [1..n -> E],
         NEW V, NEW base \in V, NEW step \in [V \X E -> V],
         NEW iter, Steps(iter, n, order, V, base, step),
         NEW G, <<0, base>> \in G, KeptBySteps(G, n, order, V, step)
  PROVE  iter[1..n] \in V /\ <<n, iter[1..n]>> \in G
<1>1. Runs(iter, n, order, V, base, step)
  BY FoldOfAListRuns
<1> DEFINE Good == {m \in Nat : m <= n => <<m, iter[1..m]>> \in G}
<1>2. 0 \in Good
  BY <1>1 DEF Runs
<1>3. ASSUME NEW m \in Nat, m \in Good PROVE m + 1 \in Good
  <2> SUFFICES ASSUME m + 1 <= n PROVE <<m + 1, iter[1..(m + 1)]>> \in G
    OBVIOUS
  <2> DEFINE k == m + 1
  <2>1. k \in 1..n /\ k - 1 = m /\ m \in 0..n /\ m <= n
    OBVIOUS
  <2>2. <<m, iter[1..m]>> \in G /\ iter[1..m] \in V
    BY <1>1, <1>3, <2>1 DEF Runs
  <2> HIDE DEF k
  <2>3. iter[1..k] = step[<<iter[1..m], order[k]>>]
    BY <1>1, <2>1 DEF Runs
  <2>4. <<k, iter[1..k]>> \in G
    BY <2>1, <2>2, <2>3 DEF KeptBySteps
  <2> QED
    BY <2>4 DEF k
<1>4. \A m \in Nat : m \in Good
  <2>1. \A m \in Nat : m \in Good => m + 1 \in Good
    BY <1>3
  <2> HIDE DEF Good
  <2> QED
    BY <1>2, <2>1, CountingUp
<1> QED
  BY <1>1, <1>4 DEF Runs

-----------------------------------------------------------------------------
(* Lists of the members of a finite set in a total order R.                   *)

IsTotal(R, S) ==
  /\ \A x, y \in S : x # y => <<x, y>> \in R \/ <<y, x>> \in R
  /\ \A x, y, z \in S : <<x, y>> \in R /\ <<y, z>> \in R => <<x, z>> \in R

ListsAll(order, S, n, R) ==
  /\ order \in [1..n -> S]
  /\ \A i, j \in 1..n : i < j => <<order[i], order[j]>> \in R
  /\ \A x \in S : \E i \in 1..n : order[i] = x

LEMMA LastInOrder ==
  ASSUME NEW S, IsFiniteSet(S), NEW R, IsTotal(R, S), S # {}
  PROVE  \E w \in S : \A x \in S \ {w} : <<x, w>> \in R
<1> DEFINE G == {T \in SUBSET S : T # {} => \E w \in T : \A x \in T \ {w} : <<x, w>> \in R}
<1>1. ASSUME NEW T \in SUBSET S, \A U \in SUBSET T : U # T => U \in G
      PROVE  T \in G
  <2> SUFFICES ASSUME NEW x \in T PROVE \E w \in T : \A y \in T \ {w} : <<y, w>> \in R
    OBVIOUS
  <2>1. CASE T \ {x} = {}
    BY <2>1
  <2>2. CASE T \ {x} # {}
    <3>1. T \ {x} \in SUBSET T /\ T \ {x} # T
      OBVIOUS
    <3>2. T \ {x} \in G
      <4> HIDE DEF G
      <4> QED
        BY <1>1, <3>1
    <3>3. PICK w \in T \ {x} : \A y \in (T \ {x}) \ {w} : <<y, w>> \in R
      BY <2>2, <3>2
    <3>4. CASE <<x, w>> \in R
      BY <3>3, <3>4
    <3>5. CASE <<x, w>> \notin R
      <4>1. <<w, x>> \in R
        BY <3>3, <3>5 DEF IsTotal
      <4>2. ASSUME NEW y \in T \ {x} PROVE <<y, x>> \in R
        <5>1. y \in S /\ w \in S /\ x \in S
          BY <3>3
        <5> QED
          BY <3>3, <4>1, <5>1 DEF IsTotal
      <4> QED
        BY <4>2
    <3> QED
      BY <3>4, <3>5
  <2> QED
    BY <2>1, <2>2
<1>2. \A T \in SUBSET S : T \in G
  <2> HIDE DEF G
  <2> QED
    BY <1>1, SetInduction
<1> QED
  BY <1>2

LEMMA ListExists ==
  ASSUME NEW S, IsFiniteSet(S), NEW R, IsTotal(R, S)
  PROVE  Cardinality(S) \in Nat /\ \E order : ListsAll(order, S, Cardinality(S), R)
<1> DEFINE G == {T \in SUBSET S : \E order : ListsAll(order, T, Cardinality(T), R)}
<1>1. ASSUME NEW T \in SUBSET S, \A U \in SUBSET T : U # T => U \in G
      PROVE  \E order : ListsAll(order, T, Cardinality(T), R)
  <2>0. IsFiniteSet(T) /\ Cardinality(T) \in Nat
    BY FS_Subset, FS_CardinalityType
  <2>1. CASE T = {}
    <3>1. Cardinality(T) = 0
      BY <2>1, FS_EmptySet
    <3>2. ListsAll([i \in 1..0 |-> 0], T, 0, R)
      BY <2>1 DEF ListsAll
    <3> QED
      BY <3>1, <3>2
  <2>2. CASE T # {}
    <3>0. IsTotal(R, T)
      BY DEF IsTotal
    <3>1. PICK w \in T : \A x \in T \ {w} : <<x, w>> \in R
      BY <2>0, <2>2, <3>0, LastInOrder
    <3>2. T \ {w} \in G
      <4>1. T \ {w} \in SUBSET T /\ T \ {w} # T
        OBVIOUS
      <4> HIDE DEF G
      <4> QED
        BY <1>1, <4>1
    <3>3. PICK before : ListsAll(before, T \ {w}, Cardinality(T \ {w}), R)
      BY <3>2
    <3>4. Cardinality(T \ {w}) = Cardinality(T) - 1 /\ Cardinality(T \ {w}) \in Nat
      BY <2>0, FS_RemoveElement, FS_CardinalityType
    <3> DEFINE n == Cardinality(T)
               order == [i \in 1..n |-> IF i = n THEN w ELSE before[i]]
    <3>5. n \in Nat \ {0} /\ ListsAll(before, T \ {w}, n - 1, R)
      BY <2>0, <3>3, <3>4
    <3> HIDE DEF n
    <3>6. \A i \in 1..n : i # n => i \in 1..(n - 1) /\ before[i] \in T \ {w}
      BY <3>5 DEF ListsAll
    <3>7. order \in [1..n -> T]
      BY <3>6
    <3>8. ASSUME NEW i \in 1..n, NEW j \in 1..n, i < j
          PROVE  <<order[i], order[j]>> \in R
      <4>1. i # n
        BY <3>5, <3>8
      <4>2. CASE j = n
        BY <3>1, <3>6, <4>1, <4>2
      <4>3. CASE j # n
        BY <3>5, <3>6, <3>8, <4>1, <4>3 DEF ListsAll
      <4> QED
        BY <4>2, <4>3
    <3>9. ASSUME NEW x \in T PROVE \E i \in 1..n : order[i] = x
      <4>1. CASE x = w
        <5>1. n \in 1..n /\ order[n] = w
          BY <3>5
        <5> QED
          BY <4>1, <5>1
      <4>2. CASE x # w
        <5>1. PICK i \in 1..(n - 1) : before[i] = x
          BY <3>5, <4>2 DEF ListsAll
        <5>2. i \in 1..n /\ i # n
          BY <3>5
        <5> QED
          BY <5>1, <5>2
      <4> QED
        BY <4>1, <4>2
    <3> HIDE DEF order
    <3>10. ListsAll(order, T, n, R)
      BY <3>7, <3>8, <3>9 DEF ListsAll
    <3> QED
      BY <3>10 DEF n
  <2> QED
    BY <2>1, <2>2
<1>2. \A T \in SUBSET S : (\A U \in SUBSET T : U # T => U \in G) => T \in G
  BY <1>1
<1>3. \A T \in SUBSET S : T \in G
  <2> HIDE DEF G
  <2> QED
    BY <1>2, SetInduction
<1>4. \E order : ListsAll(order, S, Cardinality(S), R)
  BY <1>3
<1>5. Cardinality(S) \in Nat
  BY FS_CardinalityType
<1> QED
  BY <1>4, <1>5

-----------------------------------------------------------------------------
(* Sums over a finite set (MapThenSumSet of FiniteSetsExt).                  *)

Total(f, S) == MapThenSumSet(LAMBDA x : f[x], S)

Some(s) == CHOOSE x \in s : TRUE

(* A function that adds up f over every subset of S.                         *)
AddsUp(g, f, S) ==
    g = [s \in SUBSET S |-> IF s = {} THEN 0 ELSE f[Some(s)] + g[s \ {Some(s)}]]

AddingUp(f, S) == CHOOSE g : AddsUp(g, f, S)

(* MapThenSumSet is that function at S.                                      *)
LEMMA TotalIsAdded == \A f, S : Total(f, S) = AddingUp(f, S)[S]
  BY DEF Total, AddingUp, AddsUp, Some, MapThenSumSet, MapThenFoldSet

(* The function exists, and its values are integers.                        *)
LEMMA AddingUpAdds ==
  ASSUME NEW S, IsFiniteSet(S), NEW f, \A x \in S : f[x] \in Int
  PROVE  /\ AddsUp(AddingUp(f, S), f, S)
         /\ AddingUp(f, S) \in [SUBSET S -> Int]
<1> DEFINE pick == [s \in SUBSET S |-> Some(s)]
           step == [x \in S \X Int |-> f[x[1]] + x[2]]
<1>1. Picks(pick, S) /\ \A s \in SUBSET S : s # {} => pick[s] \in s /\ pick[s] = Some(s)
  BY DEF Some, Picks
<1>2. step \in [S \X Int -> Int]
  OBVIOUS
<1>3. PICK g \in [SUBSET S -> Int] : IsFold(g, S, pick, 0, step)
  <2> HIDE DEF pick, step
  <2> QED
    BY <1>1, <1>2, FoldExists, 0 \in Int
<1>4. ASSUME NEW s \in SUBSET S, s # {}
      PROVE  step[<<pick[s], g[s \ {pick[s]}]>>] = f[Some(s)] + g[s \ {Some(s)}]
  <2>1. pick[s] = Some(s) /\ Some(s) \in S /\ g[s \ {Some(s)}] \in Int
    BY <1>1, <1>3, <1>4
  <2> QED
    BY <2>1
<1>5. AddsUp(g, f, S)
  <2> HIDE DEF pick, step
  <2> QED
    BY <1>3, <1>4 DEF AddsUp, IsFold
<1>6. AddsUp(AddingUp(f, S), f, S)
  BY <1>5 DEF AddingUp
<1> DEFINE h == AddingUp(f, S)
           G == {s \in SUBSET S : h[s] \in Int}
<1>7. ASSUME NEW T \in SUBSET S, \A U \in SUBSET T : U # T => U \in G
      PROVE  T \in G
  <2>1. CASE T = {}
    BY <1>6, <2>1 DEF AddsUp
  <2>2. CASE T # {}
    <3>1. Some(T) \in T
      BY <2>2 DEF Some
    <3>2. h[T \ {Some(T)}] \in Int
      <4>1. T \ {Some(T)} \in SUBSET T /\ T \ {Some(T)} # T
        BY <3>1
      <4>2. T \ {Some(T)} \in G
        <5> HIDE DEF G
        <5> QED
          BY <1>7, <4>1
      <4> QED
        BY <4>2
    <3>3. h[T] = f[Some(T)] + h[T \ {Some(T)}]
      BY <1>6, <2>2 DEF AddsUp
    <3> QED
      BY <3>1, <3>2, <3>3
  <2> QED
    BY <2>1, <2>2
<1>8. \A T \in SUBSET S : T \in G
  <2> HIDE DEF G
  <2> QED
    BY <1>7, SetInduction
<1>9. h = [s \in SUBSET S |-> h[s]]
  BY <1>6 DEF AddsUp
<1> QED
  BY <1>6, <1>8, <1>9

(* A total of integers is an integer.                                       *)
LEMMA TotalType ==
  ASSUME NEW S, IsFiniteSet(S), NEW f, \A x \in S : f[x] \in Int
  PROVE  Total(f, S) \in Int
  BY AddingUpAdds, TotalIsAdded

(* Nothing adds up to zero.                                                 *)
LEMMA TotalEmpty == \A f : Total(f, {}) = 0
<1> SUFFICES ASSUME NEW f PROVE Total(f, {}) = 0
  OBVIOUS
<1>1. AddsUp(AddingUp(f, {}), f, {})
  BY FS_EmptySet, AddingUpAdds
<1> QED
  BY <1>1, TotalIsAdded DEF AddsUp

(* Adding up over a subset is part of adding up over the set.                *)
LEMMA TotalPicks ==
  ASSUME NEW S, IsFiniteSet(S), NEW f, \A x \in S : f[x] \in Int, S # {}
  PROVE  Some(S) \in S /\ Total(f, S) = f[Some(S)] + Total(f, S \ {Some(S)})
<1> DEFINE R == S \ {Some(S)}
           g == AddingUp(f, S)
           h == AddingUp(f, R)
           G == {s \in SUBSET R : g[s] = h[s]}
<1>1. Some(S) \in S
  BY DEF Some
<1>2. IsFiniteSet(R) /\ \A x \in R : f[x] \in Int
  BY FS_Subset
<1>3. AddsUp(g, f, S) /\ AddsUp(h, f, R)
  <2> HIDE DEF R
  <2> QED
    BY <1>2, AddingUpAdds
<1>4. ASSUME NEW T \in SUBSET R, \A U \in SUBSET T : U # T => U \in G
      PROVE  T \in G
  <2>0. T \in SUBSET S
    OBVIOUS
  <2>1. CASE T = {}
    BY <1>3, <2>0, <2>1 DEF AddsUp
  <2>2. CASE T # {}
    <3>1. Some(T) \in T
      BY <2>2 DEF Some
    <3>2. g[T \ {Some(T)}] = h[T \ {Some(T)}]
      <4>1. T \ {Some(T)} \in SUBSET T /\ T \ {Some(T)} # T
        BY <3>1
      <4>2. T \ {Some(T)} \in G
        <5> HIDE DEF G
        <5> QED
          BY <1>4, <4>1
      <4> QED
        BY <4>2
    <3>3. g[T] = f[Some(T)] + g[T \ {Some(T)}] /\ h[T] = f[Some(T)] + h[T \ {Some(T)}]
      <4> HIDE DEF g, h, R
      <4> QED
        BY <1>3, <2>0, <2>2 DEF AddsUp
    <3> QED
      BY <3>2, <3>3
  <2> QED
    BY <2>1, <2>2
<1>5. \A T \in SUBSET R : T \in G
  <2> HIDE DEF G, R
  <2> QED
    BY <1>2, <1>4, SetInduction
<1>6. g[R] = h[R]
  BY <1>5
<1>7. g[S] = f[Some(S)] + g[R]
  <2> HIDE DEF g
  <2> QED
    BY <1>3 DEF AddsUp
<1> QED
  BY <1>1, <1>6, <1>7, TotalIsAdded

(* The total is that of any element and of the rest.                         *)
LEMMA TotalSplits ==
  ASSUME NEW S, IsFiniteSet(S), NEW f, \A x \in S : f[x] \in Int
  PROVE  \A x \in S : Total(f, S) = f[x] + Total(f, S \ {x})
<1> DEFINE G == {T \in SUBSET S : \A x \in T : Total(f, T) = f[x] + Total(f, T \ {x})}
<1>0. \A T \in SUBSET S : IsFiniteSet(T) /\ Total(f, T) \in Int
  BY FS_Subset, TotalType
<1>1. ASSUME NEW T \in SUBSET S, \A U \in SUBSET T : U # T => U \in G
      PROVE  T \in G
  <2> SUFFICES ASSUME NEW x \in T PROVE Total(f, T) = f[x] + Total(f, T \ {x})
    OBVIOUS
  <2> DEFINE y == Some(T)
  <2>1. y \in T /\ Total(f, T) = f[y] + Total(f, T \ {y})
    BY <1>0, TotalPicks
  <2>2. CASE x = y
    BY <2>1, <2>2
  <2>3. CASE x # y
    <3>1. T \ {y} \in G /\ T \ {x} \in G /\ x \in T \ {y} /\ y \in T \ {x}
      BY <1>1, <2>1, <2>3
    <3>2. Total(f, T \ {y}) = f[x] + Total(f, (T \ {y}) \ {x})
      BY <3>1
    <3>3. Total(f, T \ {x}) = f[y] + Total(f, (T \ {x}) \ {y})
      BY <3>1
    <3>4. (T \ {x}) \ {y} = (T \ {y}) \ {x}
      OBVIOUS
    <3>5. Total(f, (T \ {x}) \ {y}) \in Int /\ f[x] \in Int /\ f[y] \in Int
      BY <1>0, <2>1
    <3> DEFINE all == Total(f, T)
               noX == Total(f, T \ {x})
               noY == Total(f, T \ {y})
               rest == Total(f, (T \ {x}) \ {y})
    <3>6. all = f[y] + noY /\ noY = f[x] + rest /\ noX = f[y] + rest /\ rest \in Int
      BY <2>1, <3>2, <3>3, <3>4, <3>5
    <3> HIDE DEF y, all, noX, noY, rest
    <3>7. all = f[x] + noX
      BY <3>5, <3>6
    <3> QED
      BY <3>7 DEF all, noX
  <2> QED
    BY <2>2, <2>3
<1>2. \A T \in SUBSET S : T \in G
  <2> HIDE DEF G
  <2> QED
    BY <1>1, SetInduction
<1> QED
  BY <1>2

(* The total depends on the values over the set only.                        *)
LEMMA TotalSame ==
  ASSUME NEW S, IsFiniteSet(S), NEW f, NEW g, \A x \in S : f[x] \in Int /\ g[x] = f[x]
  PROVE  Total(g, S) = Total(f, S)
<1> DEFINE G == {T \in SUBSET S : Total(g, T) = Total(f, T)}
<1>1. ASSUME NEW T \in SUBSET S, \A U \in SUBSET T : U # T => U \in G
      PROVE  T \in G
  <2>1. CASE T = {}
    BY <2>1, TotalEmpty
  <2>2. CASE T # {}
    <3>0. IsFiniteSet(T)
      BY FS_Subset
    <3>1. PICK x \in T : TRUE
      BY <2>2
    <3>2. Total(f, T) = f[x] + Total(f, T \ {x}) /\ Total(g, T) = g[x] + Total(g, T \ {x})
      BY <3>0, TotalSplits
    <3>3. Total(g, T \ {x}) = Total(f, T \ {x})
      BY <1>1
    <3> QED
      BY <3>2, <3>3
  <2> QED
    BY <2>1, <2>2
<1>2. \A T \in SUBSET S : T \in G
  <2> HIDE DEF G
  <2> QED
    BY <1>1, SetInduction
<1> QED
  BY <1>2

(* One value changes, and the total by as much.                              *)
LEMMA TotalChanges ==
  ASSUME NEW S, IsFiniteSet(S), NEW f, NEW g, NEW x \in S, g[x] \in Int,
         \A y \in S : f[y] \in Int, \A y \in S \ {x} : g[y] = f[y]
  PROVE  Total(g, S) = Total(f, S) - f[x] + g[x]
<1>1. IsFiniteSet(S \ {x})
  BY FS_Subset
<1>2. Total(f, S) = f[x] + Total(f, S \ {x}) /\ Total(g, S) = g[x] + Total(g, S \ {x})
  BY TotalSplits
<1>3. Total(g, S \ {x}) = Total(f, S \ {x}) /\ Total(f, S \ {x}) \in Int
  BY <1>1, TotalSame, TotalType
<1> QED
  BY <1>2, <1>3

(* Zeros add up to zero.                                                    *)
LEMMA TotalOfZero ==
  ASSUME NEW S, IsFiniteSet(S), NEW f, \A x \in S : f[x] = 0
  PROVE  Total(f, S) = 0
<1> DEFINE G == {T \in SUBSET S : Total(f, T) = 0}
<1>1. ASSUME NEW T \in SUBSET S, \A U \in SUBSET T : U # T => U \in G
      PROVE  T \in G
  <2>1. CASE T = {}
    BY <2>1, TotalEmpty
  <2>2. CASE T # {}
    <3>0. IsFiniteSet(T)
      BY FS_Subset
    <3>1. PICK x \in T : TRUE
      BY <2>2
    <3>2. Total(f, T) = f[x] + Total(f, T \ {x})
      BY <3>0, TotalSplits
    <3>3. Total(f, T \ {x}) = 0
      BY <1>1
    <3> QED
      BY <3>2, <3>3
  <2> QED
    BY <2>1, <2>2
<1>2. \A T \in SUBSET S : T \in G
  <2> HIDE DEF G
  <2> QED
    BY <1>1, SetInduction
<1> QED
  BY <1>2
(* Two disjoint sets add up to their union.                                  *)
LEMMA TotalOfUnion ==
  ASSUME NEW A, IsFiniteSet(A), NEW B, IsFiniteSet(B), A \cap B = {},
         NEW f, \A x \in A \cup B : f[x] \in Int
  PROVE  Total(f, A \cup B) = Total(f, A) + Total(f, B)
<1> DEFINE G == {T \in SUBSET A : Total(f, T \cup B) = Total(f, T) + Total(f, B)}
<1>0. \A T \in SUBSET A : /\ IsFiniteSet(T) /\ IsFiniteSet(T \cup B)
                          /\ Total(f, T) \in Int /\ Total(f, B) \in Int
                          /\ Total(f, T \cup B) \in Int
  <2> SUFFICES ASSUME NEW T \in SUBSET A
               PROVE  /\ IsFiniteSet(T) /\ IsFiniteSet(T \cup B)
                      /\ Total(f, T) \in Int /\ Total(f, B) \in Int
                      /\ Total(f, T \cup B) \in Int
    OBVIOUS
  <2>1. IsFiniteSet(T) /\ IsFiniteSet(T \cup B)
    BY FS_Subset, FS_Union
  <2>2. \A x \in T \cup B : f[x] \in Int
    OBVIOUS
  <2> QED
    BY <2>1, <2>2, TotalType
<1>1. ASSUME NEW T \in SUBSET A, \A U \in SUBSET T : U # T => U \in G
      PROVE  T \in G
  <2>1. CASE T = {}
    <3>1. T \cup B = B /\ Total(f, T) = 0
      BY <2>1, TotalEmpty
    <3> QED
      BY <1>0, <3>1
  <2>2. CASE T # {}
    <3>1. PICK x \in T : TRUE
      BY <2>2
    <3> DEFINE rest == T \ {x}
    <3>2. rest \in G /\ rest \in SUBSET A
      BY <1>1, <3>1
    <3>3. (T \cup B) \ {x} = rest \cup B
      BY <3>1
    <3>4. Total(f, T \cup B) = f[x] + Total(f, (T \cup B) \ {x})
      BY <1>0, <3>1, TotalSplits
    <3>5. Total(f, T) = f[x] + Total(f, rest)
      BY <1>0, <3>1, TotalSplits
    <3> DEFINE a == Total(f, T \cup B)
               b == Total(f, rest \cup B)
               c == Total(f, T)
               d == Total(f, rest)
               e == Total(f, B)
    <3>6. /\ a \in Int /\ b \in Int /\ c \in Int /\ d \in Int /\ e \in Int /\ f[x] \in Int
          /\ a = f[x] + b /\ c = f[x] + d /\ b = d + e
      BY <1>0, <3>1, <3>2, <3>3, <3>4, <3>5
    <3> HIDE DEF a, b, c, d, e
    <3>7. a = c + e
      BY <3>6
    <3> QED
      BY <3>7 DEF a, c, e
  <2> QED
    BY <2>1, <2>2
<1> HIDE DEF G
<1>2. A \in G
  BY <1>1, SetInduction
<1> QED
  BY <1>2 DEF G
=============================================================================
