--------------------------- MODULE PoolEngineProofs ---------------------------
(***************************************************************************)
(* The plan of the pooled book keeps the rules for every set of pairs, ranks,  *)
(* clips and limits, and so does every decision that uses one; and what a plan *)
(* that is not short of room approves, it has a slot for.                     *)
(***************************************************************************)
EXTENDS PoolEngine, FoldLemmas, TLAPS

-----------------------------------------------------------------------------
(* The order of the ranks.                                                  *)

Ranked == Pairs \subseteq Nat /\ IsFiniteSet(Pairs) /\ \A p \in Pairs : snap[p].rank \in Int

LEMMA SnapsAreRanked ==
    ASSUME TypeOK
    PROVE  /\ Ranked
           /\ \A p \in Pairs : snap[p].candidate \in BOOLEAN
           /\ \A p \in Pairs : snap[p].candidate => snap[p].rank # Broken
<1>1. \A s \in Snaps : s.rank \in Int /\ s.candidate \in BOOLEAN
                       /\ (s.candidate => s.rank # Broken)
    <2> SUFFICES ASSUME NEW s \in Snaps
                 PROVE  s.rank \in Int /\ s.candidate \in BOOLEAN /\ (s.candidate => s.rank # Broken)
        OBVIOUS
    <2>1. CASE s \in [rank : Ranks, candidate : BOOLEAN]
        <3>1. s.rank \in Nat /\ s.candidate \in BOOLEAN
            BY <2>1, RanksAssumption
        <3> QED
            BY <3>1 DEF Broken
    <2>2. CASE s = [rank |-> Broken, candidate |-> FALSE]
        BY <2>2 DEF Broken
    <2> QED
        BY <2>1, <2>2 DEF Snaps
<1>2. snap \in [Pairs -> Snaps]
    BY DEF TypeOK
<1> QED
    BY <1>1, <1>2, PairsAssumption DEF Ranked

(* compareRank never puts two names before each other, nor leaves two apart.  *)
LEMMA RanksOrder ==
    ASSUME Ranked, NEW p \in Pairs, NEW q \in Pairs
    PROVE  /\ ~(Outranks(p, q) /\ Outranks(q, p))
           /\ p # q => Outranks(p, q) \/ Outranks(q, p)
<1>1. p \in Nat /\ q \in Nat /\ snap[p].rank \in Int /\ snap[q].rank \in Int
    BY DEF Ranked
<1> QED
    BY <1>1 DEF Outranks

LEMMA RanksGoOn ==
    ASSUME Ranked, NEW p \in Pairs, NEW q \in Pairs, NEW r \in Pairs,
           Outranks(p, q), Outranks(q, r)
    PROVE  Outranks(p, r)
<1>1. /\ p \in Nat /\ q \in Nat /\ r \in Nat
      /\ snap[p].rank \in Int /\ snap[q].rank \in Int /\ snap[r].rank \in Int
    BY DEF Ranked
<1> QED
    BY <1>1 DEF Outranks

(* Some name comes last.                                                    *)
LEMMA LastExists ==
    ASSUME Ranked, NEW S \in SUBSET Pairs, S # {}
    PROVE  \E w \in S : \A p \in S \ {w} : Outranks(p, w)
<1> DEFINE G == {T \in SUBSET S : T # {} => \E w \in T : \A p \in T \ {w} : Outranks(p, w)}
<1>1. ASSUME NEW T \in SUBSET S, \A U \in SUBSET T : U # T => U \in G
      PROVE  T \in G
    <2> SUFFICES ASSUME NEW x \in T PROVE \E w \in T : \A p \in T \ {w} : Outranks(p, w)
        OBVIOUS
    <2>1. CASE T \ {x} = {}
        BY <2>1
    <2>2. CASE T \ {x} # {}
        <3>1. T \ {x} \in G
            BY <1>1
        <3>2. PICK w \in T \ {x} : \A p \in (T \ {x}) \ {w} : Outranks(p, w)
            BY <2>2, <3>1
        <3>3. CASE Outranks(x, w)
            BY <3>2, <3>3
        <3>4. CASE ~Outranks(x, w)
            <4>1. Outranks(w, x)
                BY <3>2, <3>4, RanksOrder
            <4>2. ASSUME NEW p \in T \ {x} PROVE Outranks(p, x)
                <5>1. p \in Pairs /\ w \in Pairs /\ x \in Pairs
                    BY <3>2
                <5> QED
                    BY <3>2, <4>1, <5>1, RanksGoOn
            <4> QED
                BY <4>2
        <3> QED
            BY <3>3, <3>4
    <2> QED
        BY <2>1, <2>2
<1>2. IsFiniteSet(S)
    BY FS_Subset DEF Ranked
<1> HIDE DEF G
<1>3. \A T \in SUBSET S : T \in G
    BY <1>1, <1>2, SetInduction
<1> QED
    BY <1>3 DEF G

LEMMA WeakestIsLast ==
    ASSUME Ranked, Live # {}
    PROVE  Weakest \in Live /\ \A p \in Live \ {Weakest} : Outranks(p, Weakest)
<1>1. Live \in SUBSET Pairs
    BY DEF Live, Longs
<1>2. \E w \in Live : \A p \in Live \ {w} : Outranks(p, w)
    BY <1>1, LastExists
<1> QED
    BY <1>2 DEF Weakest

(* order lists the names of S, the strongest first.                          *)
Lists(order, S, n) ==
    /\ order \in [1..n -> S]
    /\ \A i, j \in 1..n : i < j => Outranks(order[i], order[j])
    /\ \A p \in S : \E i \in 1..n : order[i] = p

LEMMA SortedLists ==
    ASSUME Ranked, NEW S \in SUBSET Pairs
    PROVE  /\ Cardinality(S) \in Nat
           /\ Lists(Sorted(S), S, Cardinality(S))
<1> DEFINE G == {T \in SUBSET S : \E order : Lists(order, T, Cardinality(T))}
<1>1. IsFiniteSet(S)
    BY FS_Subset DEF Ranked
<1>2. ASSUME NEW T \in SUBSET S, \A U \in SUBSET T : U # T => U \in G
      PROVE  \E order : Lists(order, T, Cardinality(T))
    <2>0. IsFiniteSet(T) /\ Cardinality(T) \in Nat
        BY <1>1, FS_Subset, FS_CardinalityType
    <2>1. CASE T = {}
        <3>1. Cardinality(T) = 0
            BY <2>1, FS_EmptySet
        <3>2. Lists([i \in 1..0 |-> 0], T, 0)
            BY <2>1 DEF Lists
        <3> QED
            BY <3>1, <3>2
    <2>2. CASE T # {}
        <3>1. PICK w \in T : \A p \in T \ {w} : Outranks(p, w)
            BY <2>2, LastExists
        <3>2. T \ {w} \in G
            BY <1>2
        <3>3. PICK before : Lists(before, T \ {w}, Cardinality(T \ {w}))
            BY <3>2
        <3>4. Cardinality(T \ {w}) = Cardinality(T) - 1 /\ Cardinality(T \ {w}) \in Nat
            BY <2>0, FS_RemoveElement, FS_CardinalityType
        <3> DEFINE n == Cardinality(T)
                   order == [i \in 1..n |-> IF i = n THEN w ELSE before[i]]
        <3>5. n \in Nat \ {0} /\ Lists(before, T \ {w}, n - 1)
            BY <2>0, <3>3, <3>4
        <3> HIDE DEF n
        <3>6. \A i \in 1..n : i # n => i \in 1..(n - 1) /\ before[i] \in T \ {w}
            BY <3>5 DEF Lists
        <3>7. order \in [1..n -> T]
            BY <3>6
        <3>8. ASSUME NEW i \in 1..n, NEW j \in 1..n, i < j
              PROVE  Outranks(order[i], order[j])
            <4>1. i # n
                BY <3>5, <3>8
            <4>2. CASE j = n
                BY <3>1, <3>6, <4>1, <4>2
            <4>3. CASE j # n
                BY <3>5, <3>6, <3>8, <4>1, <4>3 DEF Lists
            <4> QED
                BY <4>2, <4>3
        <3>9. ASSUME NEW p \in T PROVE \E i \in 1..n : order[i] = p
            <4>1. CASE p = w
                <5>1. n \in 1..n /\ order[n] = w
                    BY <3>5
                <5> QED
                    BY <4>1, <5>1
            <4>2. CASE p # w
                <5>1. PICK i \in 1..(n - 1) : before[i] = p
                    BY <3>5, <4>2 DEF Lists
                <5>2. i \in 1..n /\ i # n
                    BY <3>5
                <5> QED
                    BY <5>1, <5>2
            <4> QED
                BY <4>1, <4>2
        <3> HIDE DEF order
        <3>10. Lists(order, T, n)
            BY <3>7, <3>8, <3>9 DEF Lists
        <3> QED
            BY <3>10 DEF n
    <2> QED
        BY <2>1, <2>2
<1>3. \A T \in SUBSET S : (\A U \in SUBSET T : U # T => U \in G) => T \in G
    BY <1>2
<1> HIDE DEF G
<1>4. \A T \in SUBSET S : T \in G
    BY <1>1, <1>3, SetInduction
<1>5. PICK order : Lists(order, S, Cardinality(S))
    BY <1>4 DEF G
<1>6. Cardinality(S) \in Nat
    BY <1>1, FS_CardinalityType
<1>7. Lists(Sorted(S), S, Cardinality(S))
    BY <1>5 DEF Lists, Sorted
<1> QED
    BY <1>6, <1>7

-----------------------------------------------------------------------------
(* The plan, candidate by candidate: what Placed keeps of the rules for those  *)
(* it has seen.                                                             *)

PlanRecord == [enter : SUBSET Pairs, flatten : SUBSET Pairs, rotated : BOOLEAN]

Deserves(c) == Live # {} /\ snap[c].rank > snap[Weakest].rank

Rightly(seen, plan) ==
    /\ plan \in PlanRecord
    /\ plan.enter \subseteq seen
    /\ plan.flatten = (Longs \ Live) \cup (IF plan.rotated THEN {Weakest} ELSE {})
    /\ \A c \in plan.enter : ~Waits(plan.enter, c)
    /\ \A c \in seen \ plan.enter : Waits(plan.enter, c)
    /\ plan.rotated <=> \E c \in seen \ plan.enter : Deserves(c)

LEMMA AmountsAreNumbers ==
    ASSUME TypeOK
    PROVE  /\ Gross \in Int /\ Cash \in Int /\ bankroll \in Nat /\ maxGross \in Nat
           /\ maxConcurrent \in Nat
           /\ \A S \in SUBSET Pairs : Lots(S) \in Int
           /\ \A S \in SUBSET Pairs : IsFiniteSet(S) /\ Cardinality(S) \in Nat
           /\ \A p \in Pairs : Clip[p] \in Nat \ {0}
           /\ Live \in SUBSET Longs /\ Longs \in SUBSET Pairs /\ Candidates \in SUBSET Pairs
<1>1. /\ \A p \in Pairs : held[p] \in Int /\ resting[p] \in Int
      /\ bankroll \in Nat /\ maxGross \in Nat /\ maxConcurrent \in Nat /\ pairs \subseteq Pairs
    BY DEF TypeOK
<1>2. Total(held, Pairs) \in Int /\ Total(resting, Pairs) \in Int
    BY <1>1, PairsAssumption, TotalType
<1>3. \A S \in SUBSET Pairs : IsFiniteSet(S) /\ Cardinality(S) \in Nat
    BY PairsAssumption, FS_Subset, FS_CardinalityType
<1>4. \A p \in Pairs : Clip[p] \in Nat \ {0}
    BY PairsAssumption
<1>5. \A S \in SUBSET Pairs : Total(Clip, S) \in Int
    BY <1>3, <1>4, TotalType
<1>6. /\ Gross = Total(held, Pairs) + Total(resting, Pairs)
      /\ Cash = bankroll - Total(held, Pairs)
      /\ \A S \in SUBSET Pairs : Lots(S) = Total(Clip, S)
    BY DEF Gross, Cash, Lots, Total
<1>7. Live \in SUBSET Longs /\ Longs \in SUBSET Pairs /\ Candidates \in SUBSET Pairs
    BY <1>1 DEF Live, Longs, Candidates
<1>8. Gross \in Int /\ Cash \in Int
    BY <1>1, <1>2, <1>6
<1>9. \A S \in SUBSET Pairs : Lots(S) \in Int
    BY <1>5, <1>6
<1> QED
    BY <1>1, <1>3, <1>4, <1>7, <1>8, <1>9

LEMMA PlacedKeeps ==
    ASSUME TypeOK, NEW seen \in SUBSET Candidates, NEW c \in Candidates, c \notin seen,
           \A p \in seen : Outranks(p, c), NEW plan, Rightly(seen, plan)
    PROVE  Rightly(seen \cup {c}, Placed(plan, c))
<1>1. Ranked /\ c \in Pairs /\ seen \subseteq Pairs /\ Live \in SUBSET Pairs /\ Longs \in SUBSET Pairs
    BY SnapsAreRanked, AmountsAreNumbers
<1>2. plan \in PlanRecord /\ plan.enter \subseteq seen
    BY DEF Rightly
<1> DEFINE enter == plan.enter
           later == enter \cup {c}
<1>3. {p \in enter : Outranks(p, c)} = enter /\ {p \in later : Outranks(p, c)} = enter
    BY <1>1, <1>2, RanksOrder
<1>4. \A x \in seen : {p \in later : Outranks(p, x)} = {p \in enter : Outranks(p, x)}
    <2>1. \A x \in seen : ~Outranks(c, x)
        BY <1>1, RanksOrder
    <2> QED
        BY <2>1
<1>5. Fits(enter, c) <=> ~Waits(enter, c)
    <2>1. /\ Gross \in Int /\ Cash \in Int /\ maxGross \in Nat /\ maxConcurrent \in Nat
          /\ Lots(enter) \in Int /\ Clip[c] \in Nat
          /\ Cardinality(Live) \in Nat /\ Cardinality(enter) \in Nat
        BY <1>1, <1>2, AmountsAreNumbers
    <2> DEFINE lots == Lots(enter)
               longs == Cardinality(Live)
               entries == Cardinality(enter)
               better == {p \in enter : Outranks(p, c)}
    <2>2. Fits(enter, c) <=> /\ longs + entries < maxConcurrent
                            /\ Cash - lots >= Clip[c] /\ maxGross - Gross - lots >= Clip[c]
        BY DEF Fits
    <2>3. Waits(enter, c) <=> \/ longs + Cardinality(better) >= maxConcurrent
                             \/ Lots(better) + Clip[c] > Cash
                             \/ Gross + Lots(better) + Clip[c] > maxGross
        BY DEF Waits
    <2>4. better = enter
        BY <1>3
    <2> HIDE DEF better
    <2>5. Waits(enter, c) <=> \/ longs + entries >= maxConcurrent
                             \/ lots + Clip[c] > Cash
                             \/ Gross + lots + Clip[c] > maxGross
        BY <2>3, <2>4
    <2> HIDE DEF lots, longs, entries, enter
    <2> QED
        BY <2>1, <2>2, <2>5 DEF lots, longs, entries
<1>6. Waits(later, c) <=> Waits(enter, c)
    BY <1>3 DEF Waits
<1>7. \A x \in seen : Waits(later, x) <=> Waits(enter, x)
    BY <1>4 DEF Waits
<1>8. Rotates(plan, c) <=> ~plan.rotated /\ Deserves(c)
    BY DEF Rotates, Deserves
<1>9. Deserves(c) => Weakest \in Pairs
    BY <1>1, WeakestIsLast DEF Deserves
<1> HIDE DEF later
<1>10. CASE Fits(enter, c)
    <2>1. Placed(plan, c) = [plan EXCEPT !.enter = @ \cup {c}]
        BY <1>10 DEF Placed
    <2>2. /\ Placed(plan, c) \in PlanRecord /\ Placed(plan, c).enter = later
          /\ Placed(plan, c).flatten = plan.flatten /\ Placed(plan, c).rotated = plan.rotated
        BY <1>1, <1>2, <2>1 DEF PlanRecord, later
    <2>3. (seen \cup {c}) \ later = seen \ enter
        BY DEF later
    <2>4. \A x \in later : ~Waits(later, x)
        BY <1>2, <1>5, <1>6, <1>7, <1>10 DEF Rightly, later
    <2>5. later \subseteq seen \cup {c}
        BY <1>2 DEF later
    <2> QED
        BY <1>2, <1>7, <2>2, <2>3, <2>4, <2>5 DEF Rightly
<1>11. CASE ~Fits(enter, c) /\ Rotates(plan, c)
    <2>1. Placed(plan, c) = [plan EXCEPT !.flatten = @ \cup {Weakest}, !.rotated = TRUE]
        BY <1>11 DEF Placed
    <2>2. /\ Placed(plan, c) \in PlanRecord /\ Placed(plan, c).enter = enter
          /\ Placed(plan, c).flatten = plan.flatten \cup {Weakest} /\ Placed(plan, c).rotated
        BY <1>2, <1>8, <1>9, <1>11, <2>1 DEF PlanRecord
    <2>3. plan.flatten = Longs \ Live
        BY <1>8, <1>11 DEF Rightly
    <2>4. (seen \cup {c}) \ enter = (seen \ enter) \cup {c}
        BY <1>2
    <2> QED
        BY <1>2, <1>5, <1>8, <1>11, <2>2, <2>3, <2>4 DEF Rightly
<1>12. CASE ~Fits(enter, c) /\ ~Rotates(plan, c)
    <2>1. Placed(plan, c) = plan
        BY <1>12 DEF Placed
    <2>2. (seen \cup {c}) \ enter = (seen \ enter) \cup {c}
        BY <1>2
    <2> QED
        BY <1>2, <1>5, <1>8, <1>12, <2>1, <2>2 DEF Rightly
<1> QED
    BY <1>10, <1>11, <1>12

-----------------------------------------------------------------------------
(* The whole plan: the fold goes through the candidates one by one.           *)

Base == [enter |-> {}, flatten |-> Longs \ Live, rotated |-> FALSE]

Goes(iter, order, n) ==
    iter = [s \in SUBSET (1..n) |->
              IF s = {} THEN Base ELSE Placed(iter[s \ {Max(s)}], order[Max(s)])]

LEMMA PlacedIsARecord ==
    ASSUME TypeOK, NEW plan \in PlanRecord, NEW c \in Candidates
    PROVE  Placed(plan, c) \in PlanRecord
<1>1. c \in Pairs
    BY AmountsAreNumbers
<1>2. Rotates(plan, c) => Weakest \in Pairs
    <2>1. Live \subseteq Pairs /\ Ranked
        BY AmountsAreNumbers, SnapsAreRanked
    <2> QED
        BY <2>1, WeakestIsLast DEF Rotates
<1>3. CASE Fits(plan.enter, c)
    BY <1>1, <1>3 DEF Placed, PlanRecord
<1>4. CASE ~Fits(plan.enter, c) /\ Rotates(plan, c)
    BY <1>2, <1>4 DEF Placed, PlanRecord
<1>5. CASE ~Fits(plan.enter, c) /\ ~Rotates(plan, c)
    BY <1>5 DEF Placed
<1> QED
    BY <1>3, <1>4, <1>5

LEMMA PlanIsAFold ==
    ASSUME TypeOK, ~tripped
    PROVE  \E iter :
              /\ Goes(iter, Sorted(Candidates), Cardinality(Candidates))
              /\ Plan = iter[1..Cardinality(Candidates)]
<1> DEFINE n == Cardinality(Candidates)
           order == Sorted(Candidates)
<1>1. n \in Nat /\ order \in [1..n -> Candidates] /\ Longs \in SUBSET Pairs
    BY SnapsAreRanked, AmountsAreNumbers, SortedLists DEF Lists
<1> DEFINE D == 1..n
           pick == [s \in SUBSET D |-> Max(s)]
           step == [x \in D \X PlanRecord |-> Placed(x[2], order[x[1]])]
           chosen == CHOOSE iter : Goes(iter, order, n)
<1>2. IsFiniteSet(D)
    BY <1>1, FS_Interval
<1>3. \A s \in SUBSET D : s # {} => Max(s) \in s
    <2> SUFFICES ASSUME NEW s \in SUBSET D, s # {} PROVE Max(s) \in s
        OBVIOUS
    <2>1. IsFiniteSet(s)
        BY <1>2, FS_Subset
    <2>2. s \subseteq Int
        BY <1>1
    <2> HIDE DEF D
    <2> QED
        BY <2>1, <2>2, MaxExists
<1>4. Picks(pick, D)
    BY <1>3 DEF Picks
<1>5. step \in [D \X PlanRecord -> PlanRecord]
    BY <1>1, PlacedIsARecord
<1>6. Base \in PlanRecord
    BY <1>1 DEF Base, PlanRecord
<1>7. PICK g \in [SUBSET D -> PlanRecord] : IsFold(g, D, pick, Base, step)
    <2> HIDE DEF D, pick, step
    <2> QED
        BY <1>2, <1>4, <1>5, <1>6, FoldExists
<1>8. Goes(g, order, n)
    <2>1. ASSUME NEW s \in SUBSET D, s # {}
          PROVE  step[<<pick[s], g[s \ {pick[s]}]>>] = Placed(g[s \ {Max(s)}], order[Max(s)])
        <3>1. pick[s] = Max(s) /\ Max(s) \in D /\ s \ {Max(s)} \in SUBSET D
            BY <1>3, <2>1
        <3>2. g[s \ {Max(s)}] \in PlanRecord
            BY <1>7, <3>1
        <3> HIDE DEF D
        <3> QED
            BY <3>1, <3>2
    <2>2. \A s \in SUBSET D :
             g[s] = IF s = {} THEN Base ELSE Placed(g[s \ {Max(s)}], order[Max(s)])
        BY <1>7, <2>1 DEF IsFold
    <2> QED
        BY <1>7, <2>2 DEF Goes
<1>9. Goes(chosen, order, n)
    BY <1>8
<1>10. DOMAIN order = D
    BY <1>1
<1>11. Plan = chosen[D]
    <2>1. Plan = FoldLeft(Placed, Base, order)
        BY DEF Plan, Base
    <2>2. FoldLeft(Placed, Base, order) =
            (CHOOSE iter : iter = [s \in SUBSET DOMAIN order |->
                IF s = {} THEN Base
                ELSE Placed(iter[s \ {Max(s)}], order[Max(s)])])[DOMAIN order]
        BY DEF FoldLeft, MapThenFoldSet
    <2> QED
        BY <1>10, <2>1, <2>2 DEF Goes
<1> QED
    BY <1>9, <1>11

(* planRotation does what the plan document locks.                           *)
LEMMA PlanIsRight ==
    ASSUME TypeOK, ~tripped
    PROVE  Rightly(Candidates, Plan)
<1> DEFINE n == Cardinality(Candidates)
           order == Sorted(Candidates)
           Seen(i) == {order[j] : j \in 1..i}
<1>1. PICK iter : Goes(iter, order, n) /\ Plan = iter[1..n]
    BY PlanIsAFold
<1>2. n \in Nat /\ Lists(order, Candidates, n)
    BY SnapsAreRanked, AmountsAreNumbers, SortedLists
<1>3. Ranked /\ Candidates \in SUBSET Pairs /\ Longs \in SUBSET Pairs
    BY SnapsAreRanked, AmountsAreNumbers
<1> HIDE DEF n, order
<1> DEFINE G == {i \in Nat : i <= n => Rightly(Seen(i), iter[1..i])}
<1>4. 0 \in G
    <2>1. 1..0 = {} /\ Seen(0) = {}
        OBVIOUS
    <2>2. {} \in SUBSET (1..n)
        OBVIOUS
    <2>3. iter[{}] = Base
        BY <1>1, <2>2 DEF Goes
    <2>4. Rightly({}, Base)
        BY <1>3 DEF Rightly, Base, PlanRecord
    <2> QED
        BY <2>1, <2>3, <2>4
<1>5. ASSUME NEW i \in Nat, i \in G PROVE i + 1 \in G
    <2> SUFFICES ASSUME i + 1 <= n PROVE Rightly(Seen(i + 1), iter[1..(i + 1)])
        OBVIOUS
    <2> DEFINE c == order[i + 1]
    <2>1. Rightly(Seen(i), iter[1..i])
        BY <1>2, <1>5
    <2>2. iter[1..(i + 1)] = Placed(iter[1..i], c)
        <3>1. 1..(i + 1) \in SUBSET (1..n) /\ 1..(i + 1) # {}
            BY <1>2
        <3>2. Max(1..(i + 1)) = i + 1 /\ (1..(i + 1)) \ {i + 1} = 1..i
            BY MaxOfSegment
        <3>3. iter[1..(i + 1)] = Placed(iter[(1..(i + 1)) \ {Max(1..(i + 1))}],
                                      order[Max(1..(i + 1))])
            BY <1>1, <3>1 DEF Goes
        <3> QED
            BY <3>2, <3>3
    <2>3. Seen(i + 1) = Seen(i) \cup {c}
        <3>1. 1..(i + 1) = (1..i) \cup {i + 1}
            OBVIOUS
        <3> QED
            BY <3>1
    <2>4. i + 1 \in 1..n /\ \A j \in 1..i : j \in 1..n /\ j < i + 1
        BY <1>2
    <2>5. c \in Candidates /\ Seen(i) \in SUBSET Candidates
        BY <1>2, <2>4 DEF Lists
    <2>6. \A p \in Seen(i) : Outranks(p, c)
        BY <1>2, <2>4 DEF Lists
    <2>7. c \notin Seen(i)
        BY <1>3, <2>5, <2>6, RanksOrder
    <2> HIDE DEF c, Seen
    <2>8. Rightly(Seen(i) \cup {c}, Placed(iter[1..i], c))
        BY <2>1, <2>5, <2>6, <2>7, PlacedKeeps
    <2> QED
        BY <2>2, <2>3, <2>8
<1>6. n \in G
    <2> HIDE DEF G
    <2> QED
        BY <1>2, <1>4, <1>5, CountingUp
<1>7. Seen(n) = Candidates
    BY <1>2 DEF Lists
<1> HIDE DEF Seen
<1> QED
    BY <1>1, <1>2, <1>6, <1>7

LEMMA PlanFollowsTheRules ==
    ASSUME TypeOK, ~tripped
    PROVE  /\ Plan \in PlanRecord
           /\ IsPlan(Plan.enter, Plan.flatten)
<1>1. Rightly(Candidates, Plan)
    BY PlanIsRight
<1> DEFINE enter == Plan.enter
           flatten == Plan.flatten
           waiting == Candidates \ enter
           rotated == flatten \cap Live
<1>2. Ranked /\ Live \in SUBSET Longs /\ Longs \in SUBSET Pairs /\ Candidates \in SUBSET Pairs
    BY SnapsAreRanked, AmountsAreNumbers
<1>3. /\ Plan \in PlanRecord /\ enter \subseteq Candidates
      /\ flatten = (Longs \ Live) \cup (IF Plan.rotated THEN {Weakest} ELSE {})
      /\ \A c \in enter : ~Waits(enter, c)
      /\ \A c \in waiting : Waits(enter, c)
      /\ Plan.rotated <=> \E c \in waiting : Deserves(c)
    BY <1>1 DEF Rightly
<1>4. Plan.rotated => Live # {}
    BY <1>3 DEF Deserves
<1>5. Live # {} => Weakest \in Live /\ \A p \in Live \ {Weakest} : Outranks(p, Weakest)
    BY <1>2, WeakestIsLast
<1>6. rotated = IF Plan.rotated THEN {Weakest} ELSE {}
    BY <1>3, <1>4, <1>5
<1>7. \A c \in waiting : Deserves(c) <=> \E w \in Live : snap[c].rank > snap[w].rank
    <2> SUFFICES ASSUME NEW c \in waiting
                 PROVE  Deserves(c) <=> \E w \in Live : snap[c].rank > snap[w].rank
        OBVIOUS
    <2>1. Deserves(c) => \E w \in Live : snap[c].rank > snap[w].rank
        BY <1>5 DEF Deserves
    <2>2. ASSUME NEW w \in Live, snap[c].rank > snap[w].rank PROVE Deserves(c)
        <3>1. snap[c].rank \in Int /\ snap[w].rank \in Int /\ snap[Weakest].rank \in Int
            BY <1>2, <1>5 DEF Ranked
        <3>2. snap[w].rank >= snap[Weakest].rank
            BY <1>5, <3>1 DEF Outranks
        <3> QED
            BY <2>2, <3>1, <3>2 DEF Deserves
    <2> QED
        BY <2>1, <2>2
<1>8. \A w \in rotated : \A p \in Live \ {w} : \/ snap[p].rank > snap[w].rank
                                               \/ snap[p].rank = snap[w].rank /\ p < w
    BY <1>4, <1>5, <1>6 DEF Outranks
<1>9. rotated # {} <=> \E c \in waiting : \E w \in Live : snap[c].rank > snap[w].rank
    BY <1>3, <1>6, <1>7
<1>10. Longs \ Live \subseteq flatten /\ flatten \subseteq Longs
    BY <1>2, <1>3, <1>4, <1>5
<1> QED
    BY <1>3, <1>8, <1>9, <1>10 DEF IsPlan

-----------------------------------------------------------------------------
(* Type correctness.  A pair that is being decided rests nothing, since its     *)
(* own decision is the only one that places for it; one that was flat when its  *)
(* decision began still is; and only the pairs that trade hold or rest.         *)

DecidesAlone ==
    /\ \A p \in Pairs : at[p] # "idle" =>
          p \in pairs /\ resting[p] = 0 /\ (saw[p] = "flat" => held[p] = 0)
    /\ \A p \in Pairs : held[p] > 0 => resting[p] = 0
    /\ \A p \in Pairs : held[p] > 0 \/ resting[p] > 0 => p \in pairs

EngineInv == TypeOK /\ DecidesAlone

LEMMA EngineInit == Init => EngineInv
<1> SUFFICES ASSUME Init PROVE EngineInv
    OBVIOUS
<1>1. PICK t \in Trials :
         /\ book = t.book /\ pairs = t.pairs /\ maxConcurrent = t.slots
         /\ bankroll = t.cash /\ maxGross = t.cap /\ snap \in t.starts /\ moves = t.moves
    BY DEF Init
<1>2. /\ book \in Books /\ pairs \subseteq Pairs /\ maxConcurrent \in Nat
      /\ bankroll \in Nat /\ maxGross \in Nat /\ moves \in Nat /\ snap \in [Pairs -> Snaps]
    BY <1>1, TrialsAssumption
<1>3. killed \in BOOLEAN /\ tripped \in BOOLEAN /\ mixed \in BOOLEAN
    BY DEF Init
<1>4. /\ held \in [Pairs -> Nat] /\ resting \in [Pairs -> Nat] /\ lastPlan \subseteq Pairs
      /\ \A p \in Pairs : held[p] + resting[p] <= Clip[p]
      /\ exiting \in [Pairs -> BOOLEAN] /\ \A p \in Pairs : exiting[p] => held[p] > 0
    BY PairsAssumption DEF Init
<1>5. /\ at \in [Pairs -> {"idle", "model", "sample", "row"}]
      /\ saw \in [Pairs -> {"flat", "long"}] /\ gate \in [Pairs -> {"flat", "long"}]
      /\ read \in [Pairs -> [halted : BOOLEAN, full : BOOLEAN, label : Labels]]
    BY DEF Init, Labels
<1>6. TypeOK
    BY <1>2, <1>3, <1>4, <1>5 DEF TypeOK
<1>7. DecidesAlone
    BY DEF Init, DecidesAlone
<1> QED
    BY <1>6, <1>7 DEF EngineInv

LEMMA EntriesFit ==
    ASSUME TypeOK, NEW p \in Pairs
    PROVE  EntryLots(p) \in Nat /\ EntryLots(p) <= Clip[p]
<1> DEFINE room == maxGross - Gross
           lots == IF Clip[p] <= room THEN Clip[p] ELSE room
<1>1. room \in Int /\ Clip[p] \in Nat
    BY AmountsAreNumbers
<1>2. EntryLots(p) = IF killed \/ resting[p] > 0 \/ lots <= 0 \/ Cash < lots THEN 0 ELSE lots
    BY DEF EntryLots
<1> HIDE DEF room
<1>3. lots \in Int /\ lots <= Clip[p]
    BY <1>1
<1> HIDE DEF lots
<1> QED
    BY <1>1, <1>2, <1>3

LEMMA PlanNamesLongs ==
    ASSUME TypeOK
    PROVE  Plan.flatten \subseteq Pairs
<1>1. CASE tripped
    BY <1>1, AmountsAreNumbers DEF Plan
<1>2. CASE ~tripped
    BY <1>2, PlanFollowsTheRules DEF PlanRecord
<1> QED
    BY <1>1, <1>2

(* The broker's steps and the ones that leave at, saw, read and gate alone.     *)
LEMMA BrokerKeepsInv ==
    ASSUME EngineInv, NEW p \in Pairs,
           Filled(p) \/ Missed(p) \/ Flattened(p) \/ FlattenFails(p) \/ Stop(p)
    PROVE  EngineInv'
<1> USE DEF config, market, decision, EngineInv, Spends
<1>1. \A q \in Pairs : held[q] \in Nat /\ resting[q] \in Nat /\ Clip[q] \in Nat
    BY PairsAssumption DEF TypeOK
<1>2. CASE Filled(p)
    BY <1>1, <1>2 DEF Filled, TypeOK, DecidesAlone
<1>3. CASE Missed(p)
    BY <1>1, <1>3 DEF Missed, TypeOK, DecidesAlone
<1>4. CASE Flattened(p)
    BY <1>1, <1>4 DEF Flattened, TypeOK, DecidesAlone
<1>5. CASE FlattenFails(p)
    BY <1>1, <1>5 DEF FlattenFails, TypeOK, DecidesAlone
<1>6. CASE Stop(p)
    BY <1>1, <1>6 DEF Stop, TypeOK, DecidesAlone
<1> QED
    BY <1>2, <1>3, <1>4, <1>5, <1>6

LEMMA DecisionKeepsInv ==
    ASSUME EngineInv, NEW p \in Pairs, Decide(p) \/ Fails(p)
    PROVE  EngineInv'
<1> USE DEF config, market, broker, EngineInv, Spends, Goto
<1>1. \A q \in Pairs : held[q] \in Nat /\ resting[q] \in Nat /\ Clip[q] \in Nat
    BY PairsAssumption DEF TypeOK
<1>2. CASE DecideStart(p)
    BY <1>1, <1>2 DEF DecideStart, TypeOK, DecidesAlone
<1>3. CASE ModelAnswers(p)
    <2>1. PICK label \in Labels :
             /\ Goto(p, "model", "sample")
             /\ Spends(IF label = "calm" THEN 0 ELSE 1)
             /\ read' = [read EXCEPT ![p] = [halted |-> killed, full |-> Gross >= maxGross,
                                             label |-> label]]
             /\ UNCHANGED <<config, snap, killed, tripped, mixed, broker, saw, gate, lastPlan>>
        BY <1>3 DEF ModelAnswers
    <2>2. [halted |-> killed, full |-> Gross >= maxGross, label |-> label]
             \in [halted : BOOLEAN, full : BOOLEAN, label : Labels]
        BY <2>1 DEF TypeOK
    <2> QED
        BY <1>1, <2>1, <2>2 DEF TypeOK, DecidesAlone
<1>4. CASE Sampled(p)
    <2>1. PICK healthy \in BOOLEAN :
             /\ Goto(p, "sample", "row")
             /\ Spends(IF healthy THEN 0 ELSE 1)
             /\ gate' = [gate EXCEPT ![p] = IF book = "pooled" THEN PooledTarget(p, healthy)
                                            ELSE SplitTarget(p, healthy)]
             /\ lastPlan' = IF Plans(p) THEN Plan.flatten ELSE lastPlan
             /\ mixed' = (mixed \/ (Plans(p) /\ Crowded))
             /\ UNCHANGED <<config, snap, killed, tripped, broker, saw, read>>
        BY <1>4 DEF Sampled
    <2>2. PooledTarget(p, healthy) \in {"flat", "long"} /\ SplitTarget(p, healthy) \in {"flat", "long"}
        BY DEF PooledTarget, SplitTarget
    <2>3. lastPlan' \subseteq Pairs
        BY <2>1, PlanNamesLongs DEF TypeOK
    <2>4. mixed' \in BOOLEAN
        <3>1. mixed \in BOOLEAN
            BY DEF TypeOK
        <3> QED
            BY <2>1, <3>1
    <2> QED
        BY <1>1, <2>1, <2>2, <2>3, <2>4 DEF TypeOK, DecidesAlone
<1>5. CASE RowStored(p)
    <2>1. EntryLots(p) \in Nat /\ EntryLots(p) <= Clip[p]
        BY EntriesFit
    <2>2. gate[p] = "long" /\ saw[p] = "flat" => held[p] = 0 /\ p \in pairs
        BY <1>5 DEF RowStored, Ends, DecidesAlone
    <2>3. resting' \in [Pairs -> Nat]
        BY <1>5, <2>1 DEF RowStored, TypeOK
    <2>4. \A q \in Pairs : held[q] + resting'[q] <= Clip[q] /\ (held[q] > 0 => resting'[q] = 0)
        BY <1>1, <1>5, <2>1, <2>2 DEF RowStored, TypeOK, DecidesAlone
    <2>5. \A q \in Pairs : resting'[q] > 0 => q \in pairs
        BY <1>1, <1>5, <2>2 DEF RowStored, TypeOK, DecidesAlone
    <2>6. exiting' \in [Pairs -> BOOLEAN] /\ \A q \in Pairs : exiting'[q] => held[q] > 0
        BY <1>5 DEF RowStored, TypeOK, Sellable, Longs
    <2>7. \A q \in Pairs : at'[q] # "idle" => at[q] # "idle" /\ resting'[q] = resting[q] /\ saw'[q] = saw[q]
        BY <1>5 DEF RowStored, Ends, Forgets, TypeOK
    <2>8. /\ at' \in [Pairs -> {"idle", "model", "sample", "row"}]
          /\ saw' \in [Pairs -> {"flat", "long"}] /\ gate' \in [Pairs -> {"flat", "long"}]
          /\ read' \in [Pairs -> [halted : BOOLEAN, full : BOOLEAN, label : Labels]]
          /\ UNCHANGED <<config, market, held, lastPlan>>
        BY <1>5 DEF RowStored, Ends, Forgets, TypeOK, Labels
    <2> QED
        BY <2>3, <2>4, <2>5, <2>6, <2>7, <2>8 DEF TypeOK, DecidesAlone
<1>6. CASE Fails(p)
    <2>1. /\ at' = [at EXCEPT ![p] = "idle"] /\ Forgets(p) /\ moves' \in Nat
          /\ UNCHANGED <<config, snap, killed, tripped, mixed, broker, lastPlan>>
        BY <1>6 DEF Fails, Ends, TypeOK
    <2> QED
        BY <1>1, <2>1 DEF Forgets, TypeOK, DecidesAlone, Labels
<1> QED
    BY <1>2, <1>3, <1>4, <1>5, <1>6 DEF Decide

LEMMA OutsideKeepsInv ==
    ASSUME EngineInv, (\E p \in Pairs : Refresh(p)) \/ KillTurns \/ EquityTurns
    PROVE  EngineInv'
<1> USE DEF config, market, broker, decision, EngineInv, Spends
<1>1. /\ snap' \in [Pairs -> Snaps] /\ moves' \in Nat
      /\ UNCHANGED <<config, broker, decision, lastPlan>>
    BY DEF Refresh, KillTurns, EquityTurns, TypeOK
<1>2. killed' \in BOOLEAN
    BY DEF Refresh, KillTurns, EquityTurns, TypeOK
<1>3. tripped' \in BOOLEAN
    BY DEF Refresh, KillTurns, EquityTurns, TypeOK
<1>4. mixed' \in BOOLEAN
    BY DEF Refresh, KillTurns, EquityTurns, TypeOK
<1> QED
    BY <1>1, <1>2, <1>3, <1>4 DEF TypeOK, DecidesAlone

LEMMA EngineNext == EngineInv /\ [Next]_vars => EngineInv'
<1> SUFFICES ASSUME EngineInv, [Next]_vars PROVE EngineInv'
    OBVIOUS
<1>1. CASE UNCHANGED vars
    BY <1>1 DEF vars, config, market, broker, decision, EngineInv, TypeOK, DecidesAlone
<1>2. CASE Next
    <2>1. CASE \E p \in Pairs : Decide(p) \/ Fails(p)
        BY <2>1, DecisionKeepsInv
    <2>2. CASE \E p \in Pairs :
                  Filled(p) \/ Missed(p) \/ Flattened(p) \/ FlattenFails(p) \/ Stop(p)
        BY <2>2, BrokerKeepsInv
    <2>3. CASE (\E p \in Pairs : Refresh(p)) \/ KillTurns \/ EquityTurns
        BY <2>3, OutsideKeepsInv
    <2> QED
        BY <1>2, <2>1, <2>2, <2>3 DEF Next
<1> QED
    BY <1>1, <1>2

LEMMA EngineIsSound == Spec => []EngineInv
<1> QED
    BY EngineInit, EngineNext, PTL DEF Spec

(* No pair holds or rests more than its clip, only what is held is flattened,   *)
(* and every plan names pairs.                                              *)
THEOREM PoolTypeCorrect == Spec => []TypeOK
<1>1. EngineInv => TypeOK
    BY DEF EngineInv
<1> QED
    BY <1>1, EngineIsSound, PTL

-----------------------------------------------------------------------------
(* A decision that plans.                                                   *)

DecisionFollowsTheRules ==
    \A p \in Pairs :
        (at[p] = "sample" /\ at'[p] = "row" /\ Plans(p)) =>
            IF tripped THEN lastPlan' = Longs /\ gate'[p] = "flat"
            ELSE \E enter \in SUBSET Pairs :
                    /\ IsPlan(enter, lastPlan')
                    /\ (gate'[p] = "long" /\ saw[p] = "flat") => p \in enter

LEMMA OnlySampledPlans ==
    ASSUME EngineInv, Next, NEW p \in Pairs, at[p] = "sample", at'[p] = "row"
    PROVE  Sampled(p)
<1>1. at \in [Pairs -> {"idle", "model", "sample", "row"}]
    BY DEF EngineInv, TypeOK
<1> QED
    BY <1>1 DEF Next, Decide, DecideStart, ModelAnswers, Sampled, RowStored, Fails, Ends, Goto,
        Filled, Missed, Flattened, FlattenFails, Stop, Refresh, KillTurns, EquityTurns, decision

(* Whatever ranks, clips, slots, cash and cap: a decision that plans flattens   *)
(* every long whose snapshot is lost, and otherwise at most the weakest long,   *)
(* exactly if a better candidate has no room; it enters only a candidate that   *)
(* has room behind the better ones.                                         *)
THEOREM RotationFollowsTheRulesHolds == Spec => RotationFollowsTheRules
<1>1. EngineInv /\ [Next]_vars => [DecisionFollowsTheRules]_vars
    <2> SUFFICES ASSUME EngineInv, Next, NEW p \in Pairs, at[p] = "sample", at'[p] = "row", Plans(p)
                 PROVE  IF tripped THEN lastPlan' = Longs /\ gate'[p] = "flat"
                        ELSE \E enter \in SUBSET Pairs :
                                /\ IsPlan(enter, lastPlan')
                                /\ (gate'[p] = "long" /\ saw[p] = "flat") => p \in enter
        BY DEF DecisionFollowsTheRules
    <2>1. TypeOK /\ book = "pooled"
        BY DEF EngineInv, Plans
    <2>2. PICK healthy \in BOOLEAN :
             /\ gate' = [gate EXCEPT ![p] = PooledTarget(p, healthy)]
             /\ lastPlan' = Plan.flatten
        BY <2>1, OnlySampledPlans DEF Sampled
    <2>3. gate'[p] = PooledTarget(p, healthy)
        BY <2>1, <2>2 DEF TypeOK
    <2>4. CASE tripped
        <3>1. Plan.flatten = Longs /\ Plan.enter = {}
            BY <2>4 DEF Plan
        <3>2. PooledTarget(p, healthy) = "flat"
            BY <2>4, <3>1 DEF PooledTarget
        <3> QED
            BY <2>2, <2>3, <2>4, <3>1, <3>2
    <2>5. CASE ~tripped
        <3>1. Plan.enter \in SUBSET Pairs /\ IsPlan(Plan.enter, Plan.flatten)
            BY <2>1, <2>5, PlanFollowsTheRules DEF PlanRecord
        <3>2. PooledTarget(p, healthy) = "long" /\ saw[p] = "flat" => p \in Plan.enter
            BY DEF PooledTarget
        <3> QED
            BY <2>2, <2>3, <2>5, <3>1, <3>2
    <2> QED
        BY <2>4, <2>5
<1>2. [DecisionFollowsTheRules]_vars <=>
      [\A p \in Pairs :
        (at[p] = "sample" /\ at'[p] = "row" /\ Plans(p)) =>
            IF tripped THEN lastPlan' = Longs /\ gate'[p] = "flat"
            ELSE \E enter \in SUBSET Pairs :
                    /\ IsPlan(enter, lastPlan')
                    /\ (gate'[p] = "long" /\ saw[p] = "flat") => p \in enter]_vars
    BY DEF DecisionFollowsTheRules
<1> QED
    BY <1>1, <1>2, EngineIsSound, PTL DEF Spec, RotationFollowsTheRules

-----------------------------------------------------------------------------
(* The slots.  Behind the longs and the better candidates there is room for     *)
(* every entry that is approved or rests, whatever has moved since its plan.    *)

Ahead(p) == {c \in Candidates : Outranks(c, p)}

HasRoom(p) == p \in Candidates /\ Cardinality(Live) + Cardinality(Ahead(p)) < maxConcurrent

Contended == book = "pooled" /\ ~mixed

SlotsInv ==
    Contended =>
        /\ Cardinality(Live) <= maxConcurrent
        /\ \A p \in Pairs : Entering(p) => HasRoom(p)

(* A plan enters a candidate only with all better ones.                       *)
LEMMA PlansEnterTheBest ==
    ASSUME EngineInv, book = "pooled", ~tripped, ~Crowded, NEW p \in Plan.enter
    PROVE  HasRoom(p)
<1> DEFINE enter == Plan.enter
           Better(c) == {x \in enter : Outranks(x, c)}
<1>1. enter \subseteq Candidates /\ ~Waits(enter, p)
    BY PlanFollowsTheRules DEF EngineInv, IsPlan
<1>2. /\ Ranked /\ Candidates \in SUBSET Pairs /\ maxConcurrent \in Nat
      /\ Live \in SUBSET Pairs
      /\ \A S \in SUBSET Pairs : IsFiniteSet(S) /\ Cardinality(S) \in Nat
    BY SnapsAreRanked, AmountsAreNumbers DEF EngineInv
<1>3. Cardinality(Live) + Cardinality(Better(p)) < maxConcurrent
    <2>1. ~(Cardinality(Live) + Cardinality(Better(p)) >= maxConcurrent)
        BY <1>1 DEF Waits
    <2>2. Cardinality(Live) \in Nat /\ Cardinality(Better(p)) \in Nat
        BY <1>1, <1>2
    <2> QED
        BY <1>2, <2>1, <2>2
<1>4. ASSUME NEW c \in Candidates, Outranks(c, p), c \notin enter PROVE FALSE
    <2>1. Better(c) \subseteq Better(p)
        BY <1>1, <1>2, <1>4, RanksGoOn
    <2>2. Better(c) \in SUBSET Pairs /\ Better(p) \in SUBSET Pairs
        BY <1>1, <1>2
    <2>3. Cardinality(Better(c)) <= Cardinality(Better(p))
        BY <1>2, <2>1, <2>2, FS_Subset
    <2>4. ~(Cardinality(Live) + Cardinality(Better(c)) < maxConcurrent)
        BY <1>4 DEF Crowded
    <2> DEFINE longs == Cardinality(Live)
               few == Cardinality(Better(c))
               many == Cardinality(Better(p))
    <2>5. /\ longs \in Nat /\ few \in Nat /\ many \in Nat /\ few <= many
          /\ longs + many < maxConcurrent /\ ~(longs + few < maxConcurrent)
        BY <1>2, <1>3, <2>2, <2>3, <2>4
    <2> HIDE DEF longs, few, many
    <2> QED
        BY <1>2, <2>5
<1>5. Ahead(p) = Better(p)
    BY <1>1, <1>4 DEF Ahead
<1> QED
    BY <1>1, <1>3, <1>5 DEF HasRoom

-----------------------------------------------------------------------------
(* A step that moves no rank and no lot keeps the room of those who wait for it.  *)
LEMMA RoomStays ==
    ASSUME SlotsInv, UNCHANGED <<config, snap, held>>, ~mixed' => ~mixed,
           NEW S, \A p \in Pairs \ S : Entering(p)' => Entering(p),
           \A p \in Pairs \cap S : Contended' /\ Entering(p)' => HasRoom(p)
    PROVE  SlotsInv'
<1>1. Live' = Live /\ Longs' = Longs /\ Candidates' = Candidates
    BY DEF Live, Longs, Candidates, config
<1>2. \A p \in Pairs : Ahead(p)' = Ahead(p)
    BY <1>1 DEF Ahead, Outranks
<1>3. Contended' => Contended
    BY DEF Contended, config
<1>4. \A p \in Pairs : HasRoom(p)' <=> HasRoom(p)
    BY <1>1, <1>2 DEF HasRoom, config
<1>5. Cardinality(Live)' = Cardinality(Live) /\ maxConcurrent' = maxConcurrent
    BY <1>1 DEF config
<1>6. SUFFICES ASSUME Contended'
               PROVE  /\ Cardinality(Live)' <= maxConcurrent'
                      /\ \A p \in Pairs : Entering(p)' => HasRoom(p)'
    BY DEF SlotsInv
<1> QED
    BY <1>3, <1>4, <1>5, <1>6 DEF SlotsInv

LEMMA EnteringHoldsNothing ==
    ASSUME EngineInv, NEW p \in Pairs, Entering(p)
    PROVE  held[p] = 0 /\ p \in pairs
<1>1. held[p] \in Nat /\ resting[p] \in Nat
    BY DEF EngineInv, TypeOK
<1> QED
    BY <1>1 DEF EngineInv, DecidesAlone, Entering

(* A fill makes a long of an entry that had room.                             *)
LEMMA FilledKeepsRoom ==
    ASSUME EngineInv, EngineInv', SlotsInv, NEW p \in Pairs, Filled(p)
    PROVE  SlotsInv'
<1> SUFFICES ASSUME Contended'
             PROVE  /\ Cardinality(Live') <= maxConcurrent
                    /\ \A q \in Pairs : Entering(q)' => HasRoom(q)'
    BY DEF SlotsInv, Filled, config
<1>1. /\ held' = [held EXCEPT ![p] = @ + resting[p]] /\ resting[p] > 0
      /\ resting' = [resting EXCEPT ![p] = 0]
      /\ UNCHANGED <<config, market, exiting, decision, lastPlan>>
    BY DEF Filled
<1>2. Contended
    BY <1>1 DEF Contended, config, market
<1>3. HasRoom(p) /\ Entering(p)
    BY <1>1, <1>2 DEF SlotsInv, Entering
<1>4. \A q \in Pairs : held[q] \in Nat /\ resting[q] \in Nat
    BY DEF EngineInv, TypeOK
<1>5. snap[p].rank # Broken
    BY <1>3, SnapsAreRanked DEF EngineInv, HasRoom, Candidates
<1>6. Longs' = Longs \cup {p} /\ Live' = Live \cup {p} /\ p \notin Longs
    <2>1. \A q \in Pairs : held'[q] > 0 <=> (held[q] > 0 \/ q = p)
        BY <1>1, <1>4 DEF EngineInv, TypeOK
    <2>2. snap' = snap
        BY <1>1 DEF market
    <2> QED
        BY <1>3, <1>5, <2>1, <2>2, EnteringHoldsNothing DEF Longs, Live
<1>7. Candidates' = Candidates \ {p}
    BY <1>1, <1>6 DEF Candidates, config, market
<1>8. /\ Ranked /\ Candidates \in SUBSET Pairs /\ Live \in SUBSET Pairs /\ maxConcurrent \in Nat
      /\ \A S \in SUBSET Pairs : IsFiniteSet(S) /\ Cardinality(S) \in Nat
    BY SnapsAreRanked, AmountsAreNumbers DEF EngineInv
<1>9. Cardinality(Live') = Cardinality(Live) + 1
    <2>1. p \notin Live
        BY <1>6 DEF Live
    <2> QED
        BY <1>6, <1>8, <2>1, FS_AddElement
<1>10. Cardinality(Live) + Cardinality(Ahead(p)) < maxConcurrent
    BY <1>3 DEF HasRoom
<1>11. \A q \in Pairs : Ahead(q) \in SUBSET Pairs /\ Cardinality(Ahead(q)) \in Nat
    BY <1>8 DEF Ahead
<1>12. Cardinality(Live') <= maxConcurrent
    <2>1. Cardinality(Live) \in Nat /\ Cardinality(Ahead(p)) \in Nat
        BY <1>8, <1>11
    <2> QED
        BY <1>8, <1>9, <1>10, <2>1
<1>13. ASSUME NEW q \in Pairs, Entering(q)' PROVE HasRoom(q)'
    <2>1. q # p
        <3>1. Entering(q)' => held'[q] = 0
            <4>1. held'[q] \in Nat /\ resting'[q] \in Nat
                BY DEF EngineInv, TypeOK
            <4> QED
                BY <4>1 DEF EngineInv, DecidesAlone, Entering
        <3>2. held'[p] > 0
            BY <1>1, <1>4 DEF EngineInv, TypeOK
        <3> QED
            BY <1>13, <3>1, <3>2
    <2>2. Entering(q)
        BY <1>1, <1>13, <2>1 DEF Entering, decision, EngineInv, TypeOK
    <2>3. q \in Candidates /\ Cardinality(Live) + Cardinality(Ahead(q)) < maxConcurrent
        BY <1>2, <2>2 DEF SlotsInv, HasRoom
    <2>4. Ahead(q)' = Ahead(q) \ {p}
        BY <1>1, <1>7 DEF Ahead, Outranks, market
    <2>5. p \in Candidates
        BY <1>3 DEF HasRoom
    <2>6. Cardinality(Live') + Cardinality(Ahead(q)') < maxConcurrent
        <3> DEFINE live == Cardinality(Live)
                   before == Cardinality(Ahead(q))
                   after == Cardinality(Ahead(q) \ {p})
                   front == Cardinality(Ahead(p))
        <3>1. live \in Nat /\ before \in Nat /\ after \in Nat /\ front \in Nat
            BY <1>8, <1>11
        <3>2. CASE Outranks(p, q)
            <4>1. p \in Ahead(q)
                BY <2>5, <3>2 DEF Ahead
            <4>2. after = before - 1
                BY <1>8, <1>11, <4>1, FS_RemoveElement
            <4>3. Cardinality(Live') = live + 1 /\ Cardinality(Ahead(q)') = after /\ live + before < maxConcurrent
                BY <1>9, <2>3, <2>4
            <4> HIDE DEF live, before, after, front
            <4> QED
                BY <1>8, <3>1, <4>2, <4>3
        <3>3. CASE ~Outranks(p, q)
            <4>1. Outranks(q, p)
                BY <1>8, <2>1, <3>3, RanksOrder
            <4>2. Ahead(q) \cup {q} \subseteq Ahead(p) /\ q \notin Ahead(q) /\ p \notin Ahead(q)
                BY <1>8, <2>3, <3>3, <4>1, RanksOrder, RanksGoOn DEF Ahead
            <4>3. Cardinality(Ahead(q) \cup {q}) = before + 1
                BY <1>8, <1>11, <4>2, FS_AddElement
            <4>4. Cardinality(Ahead(q) \cup {q}) <= front
                BY <1>8, <1>11, <4>2, FS_Subset
            <4>5. Ahead(q) \ {p} = Ahead(q)
                BY <4>2
            <4>6. Cardinality(Live') = live + 1 /\ Cardinality(Ahead(q)') = before /\ live + front < maxConcurrent
                BY <1>9, <1>10, <2>4, <4>5
            <4>7. before + 1 <= front
                BY <4>3, <4>4
            <4> HIDE DEF live, before, after, front
            <4> QED
                BY <1>8, <3>1, <4>6, <4>7
        <3> QED
            BY <3>2, <3>3
    <2>7. q \in Candidates'
        BY <1>7, <2>1, <2>3
    <2>8. maxConcurrent' = maxConcurrent
        BY <1>1 DEF config
    <2> QED
        BY <2>6, <2>7, <2>8 DEF HasRoom
<1> QED
    BY <1>12, <1>13

(* A long that is flattened may come back as a candidate, but leaves a slot.    *)
LEMMA FlattenedKeepsRoom ==
    ASSUME EngineInv, SlotsInv, NEW p \in Pairs, Flattened(p)
    PROVE  SlotsInv'
<1> SUFFICES ASSUME Contended'
             PROVE  /\ Cardinality(Live') <= maxConcurrent
                    /\ \A q \in Pairs : Entering(q)' => HasRoom(q)'
    BY DEF SlotsInv, Flattened, config
<1>1. /\ held' = [held EXCEPT ![p] = 0] /\ exiting[p]
      /\ UNCHANGED <<config, market, resting, decision, lastPlan>>
    BY DEF Flattened
<1>2. Contended
    BY <1>1 DEF Contended, config, market
<1>3. \A q \in Pairs : held[q] \in Nat
    BY DEF EngineInv, TypeOK
<1>4. p \in Longs /\ Longs' = Longs \ {p} /\ Live' = Live \ {p}
    <2>1. \A q \in Pairs : held'[q] > 0 <=> (held[q] > 0 /\ q # p)
        BY <1>1, <1>3 DEF EngineInv, TypeOK
    <2>2. snap' = snap
        BY <1>1 DEF market
    <2>3. held[p] > 0
        BY <1>1 DEF EngineInv, TypeOK
    <2> QED
        BY <2>1, <2>2, <2>3 DEF Longs, Live
<1>5. /\ Ranked /\ Candidates \in SUBSET Pairs /\ Live \in SUBSET Pairs /\ maxConcurrent \in Nat
      /\ \A S \in SUBSET Pairs : IsFiniteSet(S) /\ Cardinality(S) \in Nat
    BY SnapsAreRanked, AmountsAreNumbers DEF EngineInv
<1>6. Candidates \subseteq Candidates' /\ Candidates' \subseteq Candidates \cup {p}
    BY <1>1, <1>4 DEF Candidates, config, market
<1>7. p \in Candidates' => p \in Live
    <2>1. p \in Candidates' => snap[p].rank # Broken
        BY <1>1, SnapsAreRanked DEF EngineInv, Candidates, market
    <2> QED
        BY <1>4, <2>1 DEF Live
<1>8. Cardinality(Live') <= Cardinality(Live)
    BY <1>4, <1>5, FS_Subset
<1>9. Cardinality(Live) <= maxConcurrent
    BY <1>2 DEF SlotsInv
<1>10. Cardinality(Live') <= maxConcurrent
    <2>1. Cardinality(Live) \in Nat /\ Cardinality(Live') \in Nat
        BY <1>4, <1>5
    <2> QED
        BY <1>5, <1>8, <1>9, <2>1
<1>11. ASSUME NEW q \in Pairs, Entering(q)' PROVE HasRoom(q)'
    <2>1. Entering(q)
        BY <1>1, <1>11 DEF Entering, decision
    <2>2. q \in Candidates /\ Cardinality(Live) + Cardinality(Ahead(q)) < maxConcurrent
        BY <1>2, <2>1 DEF SlotsInv, HasRoom
    <2>3. q \in Candidates'
        BY <1>6, <2>2
    <2>4. /\ Ahead(q) \in SUBSET Pairs /\ Cardinality(Ahead(q)) \in Nat
          /\ Cardinality(Live) \in Nat /\ Cardinality(Live') \in Nat
        BY <1>4, <1>5 DEF Ahead
    <2>5. Ahead(q)' = {c \in Candidates' : Outranks(c, q)}
        BY <1>1 DEF Ahead, Outranks, market
    <2>6. CASE p \in Candidates'
        <3>1. Ahead(q)' \subseteq Ahead(q) \cup {p}
            BY <1>6, <2>5 DEF Ahead
        <3>2. Cardinality(Live') = Cardinality(Live) - 1
            BY <1>4, <1>5, <1>7, <2>6, FS_RemoveElement
        <3>3. Cardinality(Ahead(q) \cup {p}) <= Cardinality(Ahead(q)) + 1
            BY <1>5, <2>4, FS_AddElement
        <3>4. /\ Cardinality(Ahead(q)') <= Cardinality(Ahead(q) \cup {p})
              /\ Cardinality(Ahead(q)') \in Nat /\ Cardinality(Ahead(q) \cup {p}) \in Nat
            BY <1>5, <2>4, <3>1, FS_Subset
        <3>5. Cardinality(Live') + Cardinality(Ahead(q)') < maxConcurrent
            BY <1>5, <2>2, <2>4, <3>2, <3>3, <3>4
        <3> QED
            BY <1>1, <2>3, <3>5 DEF HasRoom, config
    <2>7. CASE p \notin Candidates'
        <3>1. Ahead(q)' = Ahead(q)
            <4>1. Candidates' = Candidates
                BY <1>6, <2>7
            <4> QED
                BY <2>5, <4>1 DEF Ahead
        <3>2. Cardinality(Live') + Cardinality(Ahead(q)') < maxConcurrent
            BY <1>5, <1>8, <2>2, <2>4, <3>1
        <3> QED
            BY <1>1, <2>3, <3>2 DEF HasRoom, config
    <2> QED
        BY <2>6, <2>7
<1> QED
    BY <1>10, <1>11

(* A rank that moves under no entry can only take a long out of the plan.       *)
LEMMA RefreshKeepsRoom ==
    ASSUME EngineInv, SlotsInv, NEW p \in Pairs, Refresh(p)
    PROVE  SlotsInv'
<1> SUFFICES ASSUME Contended'
             PROVE  /\ Cardinality(Live') <= maxConcurrent
                    /\ \A q \in Pairs : ~Entering(q)'
    BY DEF SlotsInv, Refresh, config
<1>1. PICK s : snap' = [snap EXCEPT ![p] = s]
    BY DEF Refresh
<1>2. /\ mixed' = (mixed \/ (held[p] > 0 /\ snap[p].rank = Broken) \/ \E q \in Pairs : Entering(q))
      /\ UNCHANGED <<config, killed, tripped, broker, decision, lastPlan>>
    BY DEF Refresh
<1>3. ~mixed' /\ book = "pooled"
    BY <1>2 DEF Contended, config
<1>4. ~mixed /\ ~(held[p] > 0 /\ snap[p].rank = Broken) /\ \A q \in Pairs : ~Entering(q)
    BY <1>2, <1>3
<1>5. Live' \subseteq Live
    BY <1>1, <1>2, <1>4 DEF Live, Longs, broker, EngineInv, TypeOK
<1>6. Cardinality(Live) <= maxConcurrent
    BY <1>3, <1>4 DEF SlotsInv, Contended
<1>7. Live \in SUBSET Pairs /\ maxConcurrent \in Nat
      /\ \A S \in SUBSET Pairs : IsFiniteSet(S) /\ Cardinality(S) \in Nat
    BY AmountsAreNumbers DEF EngineInv
<1>8. Cardinality(Live') <= Cardinality(Live) /\ Live' \in SUBSET Pairs
    BY <1>5, <1>7, FS_Subset
<1>9. Cardinality(Live') <= maxConcurrent
    BY <1>6, <1>7, <1>8
<1>10. \A q \in Pairs : ~Entering(q)'
    BY <1>2, <1>4 DEF Entering, broker, decision
<1> QED
    BY <1>9, <1>10

LEMMA SlotsNext == EngineInv /\ EngineInv' /\ SlotsInv /\ [Next]_vars => SlotsInv'
<1> SUFFICES ASSUME EngineInv, EngineInv', SlotsInv, [Next]_vars PROVE SlotsInv'
    OBVIOUS
<1> USE DEF market, broker, decision
<1>1. CASE UNCHANGED vars
    <2>1. \A p \in Pairs \ {} : Entering(p)' => Entering(p)
        BY <1>1 DEF vars, Entering
    <2>2. \A p \in Pairs \cap {} : Contended' /\ Entering(p)' => HasRoom(p)
        OBVIOUS
    <2>3. UNCHANGED <<config, snap, held>> /\ (~mixed' => ~mixed)
        BY <1>1 DEF vars
    <2> QED
        BY <2>1, <2>2, <2>3, RoomStays
<1>2. ASSUME NEW p \in Pairs, Decide(p) \/ Fails(p) \/ Missed(p) \/ FlattenFails(p) \/ Stop(p),
             ~Sampled(p)
      PROVE  SlotsInv'
    <2>1. UNCHANGED <<config, snap, held>> /\ (~mixed' => ~mixed)
        BY <1>2 DEF Decide, DecideStart, ModelAnswers, RowStored, Fails, Missed, FlattenFails, Stop
    <2>2. ASSUME NEW q \in Pairs, Entering(q)' PROVE Entering(q)
        <3>1. CASE DecideStart(p)
            BY <2>2, <3>1 DEF DecideStart, Goto, Entering, EngineInv, TypeOK
        <3>2. CASE ModelAnswers(p)
            BY <2>2, <3>2 DEF ModelAnswers, Goto, Entering, EngineInv, TypeOK
        <3>3. CASE RowStored(p)
            BY <2>2, <3>3 DEF RowStored, Ends, Goto, Forgets, Entering, EngineInv, TypeOK
        <3>4. CASE Fails(p)
            BY <2>2, <3>4 DEF Fails, Ends, Goto, Forgets, Entering, EngineInv, TypeOK
        <3>5. CASE Missed(p)
            BY <2>2, <3>5 DEF Missed, Entering, EngineInv, TypeOK
        <3>6. CASE FlattenFails(p) \/ Stop(p)
            BY <2>2, <3>6 DEF FlattenFails, Stop, Entering
        <3> QED
            BY <1>2, <3>1, <3>2, <3>3, <3>4, <3>5, <3>6 DEF Decide
    <2>3. \A q \in Pairs \cap {} : Contended' /\ Entering(q)' => HasRoom(q)
        OBVIOUS
    <2>4. \A q \in Pairs \ {} : Entering(q)' => Entering(q)
        BY <2>2
    <2> QED
        BY <2>1, <2>3, <2>4, RoomStays
<1>3. ASSUME NEW p \in Pairs, Sampled(p) PROVE SlotsInv'
    <2>1. UNCHANGED <<config, snap, held>> /\ (~mixed' => ~mixed)
        BY <1>3 DEF Sampled
    <2>2. \A q \in Pairs \ {p} : Entering(q)' => Entering(q)
        BY <1>3 DEF Sampled, Goto, Entering, EngineInv, TypeOK
    <2>3. ASSUME Contended', Entering(p)' PROVE HasRoom(p)
        <3>0. book = "pooled" /\ ~mixed' /\ mixed' = (mixed \/ (Plans(p) /\ Crowded))
            BY <1>3, <2>3 DEF Sampled, Contended, config
        <3>1. resting[p] = 0 /\ resting' = resting /\ saw' = saw
            BY <1>3 DEF Sampled, Goto, EngineInv, DecidesAlone
        <3>2. gate'[p] = "long" /\ saw[p] = "flat"
            BY <2>3, <3>1 DEF Entering
        <3>3. PICK healthy \in BOOLEAN : gate' = [gate EXCEPT ![p] = PooledTarget(p, healthy)]
            BY <1>3, <3>0 DEF Sampled
        <3>4. PooledTarget(p, healthy) = "long"
            BY <3>2, <3>3 DEF EngineInv, TypeOK
        <3>5. p \in Plan.enter
            BY <3>2, <3>4 DEF PooledTarget
        <3>6. ~tripped
            BY <3>5 DEF Plan
        <3>7. Plans(p)
            BY <3>2, <3>4 DEF PooledTarget
        <3> QED
            BY <3>0, <3>5, <3>6, <3>7, PlansEnterTheBest
    <2>4. \A q \in Pairs \cap {p} : Contended' /\ Entering(q)' => HasRoom(q)
        BY <2>3
    <2> QED
        BY <2>1, <2>2, <2>4, RoomStays
<1>4. ASSUME KillTurns \/ EquityTurns PROVE SlotsInv'
    <2>1. UNCHANGED <<config, snap, held>> /\ (~mixed' => ~mixed)
        BY <1>4 DEF KillTurns, EquityTurns
    <2>2. \A p \in Pairs \ {} : Entering(p)' => Entering(p)
        BY <1>4 DEF KillTurns, EquityTurns, Entering
    <2>3. \A p \in Pairs \cap {} : Contended' /\ Entering(p)' => HasRoom(p)
        OBVIOUS
    <2> QED
        BY <2>1, <2>2, <2>3, RoomStays
<1>5. ASSUME NEW p \in Pairs, Filled(p) PROVE SlotsInv'
    BY <1>5, FilledKeepsRoom
<1>6. ASSUME NEW p \in Pairs, Flattened(p) PROVE SlotsInv'
    BY <1>6, FlattenedKeepsRoom
<1>7. ASSUME NEW p \in Pairs, Refresh(p) PROVE SlotsInv'
    BY <1>7, RefreshKeepsRoom
<1> QED
    BY <1>1, <1>2, <1>3, <1>4, <1>5, <1>6, <1>7 DEF Next

LEMMA SlotsInit == Init => SlotsInv
<1> SUFFICES ASSUME Init PROVE SlotsInv
    OBVIOUS
<1>1. Live = {} /\ \A p \in Pairs : ~Entering(p)
    BY DEF Init, Live, Longs, Entering
<1>2. maxConcurrent \in Nat /\ Cardinality({}) = 0
    BY EngineInit, FS_EmptySet DEF EngineInv, TypeOK
<1> QED
    BY <1>1, <1>2 DEF SlotsInv

(* The pool never has more longs and entries than slots, however the decisions *)
(* of the pairs overlap and whatever clips, cash and cap are, as long as no rank *)
(* moved under an entry and no plan left out a name for want of cash or room   *)
(* under the cap (PoolEngine.evaluatePooled, planRotation).                   *)
THEOREM PoolSlotsHoldAlways == Spec => []PoolSlotsHold
<1>1. EngineInv /\ SlotsInv => PoolSlotsHold
    <2> DEFINE E == {p \in Pairs : Entering(p)}
    <2> SUFFICES ASSUME EngineInv, SlotsInv, Contended
                 PROVE  Cardinality(Live \cup E) <= maxConcurrent
        BY DEF PoolSlotsHold, Contended
    <2>1. /\ Ranked /\ Candidates \in SUBSET Pairs /\ Live \in SUBSET Pairs /\ maxConcurrent \in Nat
          /\ \A S \in SUBSET Pairs : IsFiniteSet(S) /\ Cardinality(S) \in Nat
        BY SnapsAreRanked, AmountsAreNumbers DEF EngineInv
    <2>2. CASE E = {}
        <3>1. Live \cup E = Live
            BY <2>2
        <3> QED
            BY <3>1 DEF SlotsInv
    <2>3. CASE E # {}
        <3>1. PICK w \in E : \A p \in E \ {w} : Outranks(p, w)
            <4> E \in SUBSET Pairs
                OBVIOUS
            <4> HIDE DEF E
            <4> QED
                BY <2>1, <2>3, LastExists
        <3>2. \A p \in E : HasRoom(p)
            BY DEF SlotsInv
        <3>3. E \ {w} \subseteq Ahead(w)
            BY <3>1, <3>2 DEF Ahead, HasRoom
        <3>4. /\ Ahead(w) \in SUBSET Pairs /\ E \ {w} \in SUBSET Pairs
              /\ E \in SUBSET Pairs /\ Live \cup E \in SUBSET Pairs
            BY <2>1 DEF Ahead
        <3> DEFINE live == Cardinality(Live)
                   front == Cardinality(Ahead(w))
                   entries == Cardinality(E)
                   others == Cardinality(E \ {w})
                   both == Cardinality(Live \cup E)
        <3>5. live \in Nat /\ front \in Nat /\ entries \in Nat /\ others \in Nat /\ both \in Nat
            BY <2>1, <3>4
        <3>6. IsFiniteSet(E) /\ IsFiniteSet(Ahead(w)) /\ IsFiniteSet(Live)
            BY <2>1, <3>4
        <3>7. live + front < maxConcurrent
            BY <3>1, <3>2 DEF HasRoom
        <3> HIDE DEF E
        <3>8. others = entries - 1
            BY <3>1, <3>6, FS_RemoveElement
        <3>9. others <= front
            BY <3>3, <3>6, FS_Subset
        <3>10. both <= live + entries
            <4>1. both = live + entries - Cardinality(Live \cap E)
                BY <3>6, FS_Union
            <4>2. Cardinality(Live \cap E) \in Nat
                BY <2>1
            <4> HIDE DEF live, entries, both
            <4> QED
                BY <3>5, <4>1, <4>2
        <3> HIDE DEF live, front, entries, others
        <3> QED
            BY <2>1, <3>5, <3>7, <3>8, <3>9, <3>10
    <2> QED
        BY <2>2, <2>3
<1>2. Spec => [](EngineInv /\ SlotsInv)
    <2>1. Init => EngineInv /\ SlotsInv
        BY EngineInit, SlotsInit
    <2>2. EngineInv /\ SlotsInv /\ [Next]_vars => (EngineInv /\ SlotsInv)'
        BY EngineNext, SlotsNext
    <2> QED
        BY <2>1, <2>2, PTL DEF Spec
<1> QED
    BY <1>1, <1>2, PTL

=============================================================================
