--------------------------- MODULE JevLedgerProofs ---------------------------
(***************************************************************************)
(* What holds of the queue, the ledger and the calls of JevQueue, whatever    *)
(* the products, the bars, the processes and the losses.                     *)
(*                                                                          *)
(* Every step of a running process moves its book on (MovedOn): some packets  *)
(* are new, some end, and those that are told go to the ledger and to the      *)
(* outcomes that the next save writes.  EveryStep reduces Next to that and to  *)
(* the few steps that hand a book over; the rest is one lemma per part of the  *)
(* invariant.                                                               *)
(***************************************************************************)
EXTENDS JevQueueProofs, FoldLemmas

USE DEF stored, histories

-----------------------------------------------------------------------------
(* Sequences in which nothing occurs twice.                                  *)

Once(q) == \A i, j \in 1..Len(q) : q[i] = q[j] => i = j

(* The members of a sequence that is filtered, one by one.                    *)
Keeps(kept, k, gone) == IF k \in gone THEN kept ELSE Append(kept, k)

Filters(iter, q, gone) ==
    iter = [s \in SUBSET (1..Len(q)) |->
              IF s = {} THEN <<>> ELSE Keeps(iter[s \ {Max(s)}], q[Max(s)], gone)]

LEMMA UndoneIsAFold ==
  ASSUME NEW S, NEW q \in Seq(S), NEW gone
  PROVE  \E iter : Filters(iter, q, gone) /\ Undone(q, gone) = iter[1..Len(q)]
<1> DEFINE D == 1..Len(q)
           pick == [s \in SUBSET D |-> Max(s)]
           step == [x \in D \X Seq(S) |-> Keeps(x[2], q[x[1]], gone)]
           chosen == CHOOSE iter : Filters(iter, q, gone)
<1>1. Len(q) \in Nat /\ q \in [D -> S]
  OBVIOUS
<1>2. IsFiniteSet(D)
  BY <1>1, FS_Interval
<1>3. \A s \in SUBSET D : s # {} => Max(s) \in s
  <2> SUFFICES ASSUME NEW s \in SUBSET D, s # {} PROVE Max(s) \in s
    OBVIOUS
  <2>1. IsFiniteSet(s)
    BY <1>2, FS_Subset
  <2>2. s \subseteq Int
    BY <1>1
  <2> HIDE DEF D
  <2> QED
    BY <2>1, <2>2, MaxExists
<1>4. Picks(pick, D)
  BY <1>3 DEF Picks
<1>5. step \in [D \X Seq(S) -> Seq(S)]
  BY <1>1 DEF Keeps
<1>6. <<>> \in Seq(S)
  OBVIOUS
<1>7. PICK g \in [SUBSET D -> Seq(S)] : IsFold(g, D, pick, <<>>, step)
  <2> HIDE DEF D, pick, step
  <2> QED
    BY <1>2, <1>4, <1>5, <1>6, FoldExists
<1>8. Filters(g, q, gone)
  <2>1. ASSUME NEW s \in SUBSET D, s # {}
        PROVE  step[<<pick[s], g[s \ {pick[s]}]>>] = Keeps(g[s \ {Max(s)}], q[Max(s)], gone)
    <3>1. pick[s] = Max(s) /\ Max(s) \in D /\ s \ {Max(s)} \in SUBSET D
      BY <1>3, <2>1
    <3>2. g[s \ {Max(s)}] \in Seq(S)
      BY <1>7, <3>1
    <3> HIDE DEF D
    <3> QED
      BY <3>1, <3>2
  <2>2. \A s \in SUBSET D :
           g[s] = IF s = {} THEN <<>> ELSE Keeps(g[s \ {Max(s)}], q[Max(s)], gone)
    BY <1>7, <2>1 DEF IsFold
  <2>3. g = [s \in SUBSET D |-> g[s]]
    BY <1>7
  <2> HIDE DEF pick, step
  <2> QED
    BY <2>2, <2>3 DEF Filters
<1>9. Filters(chosen, q, gone)
  BY <1>8
<1>10. DOMAIN q = D
  BY <1>1
<1>11. Undone(q, gone) = chosen[D]
  <2>1. Undone(q, gone) =
          (CHOOSE iter : iter = [s \in SUBSET DOMAIN q |->
              IF s = {} THEN <<>>
              ELSE Keeps(iter[s \ {Max(s)}], q[Max(s)], gone)])[DOMAIN q]
    BY DEF Undone, FoldLeft, MapThenFoldSet, Keeps
  <2> QED
    BY <1>10, <2>1 DEF Filters
<1> QED
  BY <1>9, <1>11

(* Undone leaves out what is gone, keeps the rest, and repeats nothing.       *)
LEMMA UndoneKeeps ==
  ASSUME NEW S, NEW q \in Seq(S), Once(q), NEW gone
  PROVE  /\ Undone(q, gone) \in Seq(S) /\ Once(Undone(q, gone))
         /\ Range(Undone(q, gone)) = Range(q) \ gone
<1> DEFINE n == Len(q)
           Before(i) == {q[j] : j \in 1..i}
<1>1. n \in Nat /\ \A i \in 1..n : q[i] \in S
  OBVIOUS
<1>2. PICK iter : Filters(iter, q, gone) /\ Undone(q, gone) = iter[1..n]
  BY UndoneIsAFold
<1> DEFINE Good(f, i) == f \in Seq(S) /\ Once(f) /\ Range(f) = Before(i) \ gone
           G == {i \in Nat : i <= n => Good(iter[1..i], i)}
<1>3. 0 \in G
  <2>1. 1..0 = {} /\ Before(0) = {}
    OBVIOUS
  <2>2. {} \in SUBSET (1..n)
    OBVIOUS
  <2>3. iter[{}] = <<>>
    BY <1>2, <2>2 DEF Filters
  <2>4. <<>> \in Seq(S) /\ Once(<<>>) /\ Range(<<>>) = {}
    BY DEF Once, Range
  <2> QED
    BY <2>1, <2>3, <2>4
<1>4. ASSUME NEW i \in Nat, i \in G PROVE i + 1 \in G
  <2> SUFFICES ASSUME i + 1 <= n PROVE Good(iter[1..(i + 1)], i + 1)
    OBVIOUS
  <2> DEFINE f == iter[1..i]
             k == q[i + 1]
  <2>1. Good(f, i)
    BY <1>1, <1>4
  <2>2. iter[1..(i + 1)] = Keeps(f, k, gone)
    <3>0. i + 1 \in 1..(i + 1) /\ \A j \in 1..(i + 1) : j \in 1..n
      BY <1>1
    <3>1. 1..(i + 1) \in SUBSET (1..n) /\ 1..(i + 1) # {}
      <4> HIDE DEF n
      <4> QED
        BY <3>0
    <3>2. Max(1..(i + 1)) = i + 1 /\ (1..(i + 1)) \ {i + 1} = 1..i
      BY MaxOfSegment
    <3>3. iter[1..(i + 1)] = Keeps(iter[(1..(i + 1)) \ {Max(1..(i + 1))}], q[Max(1..(i + 1))], gone)
      BY <1>2, <3>1 DEF Filters
    <3> QED
      BY <3>2, <3>3
  <2>3. Before(i + 1) = Before(i) \cup {k}
    <3>1. 1..(i + 1) = (1..i) \cup {i + 1}
      OBVIOUS
    <3> QED
      BY <3>1
  <2>4. i + 1 \in 1..n /\ \A j \in 1..i : j \in 1..n /\ j # i + 1
    BY <1>1
  <2>5. k \in S /\ k \notin Before(i)
    BY <1>1, <2>4 DEF Once
  <2> HIDE DEF f, k, Before
  <2>6. CASE k \in gone
    BY <2>1, <2>2, <2>3, <2>6 DEF Keeps
  <2>7. CASE k \notin gone
    <3>1. iter[1..(i + 1)] = Append(f, k)
      BY <2>2, <2>7 DEF Keeps
    <3>2. f \in Seq(S) /\ Once(f) /\ Range(f) = Before(i) \ gone
      BY <2>1
    <3>3. k \notin Range(f)
      BY <2>5, <3>2
    <3>4. /\ Append(f, k) \in Seq(S) /\ Len(Append(f, k)) = Len(f) + 1 /\ Len(f) \in Nat
          /\ \A j \in 1..Len(f) : Append(f, k)[j] = f[j]
          /\ Append(f, k)[Len(f) + 1] = k
      BY <2>5, <3>2
    <3>5. DOMAIN f = 1..Len(f) /\ DOMAIN Append(f, k) = 1..(Len(f) + 1)
      BY <2>5, <3>2
    <3> DEFINE g == Append(f, k)
               m == Len(f)
    <3> HIDE DEF g, m
    <3>6. \A j \in 1..(m + 1) : j \in 1..m \/ j = m + 1
      BY <3>4 DEF m
    <3>7. Once(g)
      <4> SUFFICES ASSUME NEW a \in 1..(m + 1), NEW c \in 1..(m + 1), g[a] = g[c] PROVE a = c
        BY <3>4 DEF Once, g, m
      <4>1. \A j \in 1..m : g[j] = f[j] /\ f[j] # k
        BY <3>3, <3>4, <3>5 DEF g, m, Range
      <4>2. g[m + 1] = k
        BY <3>4 DEF g, m
      <4>3. CASE a \in 1..m /\ c \in 1..m
        BY <3>2, <4>1, <4>3 DEF Once, m
      <4> QED
        BY <3>6, <4>1, <4>2, <4>3
    <3>8. Range(g) = Range(f) \cup {k}
      <4>1. Range(g) = {g[j] : j \in 1..(m + 1)} /\ Range(f) = {f[j] : j \in 1..m}
        BY <3>5 DEF Range, g, m
      <4>2. \A j \in 1..m : g[j] = f[j] /\ j \in 1..(m + 1)
        BY <3>4 DEF g, m
      <4>3. g[m + 1] = k /\ m + 1 \in 1..(m + 1)
        BY <3>4 DEF g, m
      <4> QED
        BY <3>6, <4>1, <4>2, <4>3
    <3> QED
      BY <2>3, <2>7, <3>1, <3>2, <3>4, <3>7, <3>8 DEF g
  <2> QED
    BY <2>6, <2>7
<1>5. n \in G
  <2> HIDE DEF G
  <2> QED
    BY <1>1, <1>3, <1>4, CountingUp
<1>6. Before(n) = Range(q)
  BY DEF Range
<1> QED
  BY <1>1, <1>2, <1>5, <1>6

(* Its length is the number of its members.                                  *)
LEMMA LengthCounts ==
  ASSUME NEW S, NEW q \in Seq(S), Once(q)
  PROVE  IsFiniteSet(Range(q)) /\ Cardinality(Range(q)) = Len(q)
<1>1. Len(q) \in Nat /\ q \in [1..Len(q) -> Range(q)]
  BY DEF Range
<1>2. q \in Bijection(1..Len(q), Range(q))
  BY <1>1 DEF Once, Range, Bijection, Injection, Surjection, IsInjective
<1>3. IsFiniteSet(1..Len(q)) /\ Cardinality(1..Len(q)) = Len(q)
  BY <1>1, FS_Interval
<1> QED
  BY <1>2, <1>3, FS_Bijection DEF ExistsBijection

(* The members of a set, in some order.                                      *)
LEMMA SetToSeqLists ==
  ASSUME NEW T, IsFiniteSet(T)
  PROVE  SetToSeq(T) \in Seq(T) /\ Once(SetToSeq(T)) /\ Range(SetToSeq(T)) = T
<1> DEFINE n == Cardinality(T)
<1>1. n \in Nat /\ ExistsBijection(1..n, T)
  BY FS_CardinalityType
<1>2. PICK f : f \in Bijection(1..n, T)
  BY <1>1 DEF ExistsBijection
<1>3. f \in [1..n -> T] /\ IsInjective(f)
  BY <1>2 DEF Bijection, Injection
<1> DEFINE g == SetToSeq(T)
<1>4. g \in [1..n -> T] /\ IsInjective(g)
  BY <1>3 DEF SetToSeq
<1>5. IsFiniteSet(1..n) /\ Cardinality(1..n) = n
  BY <1>1, FS_Interval
<1>6. g \in Surjection(1..n, T)
  <2>1. g \in Injection(1..n, T)
    BY <1>4 DEF Injection
  <2> HIDE DEF g
  <2> QED
    BY <1>5, <2>1, FS_Injection
<1> HIDE DEF g, n
<1>7. g \in Seq(T) /\ Len(g) = n
  BY <1>1, <1>4
<1>8. Once(g)
  BY <1>4, <1>7 DEF Once, IsInjective
<1>9. Range(g) = T
  BY <1>4, <1>6 DEF Range, Surjection
<1> QED
  BY <1>7, <1>8, <1>9 DEF g

(* Two sequences with nothing in common, one after the other.                  *)
LEMMA ConcatLists ==
  ASSUME NEW S, NEW q \in Seq(S), NEW r \in Seq(S), Once(q), Once(r), Range(q) \cap Range(r) = {}
  PROVE  q \o r \in Seq(S) /\ Once(q \o r) /\ Range(q \o r) = Range(q) \cup Range(r)
<1> DEFINE c == q \o r
           m == Len(q)
           n == Len(r)
<1>1. c \in Seq(S) /\ m \in Nat /\ n \in Nat /\ Len(c) = m + n
  OBVIOUS
<1>2. DOMAIN c = 1..(m + n) /\ DOMAIN q = 1..m /\ DOMAIN r = 1..n
  BY <1>1
<1>3. \A i \in 1..(m + n) : c[i] = IF i <= m THEN q[i] ELSE r[i - m]
  OBVIOUS
<1> HIDE DEF c, m, n
<1>4. \A i \in 1..(m + n) : IF i <= m THEN i \in 1..m ELSE i - m \in 1..n
  BY <1>1
<1>5. \A i \in 1..n : i + m \in 1..(m + n) /\ ~(i + m <= m) /\ (i + m) - m = i
  BY <1>1
<1>6. \A i \in 1..m : i \in 1..(m + n) /\ i <= m
  BY <1>1
<1>7. Range(c) = Range(q) \cup Range(r)
  <2>1. Range(c) = {c[i] : i \in 1..(m + n)} /\ Range(q) = {q[i] : i \in 1..m}
        /\ Range(r) = {r[i] : i \in 1..n}
    BY <1>2 DEF Range
  <2>2. Range(c) \subseteq Range(q) \cup Range(r)
    BY <1>3, <1>4, <2>1
  <2>3. Range(q) \subseteq Range(c)
    BY <1>3, <1>6, <2>1
  <2>4. Range(r) \subseteq Range(c)
    <3> SUFFICES ASSUME NEW i \in 1..n PROVE r[i] \in Range(c)
      BY <2>1
    <3>1. c[i + m] = r[i] /\ i + m \in 1..(m + n)
      BY <1>3, <1>5
    <3> QED
      BY <2>1, <3>1
  <2> QED
    BY <2>2, <2>3, <2>4
<1>8. Once(c)
  <2> SUFFICES ASSUME NEW i \in 1..(m + n), NEW j \in 1..(m + n), c[i] = c[j] PROVE i = j
    BY <1>1 DEF Once, c
  <2>1. i \in Int /\ j \in Int
    OBVIOUS
  <2>2. CASE i <= m /\ j <= m
    BY <1>3, <1>4, <2>2 DEF Once, m
  <2>3. CASE ~(i <= m) /\ ~(j <= m)
    <3>1. r[i - m] = r[j - m] /\ i - m \in 1..n /\ j - m \in 1..n
      BY <1>3, <1>4, <2>3
    <3>2. i - m = j - m
      BY <3>1 DEF Once, n
    <3> QED
      BY <1>1, <2>1, <3>2
  <2>4. CASE (i <= m /\ ~(j <= m)) \/ (~(i <= m) /\ j <= m)
    <3>1. \A x \in 1..m : q[x] \in Range(q)
      BY <1>2 DEF Range
    <3>2. \A x \in 1..n : r[x] \in Range(r)
      BY <1>2 DEF Range
    <3> QED
      BY <1>3, <1>4, <2>4, <3>1, <3>2
  <2> QED
    BY <2>2, <2>3, <2>4
<1> QED
  BY <1>1, <1>7, <1>8 DEF c

-----------------------------------------------------------------------------
(* The books.                                                               *)

(* A book the code can write: nothing is queued twice, or queued and done.    *)
Shaped(m) ==
    /\ DOMAIN m = Fields
    /\ m.queue \in Seq(Packets) /\ Once(m.queue)
    /\ m.done \subseteq Packets /\ m.done \cap Range(m.queue) = {}
    /\ m.first \subseteq {s \in [bar : Bars, pairs : SUBSET Pairs] : Btc \in s.pairs}
    /\ m.through \in [Pairs -> Int]
    /\ DOMAIN m.skip = {"onTime", "scheduled", "answered", "skipped"}
    /\ m.skip.onTime \in [Bars -> Nat]
    /\ m.skip.scheduled \in Nat /\ m.skip.answered \in Nat /\ m.skip.skipped \in Nat

(* The watermark has passed only what no stamp is kept for.                  *)
Aged(w, t) == w = -1 \/ (w \in Nat /\ w + Window <= t)

Dated(m, t) ==
    /\ \A s \in m.first : s.bar <= t
    /\ \A p \in Pairs : Aged(m.through[p], t)

(* A packet that has had its outcome, or that nobody may call any more.       *)
Over(m, t, k) == k \in m.done \/ (Expired(k[2], t) /\ k \notin Range(m.queue))

(* Counted and queued.                                                      *)
Known(m) == m.skip.answered + m.skip.skipped + Len(m.queue)

GrownTo(s, r) ==
    /\ \A b \in Bars : s.onTime[b] <= r.onTime[b]
    /\ s.scheduled <= r.scheduled /\ s.answered <= r.answered /\ s.skipped <= r.skipped

(* A bar that was counted on time has its stamp until the window is over.     *)
Noted(m, t) ==
    \A b \in Bars : /\ m.skip.onTime[b] <= 1
                    /\ m.skip.onTime[b] = 1 => (\E s \in m.first : s.bar = b) \/ t >= b + Window

StampsKept(m, x, t) ==
    \A s \in m.first : (\E r \in x.first : r.bar = s.bar) \/ t >= s.bar + Window

OnTimeGrows(m, x, t) ==
    \A b \in Bars :
        \/ x.skip.onTime[b] = m.skip.onTime[b]
        \/ /\ x.skip.onTime[b] = m.skip.onTime[b] + 1
           /\ t < b + Window
           /\ \A s \in m.first : s.bar # b
           /\ \E s \in x.first : s.bar = b

(* What a book may become at time t while its process runs: packets that are  *)
(* new, packets that end, and those of them that are told in the ledger and   *)
(* among the outcomes to write.                                             *)
MovedOn(m, x, t, new, ended, told) ==
    /\ Shaped(x) /\ Dated(x, t)
    /\ new \subseteq Packets /\ IsFiniteSet(new)
    /\ \A k \in new : k \notin m.done /\ k \notin Range(m.queue) /\ ~Expired(k[2], t)
    /\ told \subseteq ended /\ ended \subseteq new \cup Range(m.queue)
    /\ Range(x.queue) = (Range(m.queue) \cup new) \ ended
    /\ ended \subseteq x.done /\ x.done \subseteq m.done \cup ended
    /\ \A k \in m.done : k \in x.done \/ Expired(k[2], t)
    /\ StampsKept(m, x, t) /\ OnTimeGrows(m, x, t)
    /\ GrownTo(m.skip, x.skip)
    /\ x.skip.scheduled = m.skip.scheduled + Cardinality(new)
    /\ x.skip.answered + x.skip.skipped = m.skip.answered + m.skip.skipped + Cardinality(told)

LEMMA Times == Window \in Nat /\ Expiry <= Window /\ Bars \subseteq Nat
  BY TimesAssumption DEF Window

LEMMA ExpiredStays ==
  ASSUME NEW k \in Packets, NEW t \in Nat, NEW u \in Nat, t <= u, Expired(k[2], t)
  PROVE  Expired(k[2], u)
<1>1. k[2] \in Nat /\ Expiry \in Nat
  BY TimesAssumption DEF Packets
<1> QED
  BY <1>1 DEF Expired

(* What is over stays over.                                                  *)
LEMMA OverStays ==
  ASSUME NEW m, Shaped(m), NEW x, NEW t, NEW new, NEW ended, NEW told,
         MovedOn(m, x, t, new, ended, told), NEW k, Over(m, t, k)
  PROVE  Over(x, t, k)
<1>1. k \notin new /\ k \notin Range(m.queue)
  BY DEF Over, MovedOn, Shaped
<1>2. k \notin Range(x.queue)
  BY <1>1 DEF MovedOn
<1> QED
  BY <1>2 DEF Over, MovedOn

(* What ends had not been over, and is.                                      *)
LEMMA EndedIsOver ==
  ASSUME NEW m, Shaped(m), NEW x, NEW t, NEW new, NEW ended, NEW told,
         MovedOn(m, x, t, new, ended, told), NEW k \in ended
  PROVE  ~Over(m, t, k) /\ Over(x, t, k)
<1>1. k \in x.done
  BY DEF MovedOn
<1>2. k \notin m.done /\ (k \in Range(m.queue) \/ ~Expired(k[2], t))
  BY DEF MovedOn, Shaped
<1> QED
  BY <1>1, <1>2 DEF Over

(* A queued packet is not over.                                              *)
LEMMA QueuedIsOpen ==
  ASSUME NEW m, Shaped(m), NEW t, NEW k \in Range(m.queue)
  PROVE  ~Over(m, t, k)
  BY DEF Over, Shaped

LEMMA OverAges ==
  ASSUME NEW m, NEW k \in Packets, NEW t \in Nat, NEW u \in Nat, t <= u, Over(m, t, k)
  PROVE  Over(m, u, k)
  BY ExpiredStays DEF Over

LEMMA DatedAges ==
  ASSUME NEW m, Shaped(m), NEW t \in Nat, NEW u \in Nat, t <= u, Dated(m, t)
  PROVE  Dated(m, u)
<1>1. ASSUME NEW s \in m.first PROVE s.bar <= u
  <2>1. s.bar \in Nat /\ s.bar <= t
    BY TimesAssumption DEF Shaped, Dated
  <2> QED
    BY <2>1
<1>2. ASSUME NEW p \in Pairs PROVE Aged(m.through[p], u)
  <2>1. Aged(m.through[p], t)
    BY DEF Dated
  <2> QED
    BY <2>1, Times DEF Aged
<1> QED
  BY <1>1, <1>2 DEF Dated

LEMMA NotedAges ==
  ASSUME NEW m, NEW t \in Nat, NEW u \in Nat, t <= u, Noted(m, t)
  PROVE  Noted(m, u)
<1> SUFFICES ASSUME NEW b \in Bars
             PROVE  /\ m.skip.onTime[b] <= 1
                    /\ m.skip.onTime[b] = 1 => (\E s \in m.first : s.bar = b) \/ u >= b + Window
  BY DEF Noted
<1>1. b \in Nat /\ Window \in Nat
  BY Times
<1>2. m.skip.onTime[b] <= 1 /\
      (m.skip.onTime[b] = 1 => (\E s \in m.first : s.bar = b) \/ t >= b + Window)
  BY DEF Noted
<1>3. t >= b + Window => u >= b + Window
  BY <1>1
<1> QED
  BY <1>2, <1>3

(* A bar without a stamp inside its window has not been counted.              *)
LEMMA NotedStays ==
  ASSUME NEW m, Shaped(m), NEW x, NEW t \in Nat, NEW new, NEW ended, NEW told,
         MovedOn(m, x, t, new, ended, told), Noted(m, t)
  PROVE  Noted(x, t)
<1> SUFFICES ASSUME NEW b \in Bars
             PROVE  /\ x.skip.onTime[b] <= 1
                    /\ x.skip.onTime[b] = 1 => (\E s \in x.first : s.bar = b) \/ t >= b + Window
  BY DEF Noted
<1>1. b \in Nat /\ Window \in Nat /\ m.skip.onTime[b] \in Nat
  BY Times DEF Shaped
<1>2. /\ m.skip.onTime[b] <= 1
      /\ m.skip.onTime[b] = 1 => (\E s \in m.first : s.bar = b) \/ t >= b + Window
  BY DEF Noted
<1>3. CASE x.skip.onTime[b] = m.skip.onTime[b]
  BY <1>2, <1>3 DEF MovedOn, StampsKept
<1>4. CASE /\ x.skip.onTime[b] = m.skip.onTime[b] + 1
           /\ t < b + Window
           /\ \A s \in m.first : s.bar # b
           /\ \E s \in x.first : s.bar = b
  <2>1. ~(t >= b + Window)
    BY <1>1, <1>4
  <2>2. m.skip.onTime[b] = 0
    BY <1>1, <1>2, <1>4, <2>1
  <2> QED
    BY <1>4, <2>2
<1> QED
  BY <1>3, <1>4 DEF MovedOn, OnTimeGrows

(* How far the ledger is behind.                                             *)
LEMMA LedgerMoves ==
  ASSUME NEW m, Shaped(m), NEW x, NEW t, NEW new, NEW ended, NEW told,
         MovedOn(m, x, t, new, ended, told)
  PROVE  /\ IsFiniteSet(ended) /\ IsFiniteSet(told)
         /\ Cardinality(told) <= Cardinality(ended)
         /\ Known(m) \in Nat /\ Known(x) \in Nat
         /\ x.skip.scheduled - Known(x)
              = m.skip.scheduled - Known(m) + (Cardinality(ended) - Cardinality(told))
<1> DEFINE q == Range(m.queue)
           r == Range(x.queue)
<1>1. /\ IsFiniteSet(q) /\ Cardinality(q) = Len(m.queue)
      /\ IsFiniteSet(r) /\ Cardinality(r) = Len(x.queue)
  BY LengthCounts DEF MovedOn, Shaped
<1>2. IsFiniteSet(new) /\ q \cap new = {} /\ ended \subseteq q \cup new /\ r = (q \cup new) \ ended
      /\ told \subseteq ended
  BY DEF MovedOn
<1>3. /\ m.skip.scheduled \in Nat /\ m.skip.answered \in Nat /\ m.skip.skipped \in Nat
      /\ x.skip.scheduled \in Nat /\ x.skip.answered \in Nat /\ x.skip.skipped \in Nat
      /\ x.skip.scheduled = m.skip.scheduled + Cardinality(new)
      /\ x.skip.answered + x.skip.skipped = m.skip.answered + m.skip.skipped + Cardinality(told)
  BY DEF MovedOn, Shaped
<1> HIDE DEF q, r
<1>4. IsFiniteSet(q \cup new) /\ Cardinality(q \cup new) = Cardinality(q) + Cardinality(new)
  <2>1. IsFiniteSet(q \cup new)
    BY <1>1, <1>2, FS_Union
  <2>2. Cardinality(q \cup new) = Cardinality(q) + Cardinality(new) - Cardinality(q \cap new)
    BY <1>1, <1>2, FS_Union
  <2>3. Cardinality(q \cap new) = 0
    BY <1>2, FS_EmptySet
  <2>4. Cardinality(q) \in Nat /\ Cardinality(new) \in Nat
    BY <1>1, <1>2, FS_CardinalityType
  <2> QED
    BY <2>1, <2>2, <2>3, <2>4
<1>5. IsFiniteSet(ended) /\ IsFiniteSet(told) /\ Cardinality(told) <= Cardinality(ended)
  <2>1. IsFiniteSet(ended)
    BY <1>2, <1>4, FS_Subset
  <2> QED
    BY <1>2, <2>1, FS_Subset
<1>6. Cardinality(r) = Cardinality(q \cup new) - Cardinality(ended)
  <2>1. ended \cup r = q \cup new /\ ended \cap r = {}
    BY <1>2
  <2>2. Cardinality(ended \cup r) = Cardinality(ended) + Cardinality(r) - Cardinality(ended \cap r)
    BY <1>1, <1>5, FS_Union
  <2>3. Cardinality(ended \cap r) = 0
    BY <2>1, FS_EmptySet
  <2>4. Cardinality(ended) \in Nat /\ Cardinality(r) \in Nat
    BY <1>1, <1>5, FS_CardinalityType
  <2> QED
    BY <2>1, <2>2, <2>3, <2>4
<1> DEFINE cq == Cardinality(q)
           cr == Cardinality(r)
           cn == Cardinality(new)
           ce == Cardinality(ended)
           ct == Cardinality(told)
           cu == Cardinality(q \cup new)
<1>7. cq \in Nat /\ cr \in Nat /\ cn \in Nat /\ ce \in Nat /\ ct \in Nat
  BY <1>1, <1>2, <1>5, FS_CardinalityType
<1>8. cu = cq + cn /\ cr = cu - ce
  BY <1>4, <1>6
<1> HIDE DEF cq, cr, cn, ce, ct, cu
<1>9. Known(m) = m.skip.answered + m.skip.skipped + cq
      /\ Known(x) = x.skip.answered + x.skip.skipped + cr
  BY <1>1 DEF Known, cq, cr
<1>10. x.skip.scheduled = m.skip.scheduled + cn
       /\ x.skip.answered + x.skip.skipped = m.skip.answered + m.skip.skipped + ct
  BY <1>3 DEF cn, ct
<1>11. x.skip.scheduled - Known(x) = m.skip.scheduled - Known(m) + (ce - ct)
  BY <1>3, <1>7, <1>8, <1>9, <1>10
<1>12. Known(m) \in Nat /\ Known(x) \in Nat
  BY <1>3, <1>7, <1>9
<1> QED
  BY <1>5, <1>11, <1>12 DEF ce, ct

-----------------------------------------------------------------------------
(* How the actions move a book on.                                           *)

LEMMA GrownToItself ==
  ASSUME NEW m, Shaped(m)
  PROVE  GrownTo(m.skip, m.skip)
  BY DEF GrownTo, Shaped

(* Packets leave the queue for the done keys.                                *)
LEMMA EndsMove ==
  ASSUME NEW m, Shaped(m), NEW t, Dated(m, t),
         NEW ended \in SUBSET Range(m.queue), NEW told \in SUBSET ended,
         NEW x, DOMAIN x = Fields,
         x.queue \in Seq(Packets), Once(x.queue), Range(x.queue) = Range(m.queue) \ ended,
         x.done = m.done \cup ended, x.first = m.first, x.through = m.through,
         DOMAIN x.skip = DOMAIN m.skip, x.skip.onTime = m.skip.onTime, x.skip.scheduled = m.skip.scheduled,
         x.skip.answered \in Nat, x.skip.answered >= m.skip.answered,
         x.skip.skipped \in Nat, x.skip.skipped >= m.skip.skipped,
         x.skip.answered + x.skip.skipped = m.skip.answered + m.skip.skipped + Cardinality(told)
  PROVE  MovedOn(m, x, t, {}, ended, told)
<1>1. Range(m.queue) \subseteq Packets
  BY DEF Shaped, Range
<1>2. Shaped(x)
  BY <1>1 DEF Shaped
<1>3. Dated(x, t)
  BY DEF Dated
<1>4. IsFiniteSet({}) /\ Cardinality({}) = 0
  BY FS_EmptySet
<1>5. GrownTo(m.skip, x.skip)
  BY DEF GrownTo, Shaped
<1>6. StampsKept(m, x, t) /\ OnTimeGrows(m, x, t)
  BY DEF StampsKept, OnTimeGrows
<1>7. m.skip.scheduled = m.skip.scheduled + 0
  BY DEF Shaped
<1> QED
  BY <1>2, <1>3, <1>4, <1>5, <1>6, <1>7 DEF MovedOn

(* Nothing that counts has changed.                                          *)
LEMMA StillMoves ==
  ASSUME NEW m, Shaped(m), NEW t, Dated(m, t), NEW x, DOMAIN x = Fields,
         x.queue = m.queue, x.done = m.done, x.first = m.first, x.through = m.through,
         x.skip = m.skip
  PROVE  MovedOn(m, x, t, {}, {}, {})
<1>1. Cardinality({}) = 0
  BY FS_EmptySet
<1>2. /\ m.skip.answered \in Nat /\ m.skip.skipped \in Nat
      /\ m.skip.answered + m.skip.skipped = m.skip.answered + m.skip.skipped + 0
  BY DEF Shaped
<1>3. m.queue \in Seq(Packets) /\ Once(m.queue)
  BY DEF Shaped
<1>4. Range(x.queue) = Range(m.queue) \ {} /\ x.done = m.done \cup {}
  OBVIOUS
<1> QED
  BY <1>1, <1>2, <1>3, <1>4, EndsMove

(* The watermark is one of the bars, and the latest.                          *)
LEMMA WatermarkIsLatest ==
  ASSUME NEW through \in [Pairs -> Int], NEW t \in Nat,
         \A p \in Pairs : Aged(through[p], t),
         NEW stamps \in SUBSET [bar : Bars, pairs : SUBSET Pairs],
         \A s \in stamps : s.bar <= t
  PROVE  /\ Watermark(through, stamps) \in [Pairs -> Int]
         /\ \A p \in Pairs : \/ Watermark(through, stamps)[p] = through[p]
                             \/ \E s \in stamps : p \in s.pairs /\ Watermark(through, stamps)[p] = s.bar
<1> DEFINE W == Watermark(through, stamps)
<1>1. ASSUME NEW p \in Pairs
      PROVE  /\ W[p] \in Int
             /\ W[p] = through[p] \/ \E s \in stamps : p \in s.pairs /\ W[p] = s.bar
  <2> DEFINE bars == {s.bar : s \in {x \in stamps : p \in x.pairs}} \cup {through[p]}
  <2>1. \A b \in bars : b \in Int /\ -1 <= b /\ b <= t
    <3>1. \A s \in stamps : s.bar \in Nat /\ s.bar <= t
      BY TimesAssumption
    <3>2. through[p] \in Int /\ -1 <= through[p] /\ through[p] <= t
      <4>1. Aged(through[p], t) /\ Window \in Nat
        BY Times
      <4> QED
        BY <4>1 DEF Aged
    <3>3. \A s \in stamps : -1 <= s.bar
      BY <3>1
    <3> QED
      BY <3>1, <3>2, <3>3
  <2>2. bars \subseteq (-1)..t /\ bars # {}
    BY <2>1
  <2>3. IsFiniteSet(bars)
    <3>1. IsFiniteSet((-1)..t)
      BY FS_Interval
    <3> HIDE DEF bars
    <3> QED
      BY <2>2, <3>1, FS_Subset
  <2>4. W[p] = CHOOSE b \in bars : \A c \in bars : c <= b
    BY DEF Watermark
  <2>5. \E b \in bars : \A c \in bars : c <= b
    <3> HIDE DEF bars
    <3>1. Max(bars) \in bars /\ \A y \in bars : Max(bars) >= y
      BY <2>1, <2>2, <2>3, MaxExists
    <3>2. \A y \in bars : y <= Max(bars)
      BY <2>1, <3>1
    <3> QED
      BY <3>1, <3>2
  <2>6. W[p] \in bars
    <3> HIDE DEF bars, W
    <3> QED
      BY <2>4, <2>5
  <2>7. W[p] \in Int
    <3> HIDE DEF bars, W
    <3> QED
      BY <2>1, <2>6
  <2> HIDE DEF W
  <2> QED
    BY <2>6, <2>7
<1>2. W = [p \in Pairs |-> W[p]]
  BY DEF Watermark
<1> HIDE DEF W
<1>3. W \in [Pairs -> Int]
  BY <1>1, <1>2
<1> QED
  BY <1>1, <1>3 DEF W

(* settleStamps: what goes to the watermark has left the window.              *)
LEMMA SettledStampsMove ==
  ASSUME NEW m, Shaped(m), clock \in Nat, Dated(m, clock)
  PROVE  /\ MovedOn(m, SettledStamps(m), clock, {}, {}, {})
         /\ SettledStamps(m).queue = m.queue /\ SettledStamps(m).done = m.done
         /\ SettledStamps(m).skip = m.skip
<1> DEFINE old == {s \in m.first : Old(m, s)}
           x == SettledStamps(m)
           W == Watermark(m.through, old)
<1>1. /\ DOMAIN x = Fields /\ x.queue = m.queue /\ x.done = m.done /\ x.skip = m.skip
      /\ x.first = m.first \ old /\ x.through = W
  BY DEF SettledStamps, Shaped, Fields
<1>2. \A s \in m.first : /\ s.bar \in Bars /\ s.bar \in Nat /\ s.pairs \in SUBSET Pairs
                         /\ Btc \in s.pairs /\ s.bar <= clock
  BY TimesAssumption DEF Shaped, Dated
<1>3. Window \in Nat /\ \A p \in Pairs : m.through[p] \in Int /\ Aged(m.through[p], clock)
  BY Times DEF Shaped, Dated
<1>4. ASSUME NEW s \in m.first, Old(m, s) PROVE clock >= s.bar + Window
  <2>1. CASE clock >= s.bar + Window
    BY <2>1
  <2>2. CASE \A p \in s.pairs : s.bar <= m.through[p]
    <3>1. s.bar <= m.through[Btc] /\ Btc \in Pairs
      BY <1>2, <2>2, PairsAssumption
    <3>2. m.through[Btc] # -1
      BY <1>2, <3>1
    <3>3. m.through[Btc] \in Nat /\ m.through[Btc] + Window <= clock
      BY <1>3, <3>1, <3>2 DEF Aged
    <3> QED
      BY <1>2, <1>3, <3>1, <3>3
  <2> QED
    BY <1>4, <2>1, <2>2 DEF Old
<1>5. /\ W \in [Pairs -> Int]
      /\ \A p \in Pairs : W[p] = m.through[p] \/ \E s \in old : p \in s.pairs /\ W[p] = s.bar
  <2>1. m.through \in [Pairs -> Int] /\ old \in SUBSET [bar : Bars, pairs : SUBSET Pairs]
    BY DEF Shaped
  <2>2. \A s \in old : s.bar <= clock
    BY <1>2
  <2> HIDE DEF old
  <2> QED
    BY <1>3, <2>1, <2>2, WatermarkIsLatest
<1>6. \A p \in Pairs : Aged(W[p], clock)
  <2> SUFFICES ASSUME NEW p \in Pairs PROVE Aged(W[p], clock)
    OBVIOUS
  <2> HIDE DEF W
  <2>1. CASE W[p] = m.through[p]
    BY <1>3, <2>1
  <2>2. CASE W[p] # m.through[p]
    <3>1. PICK s \in old : W[p] = s.bar
      BY <1>5, <2>2
    <3>2. s.bar \in Nat /\ clock >= s.bar + Window
      BY <1>2, <1>4
    <3> QED
      BY <1>3, <3>1, <3>2 DEF Aged
  <2> QED
    BY <2>1, <2>2
<1>7. \A s \in m.first : s \in x.first \/ clock >= s.bar + Window
  BY <1>1, <1>4
<1> HIDE DEF x, W, old
<1>8. Shaped(x)
  BY <1>1, <1>5 DEF Shaped
<1>9. Dated(x, clock)
  BY <1>1, <1>6 DEF Dated
<1>10. StampsKept(m, x, clock) /\ OnTimeGrows(m, x, clock)
  BY <1>1, <1>7 DEF StampsKept, OnTimeGrows
<1>11. MovedOn(m, m, clock, {}, {}, {})
  <2>1. DOMAIN m = Fields
    BY DEF Shaped
  <2> QED
    BY <2>1, StillMoves
<1> QED
  BY <1>1, <1>8, <1>9, <1>10, <1>11 DEF MovedOn, x

(* noteStamp: inside the window the bar has a stamp.                          *)
LEMMA StampedMoves ==
  ASSUME NEW m, Shaped(m), clock \in Nat, Dated(m, clock), NEW bar \in Bars, bar <= clock,
         NEW pairs \in SUBSET Pairs, Btc \in pairs
  PROVE  LET x == Stamped(m, bar, pairs) IN
         /\ Shaped(x) /\ Dated(x, clock)
         /\ x.queue = m.queue /\ x.done = m.done /\ x.skip = m.skip
         /\ m.first \subseteq x.first
         /\ clock < bar + Window => \E s \in x.first : s.bar = bar
<1> DEFINE stamp == [bar |-> bar, pairs |-> pairs]
           W == Watermark(m.through, {stamp})
           x == Stamped(m, bar, pairs)
<1>1. bar \in Nat /\ Window \in Nat
  BY Times
<1>2. CASE clock >= bar + Window
  <2>1. x = [m EXCEPT !.through = W]
    BY <1>2 DEF Stamped
  <2>2. /\ DOMAIN x = Fields /\ x.queue = m.queue /\ x.done = m.done /\ x.skip = m.skip
        /\ x.first = m.first /\ x.through = W
    BY <2>1 DEF Shaped, Fields
  <2>3. /\ m.through \in [Pairs -> Int] /\ \A p \in Pairs : Aged(m.through[p], clock)
        /\ {stamp} \in SUBSET [bar : Bars, pairs : SUBSET Pairs]
        /\ \A s \in {stamp} : s.bar <= clock
    BY DEF Shaped, Dated
  <2>4. /\ W \in [Pairs -> Int]
        /\ \A p \in Pairs : W[p] = m.through[p] \/ \E s \in {stamp} : p \in s.pairs /\ W[p] = s.bar
    <3> HIDE DEF stamp
    <3> QED
      BY <2>3, WatermarkIsLatest
  <2>5. stamp.bar = bar
    OBVIOUS
  <2> HIDE DEF W, x, stamp
  <2>6. \A p \in Pairs : Aged(W[p], clock)
    BY <1>1, <1>2, <2>3, <2>4, <2>5 DEF Aged
  <2>7. Shaped(x) /\ Dated(x, clock)
    BY <2>2, <2>4, <2>6 DEF Shaped, Dated
  <2>8. ~(clock < bar + Window)
    BY <1>1, <1>2
  <2> QED
    BY <2>2, <2>7, <2>8 DEF x
<1>3. CASE ~(clock >= bar + Window) /\ \E s \in m.first : s.bar = bar
  <2>1. x = m
    BY <1>3 DEF Stamped
  <2> QED
    BY <1>3, <2>1
<1>4. CASE ~(clock >= bar + Window) /\ ~\E s \in m.first : s.bar = bar
  <2>1. x = [m EXCEPT !.first = @ \cup {stamp}]
    BY <1>4 DEF Stamped
  <2>2. /\ DOMAIN x = Fields /\ x.queue = m.queue /\ x.done = m.done /\ x.skip = m.skip
        /\ x.first = m.first \cup {stamp} /\ x.through = m.through
    BY <2>1 DEF Shaped, Fields
  <2>3. stamp \in {s \in [bar : Bars, pairs : SUBSET Pairs] : Btc \in s.pairs} /\ stamp.bar = bar
    OBVIOUS
  <2> HIDE DEF x, stamp
  <2>4. Shaped(x) /\ Dated(x, clock)
    BY <2>2, <2>3 DEF Shaped, Dated
  <2> QED
    BY <2>2, <2>3, <2>4 DEF x
<1> QED
  BY <1>2, <1>3, <1>4

LEMMA MovesAfter ==
  ASSUME NEW m, Shaped(m), NEW t \in Nat, NEW y, MovedOn(m, y, t, {}, {}, {}),
         y.queue = m.queue, y.done = m.done, y.skip = m.skip,
         NEW x, NEW new, NEW ended, NEW told, MovedOn(y, x, t, new, ended, told)
  PROVE  MovedOn(m, x, t, new, ended, told)
<1>1. Window \in Nat /\ \A s \in m.first : s.bar \in Nat
  BY Times, TimesAssumption DEF Shaped
<1>2. StampsKept(m, x, t)
  <2>1. StampsKept(m, y, t) /\ StampsKept(y, x, t)
    BY DEF MovedOn
  <2> SUFFICES ASSUME NEW s \in m.first, ~(t >= s.bar + Window)
               PROVE  \E r \in x.first : r.bar = s.bar
    BY DEF StampsKept
  <2>2. PICK r \in y.first : r.bar = s.bar
    BY <2>1 DEF StampsKept
  <2> QED
    BY <2>1, <2>2 DEF StampsKept
<1>3. OnTimeGrows(m, x, t)
  <2> SUFFICES ASSUME NEW b \in Bars, x.skip.onTime[b] # m.skip.onTime[b]
               PROVE  /\ x.skip.onTime[b] = m.skip.onTime[b] + 1
                      /\ t < b + Window
                      /\ \A s \in m.first : s.bar # b
                      /\ \E s \in x.first : s.bar = b
    BY DEF OnTimeGrows
  <2>1. /\ x.skip.onTime[b] = m.skip.onTime[b] + 1
        /\ t < b + Window
        /\ \A s \in y.first : s.bar # b
        /\ \E s \in x.first : s.bar = b
    BY DEF MovedOn, OnTimeGrows
  <2>2. ASSUME NEW s \in m.first, s.bar = b PROVE FALSE
    <3>1. t >= b + Window
      BY <2>1, <2>2 DEF MovedOn, StampsKept
    <3> QED
      BY <1>1, <2>1, <2>2, <3>1
  <2> QED
    BY <2>1, <2>2
<1> QED
  BY <1>2, <1>3 DEF MovedOn

(* A bar that comes too late gets its stamp and no packets.                   *)
LEMMA CaughtUpMoves ==
  ASSUME NEW m, Shaped(m), clock \in Nat, Dated(m, clock), NEW bar \in Bars, bar <= clock,
         NEW pairs \in SUBSET Pairs, Btc \in pairs
  PROVE  MovedOn(m, CaughtUp(m, bar, pairs), clock, {}, {}, {})
<1> DEFINE c == [m EXCEPT !.caught = @ \cup {bar}]
           y == Stamped(c, bar, pairs)
           x == CaughtUp(m, bar, pairs)
<1>1. /\ DOMAIN c = Fields /\ c.queue = m.queue /\ c.done = m.done /\ c.first = m.first
      /\ c.through = m.through /\ c.skip = m.skip
  BY DEF Shaped, Fields
<1>2. x = [y EXCEPT !.bar = bar]
  BY DEF CaughtUp
<1> HIDE DEF c
<1>3. Shaped(c) /\ Dated(c, clock)
  BY <1>1 DEF Shaped, Dated
<1>4. /\ Shaped(y) /\ Dated(y, clock)
      /\ y.queue = c.queue /\ y.done = c.done /\ y.skip = c.skip /\ c.first \subseteq y.first
  BY <1>3, StampedMoves
<1> HIDE DEF y
<1>5. /\ DOMAIN x = Fields /\ x.queue = m.queue /\ x.done = m.done /\ x.skip = m.skip
      /\ m.first \subseteq x.first /\ x.through = y.through /\ x.first = y.first
  BY <1>1, <1>2, <1>4 DEF Shaped, Fields
<1> HIDE DEF x
<1>6. Shaped(x) /\ Dated(x, clock)
  BY <1>1, <1>4, <1>5 DEF Shaped, Dated
<1>7. StampsKept(m, x, clock) /\ OnTimeGrows(m, x, clock)
  BY <1>5 DEF StampsKept, OnTimeGrows
<1>8. MovedOn(m, m, clock, {}, {}, {})
  <2>1. DOMAIN m = Fields
    BY DEF Shaped
  <2> QED
    BY <2>1, StillMoves
<1> QED
  BY <1>5, <1>6, <1>7, <1>8 DEF MovedOn, x

LEMMA NotExpired ==
  ASSUME clock \in Nat, NEW bar \in Bars, ~Expired(bar, clock)
  PROVE  clock < bar + Window
<1>1. bar \in Nat /\ Window \in Nat /\ Expiry \in Nat /\ Expiry <= Window
  BY Times, TimesAssumption
<1> QED
  BY <1>1 DEF Expired

(* An on-time bar: the packets nobody has seen are queued, or end at once.    *)
LEMMA ScheduledMoves ==
  ASSUME NEW m, Shaped(m), clock \in Nat, Dated(m, clock), NEW bar \in Bars, bar <= clock,
         ~Expired(bar, clock), NEW pairs \in SUBSET Pairs, Btc \in pairs, NEW complete,
         bar \notin {s.bar : s \in m.first}
  PROVE  \E new, ended :
            /\ MovedOn(m, Scheduled(m, bar, pairs, complete), clock, new, ended, ended)
            /\ Scheduled(m, bar, pairs, complete).done \ m.done = ended
            /\ ended \subseteq new
<1> DEFINE fresh == (pairs \X {bar}) \ (m.done \cup Range(m.queue))
           full == fresh \cap (complete \X {bar})
           bare == fresh \ full
           list == SetToSeq(full)
           y == Stamped(m, bar, pairs)
           x == Scheduled(m, bar, pairs, complete)
<1>1. bar \in Nat /\ Window \in Nat /\ clock < bar + Window
  BY Times, NotExpired
<1>2. /\ Shaped(y) /\ Dated(y, clock)
      /\ y.queue = m.queue /\ y.done = m.done /\ y.skip = m.skip /\ m.first \subseteq y.first
      /\ \E s \in y.first : s.bar = bar
  BY <1>1, StampedMoves
<1>3. /\ IsFiniteSet(fresh) /\ IsFiniteSet(full) /\ IsFiniteSet(bare)
      /\ fresh \subseteq Packets /\ full \subseteq fresh /\ bare = fresh \ full
  <2>1. IsFiniteSet(pairs) /\ IsFiniteSet({bar})
    BY PairsAssumption, FS_Subset, FS_Singleton
  <2>2. IsFiniteSet(pairs \X {bar})
    BY <2>1, FS_Product
  <2>3. IsFiniteSet(fresh)
    BY <2>2, FS_Subset
  <2>4. IsFiniteSet(full) /\ IsFiniteSet(bare)
    <3> HIDE DEF fresh
    <3> QED
      BY <2>3, FS_Subset
  <2>5. fresh \subseteq Packets
    BY DEF Packets
  <2> QED
    BY <2>3, <2>4, <2>5
<1>4. \A k \in fresh : k \notin m.done /\ k \notin Range(m.queue) /\ k[2] = bar
  OBVIOUS
<1>5. x = [y EXCEPT !.bar = bar,
                    !.queue = @ \o list,
                    !.done = @ \cup bare,
                    !.skip.onTime[bar] = @ + 1,
                    !.skip.scheduled = @ + Cardinality(fresh),
                    !.skip.skipped = @ + Cardinality(bare)]
  BY DEF Scheduled
<1>6. list \in Seq(full) /\ Once(list) /\ Range(list) = full
  <2> HIDE DEF full
  <2> QED
    BY <1>3, SetToSeqLists
<1> HIDE DEF fresh, full, bare, list, y
<1> DEFINE cf == Cardinality(fresh)
           cb == Cardinality(bare)
<1>7. cf \in Nat /\ cb \in Nat
  BY <1>3, FS_CardinalityType
<1>8. /\ DOMAIN x = Fields /\ x.queue = m.queue \o list /\ x.done = m.done \cup bare
      /\ x.first = y.first /\ x.through = y.through
      /\ DOMAIN x.skip = DOMAIN m.skip
      /\ x.skip.onTime = [m.skip.onTime EXCEPT ![bar] = @ + 1]
      /\ x.skip.scheduled = m.skip.scheduled + cf
      /\ x.skip.answered = m.skip.answered
      /\ x.skip.skipped = m.skip.skipped + cb
  <2>1. DOMAIN y = Fields /\ DOMAIN y.skip = {"onTime", "scheduled", "answered", "skipped"}
    BY <1>2 DEF Shaped
  <2> HIDE DEF x, cf, cb
  <2>2. x = [y EXCEPT !.bar = bar, !.queue = @ \o list, !.done = @ \cup bare,
                      !.skip.onTime[bar] = @ + 1,
                      !.skip.scheduled = @ + cf, !.skip.skipped = @ + cb]
    BY <1>5 DEF cf, cb
  <2>3. DOMAIN x = Fields
    BY <2>1, <2>2
  <2>4. x.queue = y.queue \o list
    BY <2>1, <2>2 DEF Fields
  <2>5. x.done = y.done \cup bare
    BY <2>1, <2>2 DEF Fields
  <2>6. x.first = y.first /\ x.through = y.through
    BY <2>1, <2>2 DEF Fields
  <2>7. DOMAIN x.skip = DOMAIN y.skip
    BY <2>1, <2>2 DEF Fields
  <2>8. x.skip.onTime = [y.skip.onTime EXCEPT ![bar] = @ + 1]
    BY <2>1, <2>2 DEF Fields
  <2>9. x.skip.scheduled = y.skip.scheduled + cf
    BY <2>1, <2>2 DEF Fields
  <2>10. x.skip.answered = y.skip.answered /\ x.skip.skipped = y.skip.skipped + cb
    BY <2>1, <2>2 DEF Fields
  <2> QED
    BY <1>2, <2>3, <2>4, <2>5, <2>6, <2>7, <2>8, <2>9, <2>10
<1> HIDE DEF cf, cb
<1> HIDE DEF x
<1>10. /\ m.queue \o list \in Seq(Packets) /\ Once(m.queue \o list)
       /\ Range(m.queue \o list) = Range(m.queue) \cup full
  <2>1. m.queue \in Seq(Packets) /\ Once(m.queue) /\ list \in Seq(Packets)
    BY <1>3, <1>6 DEF Shaped
  <2>2. Range(m.queue) \cap Range(list) = {}
    BY <1>3, <1>4, <1>6
  <2> QED
    BY <1>6, <2>1, <2>2, ConcatLists
<1>11. /\ m.skip.onTime \in [Bars -> Nat] /\ m.skip.scheduled \in Nat
       /\ m.skip.answered \in Nat /\ m.skip.skipped \in Nat
       /\ m.done \subseteq Packets /\ m.done \cap Range(m.queue) = {}
  BY DEF Shaped
<1>12. x.skip.onTime \in [Bars -> Nat] /\ x.skip.onTime[bar] = m.skip.onTime[bar] + 1
       /\ \A b \in Bars : b # bar => x.skip.onTime[b] = m.skip.onTime[b]
  BY <1>8, <1>11
<1>13. x.done \cap Range(x.queue) = {}
  BY <1>3, <1>4, <1>8, <1>10, <1>11
<1>14. Shaped(x)
  <2>1. x.done \subseteq Packets
    BY <1>3, <1>8, <1>11
  <2>2. x.skip.scheduled \in Nat /\ x.skip.answered \in Nat /\ x.skip.skipped \in Nat
    BY <1>7, <1>8, <1>11
  <2>3. /\ x.first \subseteq {s \in [bar : Bars, pairs : SUBSET Pairs] : Btc \in s.pairs}
        /\ x.through \in [Pairs -> Int]
    BY <1>2, <1>8 DEF Shaped
  <2>4. DOMAIN x.skip = {"onTime", "scheduled", "answered", "skipped"}
    BY <1>8 DEF Shaped
  <2> QED
    BY <1>8, <1>10, <1>12, <1>13, <2>1, <2>2, <2>3, <2>4 DEF Shaped
<1>15. Dated(x, clock)
  BY <1>2, <1>8 DEF Dated
<1>16. StampsKept(m, x, clock)
  BY <1>2, <1>8 DEF StampsKept
<1>17. OnTimeGrows(m, x, clock)
  <2> SUFFICES ASSUME NEW b \in Bars, b = bar
               PROVE  /\ x.skip.onTime[b] = m.skip.onTime[b] + 1
                      /\ clock < b + Window
                      /\ \A s \in m.first : s.bar # b
                      /\ \E s \in x.first : s.bar = b
    BY <1>12 DEF OnTimeGrows
  <2> QED
    BY <1>1, <1>2, <1>8, <1>12
<1>18. GrownTo(m.skip, x.skip)
  <2>1. \A b \in Bars : m.skip.onTime[b] \in Nat
    BY <1>11
  <2>2. \A b \in Bars : m.skip.onTime[b] <= x.skip.onTime[b]
    BY <1>12, <2>1
  <2> QED
    BY <1>7, <1>8, <1>11, <2>2 DEF GrownTo
<1>19. x.skip.answered + x.skip.skipped = m.skip.answered + m.skip.skipped + cb
  BY <1>7, <1>8, <1>11
<1>20. \A k \in fresh : k \notin m.done /\ k \notin Range(m.queue) /\ ~Expired(k[2], clock)
  BY <1>4
<1>21. Range(x.queue) = (Range(m.queue) \cup fresh) \ bare
  <2>1. \A k \in bare : k \notin Range(m.queue) /\ k \in fresh /\ k \notin full
    BY <1>3, <1>4
  <2>2. fresh \ bare = full
    BY <1>3
  <2> QED
    BY <1>8, <1>10, <2>1, <2>2
<1>22. MovedOn(m, x, clock, fresh, bare, bare)
  <2>1. bare \subseteq fresh \cup Range(m.queue)
    BY <1>3
  <2> QED
    BY <1>3, <1>8, <1>14, <1>15, <1>16, <1>17, <1>18, <1>19, <1>20, <1>21, <2>1
       DEF MovedOn, cf, cb
<1>23. x.done \ m.done = bare
  BY <1>3, <1>4, <1>8
<1> QED
  BY <1>3, <1>22, <1>23 DEF x

-----------------------------------------------------------------------------
(* What a step of a running process does.                                    *)

PerProc ==
    /\ DOMAIN mem = Procs /\ DOMAIN pc = Procs /\ DOMAIN writes = Procs /\ DOMAIN sent = Procs
    /\ DOMAIN row = Procs /\ DOMAIN found = Procs /\ DOMAIN now = Procs
    /\ calls \in [Packets -> Int]
    /\ clock \in Nat /\ losses \in Nat /\ sheds \in Nat
    /\ scenario \in Scenarios

BooksInv ==
    /\ Shaped(saved) /\ Dated(saved, clock)
    /\ \A h \in Procs : Shaped(mem[h]) /\ Dated(mem[h], clock)

(* Where a process stands in its tick, and what its lists of outcomes hold.    *)
PlaceOK(h) ==
    /\ ~Running(h) => writes[h] = {} /\ sent[h] = {}
    /\ now[h] \in Nat /\ now[h] <= clock
    /\ pc[h] \in {"answer", "calling"} => row[h] \in Range(mem[h].queue)
    /\ pc[h] = "answer" /\ found[h] => row[h] \in answers
    /\ \A k \in writes[h] \cup sent[h] : k \in Packets /\ Over(mem[h], clock, k)

PlacesInv ==
    /\ owner # None => owner \in Procs /\ Running(owner)
    /\ IsFiniteSet({h \in Procs : Running(h)})
    /\ \A h \in Procs : PlaceOK(h)

(* The others are left alone.                                               *)
Alone(h) ==
    /\ PerProc'
    /\ \A g \in Procs \ {h} :
          /\ mem'[g] = mem[g] /\ pc'[g] = pc[g] /\ writes'[g] = writes[g] /\ sent'[g] = sent[g]
          /\ row'[g] = row[g] /\ found'[g] = found[g] /\ now'[g] = now[g]

(* What is called: a packet at the head of the queue whose answer is not there. *)
Calls(h) ==
    \A k \in Packets :
        \/ calls'[k] <= calls[k]
        \/ /\ calls'[k] = calls[k] + 1
           /\ pc[h] = "answer" /\ ~found[h] /\ row[h] = k
           /\ pc'[h] = "calling" /\ row'[h] = k

Works(h, new, ended, told) ==
    /\ Alone(h) /\ UNCHANGED <<clock, owner, stored, losses, sheds>>
    /\ Running(h) /\ Running(h)'
    /\ MovedOn(mem[h], mem'[h], clock, new, ended, told)
    /\ writes'[h] \subseteq writes[h] \cup told /\ told \ sent[h] \subseteq writes'[h]
    /\ sent'[h] \subseteq sent[h] \cup writes[h]
    /\ pc[h] # "saving" => writes[h] \subseteq writes'[h] /\ pc'[h] # "saving"
    /\ now'[h] \in Nat /\ now'[h] <= clock
    /\ pc'[h] \in {"answer", "calling"} => row'[h] \in Range(mem'[h].queue)
    /\ pc'[h] = "answer" /\ found'[h] => row'[h] \in answers
    /\ told # ended => found[h] /\ pc[h] = "answer" /\ ended = {row[h]}
    /\ pc[h] = "calling" => (pc'[h] = "calling" /\ row'[h] = row[h]) \/ row[h] \in told
    /\ Calls(h)

Working(h) == \E new, ended, told : Works(h, new, ended, told)

Ready == PerProc /\ BooksInv /\ PlacesInv

LEMMA CallsNothing ==
  ASSUME PerProc, calls' = calls, NEW h
  PROVE  Calls(h)
  BY DEF PerProc, Calls

LEMMA BarClosesWorks ==
  ASSUME Ready, NEW h \in Procs, BarCloses(h)
  PROVE  Working(h)
<1> USE DEF Ready
<1>1. PICK bar \in scenario.bars, pairs \in SUBSET scenario.pairs :
        /\ Btc \in pairs
        /\ \E complete \in SUBSET pairs : Schedule(h, bar, pairs, complete)
  BY DEF BarCloses
<1>2. PICK complete \in SUBSET pairs : Schedule(h, bar, pairs, complete)
  BY <1>1
<1>3. bar \in Bars /\ pairs \in SUBSET Pairs /\ bar <= clock
  <2>1. scenario.bars \subseteq Bars /\ scenario.pairs \subseteq Pairs
    BY ScenariosAssumption DEF PerProc
  <2>2. bar \in Bars /\ bar \in Nat /\ Bar \in Nat /\ clock \in Nat
    BY <2>1, TimesAssumption DEF PerProc
  <2>3. clock >= bar + Bar
    BY <1>2 DEF Schedule
  <2> QED
    BY <2>1, <2>2, <2>3
<1> DEFINE m == mem[h]
           y == SettledStamps(m)
           x == IF ~New(y, bar, pairs) THEN y
                ELSE IF Expired(bar, clock) THEN CaughtUp(y, bar, pairs)
                ELSE Scheduled(y, bar, pairs, complete)
<1>4. Shaped(m) /\ Dated(m, clock) /\ clock \in Nat
  BY DEF BooksInv, PerProc
<1>5. MovedOn(m, y, clock, {}, {}, {}) /\ y.queue = m.queue /\ y.done = m.done /\ y.skip = m.skip
  <2> HIDE DEF m
  <2> QED
    BY <1>4, SettledStampsMove
<1>6. mem' = [mem EXCEPT ![h] = x]
  BY <1>2 DEF Schedule
<1> HIDE DEF m, y
<1>7. Shaped(y) /\ Dated(y, clock)
  BY <1>5 DEF MovedOn
<1>8. \E new, ended : /\ MovedOn(m, x, clock, new, ended, ended)
                      /\ x.done \ m.done = ended /\ ended \subseteq new
  <2>1. CASE ~New(y, bar, pairs)
    <3>1. x = y /\ y.done \ m.done = {}
      BY <1>5, <2>1
    <3> HIDE DEF x
    <3> QED
      BY <1>5, <3>1
  <2>2. CASE New(y, bar, pairs) /\ Expired(bar, clock)
    <3>1. x = CaughtUp(y, bar, pairs)
      BY <2>2
    <3>2. MovedOn(y, CaughtUp(y, bar, pairs), clock, {}, {}, {})
      BY <1>1, <1>3, <1>4, <1>7, CaughtUpMoves
    <3> HIDE DEF x
    <3>3. MovedOn(m, x, clock, {}, {}, {})
      BY <1>4, <1>5, <3>1, <3>2, MovesAfter
    <3>4. x.done \ m.done = {}
      BY <3>3 DEF MovedOn
    <3> QED
      BY <3>3, <3>4
  <2>3. CASE New(y, bar, pairs) /\ ~Expired(bar, clock)
    <3>1. x = Scheduled(y, bar, pairs, complete)
      BY <2>3
    <3>2. bar \notin {s.bar : s \in y.first}
      BY <2>3 DEF New, Classified
    <3>3. PICK new, ended :
            /\ MovedOn(y, Scheduled(y, bar, pairs, complete), clock, new, ended, ended)
            /\ Scheduled(y, bar, pairs, complete).done \ y.done = ended
            /\ ended \subseteq new
      BY <1>1, <1>3, <1>4, <1>7, <2>3, <3>2, ScheduledMoves
    <3> HIDE DEF x
    <3>4. MovedOn(m, x, clock, new, ended, ended)
      BY <1>4, <1>5, <3>1, <3>3, MovesAfter
    <3> QED
      BY <1>5, <3>1, <3>3, <3>4
  <2> QED
    BY <2>1, <2>2, <2>3
<1> HIDE DEF x
<1>9. PICK new, ended : /\ MovedOn(m, x, clock, new, ended, ended)
                        /\ x.done \ m.done = ended /\ ended \subseteq new
  BY <1>8
<1>10. /\ Running(h)
       /\ writes' = Written(h, mem'[h].done \ mem[h].done)
       /\ UNCHANGED <<scenario, clock, owner, stored, pc, sent, row, found, now, histories>>
  BY <1>2 DEF Schedule
<1>11. mem'[h] = x /\ writes'[h] = writes[h] \cup (ended \ sent[h]) /\ Alone(h)
  <2>1. mem'[h] = x
    BY <1>6 DEF PerProc
  <2>2. writes' = [writes EXCEPT ![h] = @ \cup (ended \ sent[h])]
    BY <1>9, <1>10, <2>1 DEF Written, m
  <2> QED
    BY <1>6, <1>10, <2>1, <2>2 DEF Alone, PerProc
<1>12. pc[h] \in {"answer", "calling"} => row[h] \in Range(x.queue)
  <2>1. pc[h] \in {"answer", "calling"} => row[h] \in Range(m.queue)
    BY DEF PlacesInv, PlaceOK, m
  <2>2. ended \cap Range(m.queue) = {}
    BY <1>9 DEF MovedOn
  <2> QED
    BY <1>9, <2>1, <2>2 DEF MovedOn
<1>13. Calls(h)
  BY <1>10, CallsNothing
<1>14. now[h] \in Nat /\ now[h] <= clock /\ (pc[h] = "answer" /\ found[h] => row[h] \in answers)
  BY DEF PlacesInv, PlaceOK
<1>15. Works(h, new, ended, ended)
  BY <1>9, <1>10, <1>11, <1>12, <1>13, <1>14 DEF Works, Running, m
<1> QED
  BY <1>15 DEF Working

(* A step after which the drain is over.                                     *)
LEMMA EndingWorks ==
  ASSUME Ready, NEW h \in Procs, NEW ended, NEW told,
         Alone(h), UNCHANGED <<clock, owner, stored, losses, sheds>>,
         pc[h] \in {"lease", "answer", "calling"}, pc'[h] = "idle", now'[h] = 0,
         MovedOn(mem[h], mem'[h], clock, {}, ended, told),
         writes'[h] = writes[h] \cup (told \ sent[h]), sent'[h] = sent[h],
         \A k \in Packets : calls'[k] <= calls[k],
         told # ended => found[h] /\ pc[h] = "answer" /\ ended = {row[h]},
         pc[h] = "calling" => row[h] \in told
  PROVE  Working(h)
<1>1. Calls(h)
  BY DEF Calls
<1>2. clock \in Nat /\ 0 <= clock
  BY DEF Ready, PerProc
<1>3. Works(h, {}, ended, told)
  BY <1>1, <1>2 DEF Works, Running
<1> QED
  BY <1>3 DEF Working

LEMMA BookOf ==
  ASSUME Ready, NEW h \in Procs
  PROVE  /\ Shaped(mem[h]) /\ Dated(mem[h], clock) /\ DOMAIN mem[h] = Fields
         /\ MovedOn(mem[h], mem[h], clock, {}, {}, {})
<1>1. Shaped(mem[h]) /\ Dated(mem[h], clock)
  BY DEF Ready, BooksInv
<1>2. DOMAIN mem[h] = Fields
  BY <1>1 DEF Shaped
<1> QED
  BY <1>1, <1>2, StillMoves

LEMMA SavesWork ==
  ASSUME Ready, NEW h \in Procs, SaveReply(h) \/ SaveReplyLost(h) \/ DrainStart(h)
  PROVE  Working(h)
<1>1. calls' = calls /\ Calls(h)
  <2>1. calls' = calls
    BY DEF SaveReply, SaveReplyLost, DrainStart
  <2> QED
    BY <2>1, CallsNothing DEF Ready
<1>2. UNCHANGED <<clock, owner, stored, losses, sheds>> /\ mem'[h] = mem[h]
  BY DEF SaveReply, SaveReplyLost, DrainStart
<1>3. MovedOn(mem[h], mem'[h], clock, {}, {}, {})
  BY <1>2, BookOf
<1>4. now[h] \in Nat /\ now[h] <= clock /\ clock \in Nat
  BY DEF Ready, PerProc, PlacesInv, PlaceOK
<1>5. CASE SaveReply(h)
  <2>1. Alone(h) /\ writes'[h] = {} /\ sent'[h] = sent[h] \cup writes[h]
        /\ pc[h] = "saving" /\ pc'[h] = "idle" /\ now'[h] = now[h]
    BY <1>5 DEF SaveReply, Goto, Alone, Ready, PerProc
  <2>2. Works(h, {}, {}, {})
    BY <1>1, <1>2, <1>3, <1>4, <2>1 DEF Works, Running
  <2> QED
    BY <2>2 DEF Working
<1>6. CASE SaveReplyLost(h) \/ DrainStart(h)
  <2>1. /\ Alone(h) /\ writes'[h] = writes[h] /\ sent'[h] = sent[h]
        /\ now'[h] \in Nat /\ now'[h] <= clock
        /\ pc[h] \in {"saving", "idle"} /\ pc'[h] \in {"idle", "lease"}
    BY <1>4, <1>6 DEF SaveReplyLost, DrainStart, Goto, Alone, Ready, PerProc
  <2>2. Works(h, {}, {}, {})
    BY <1>1, <1>2, <1>3, <2>1 DEF Works, Running
  <2> QED
    BY <2>2 DEF Working
<1> QED
  BY <1>5, <1>6

(* boundJevDone forgets only what has expired.                               *)
LEMMA BoundedKeeps ==
  ASSUME NEW done \in SUBSET Packets, NEW t \in Nat, NEW u \in Nat, t <= u
  PROVE  /\ Bounded(done, t) \subseteq done
         /\ \A k \in done : k \in Bounded(done, t) \/ Expired(k[2], u)
<1>1. \A k \in Packets : k[2] \in Nat /\ Expiry \in Nat
  BY TimesAssumption DEF Packets
<1>2. Bounded(done, t) \subseteq done
  BY DEF Bounded
<1>3. ASSUME NEW k \in done, k \notin Bounded(done, t) PROVE Expired(k[2], u)
  <2>1. ~(t < k[2] + Expiry)
    BY <1>3 DEF Bounded
  <2>2. k[2] \in Nat /\ Expiry \in Nat
    BY <1>1
  <2> QED
    BY <2>1, <2>2 DEF Expired
<1> QED
  BY <1>2, <1>3

(* A queue without done packets is left as it is by Undone.                   *)
LEMMA UndoneDisjoint ==
  ASSUME NEW m, Shaped(m), NEW done, done \cap Range(m.queue) = {}
  PROVE  /\ Undone(m.queue, done) \in Seq(Packets) /\ Once(Undone(m.queue, done))
         /\ Range(Undone(m.queue, done)) = Range(m.queue)
  BY UndoneKeeps DEF Shaped

LEMMA DrainNextWorks ==
  ASSUME Ready, NEW h \in Procs, DrainNext(h)
  PROVE  Working(h)
<1> DEFINE m == mem[h]
           done == Bounded(m.done, now[h])
           queue == Undone(m.queue, done)
           x == [m EXCEPT !.done = done, !.queue = queue]
<1>1. Shaped(m) /\ Dated(m, clock) /\ DOMAIN m = Fields
  BY BookOf
<1>2. clock \in Nat /\ now[h] \in Nat /\ now[h] <= clock
  BY DEF Ready, PerProc, PlacesInv, PlaceOK
<1>3. done \subseteq m.done /\ \A k \in m.done : k \in done \/ Expired(k[2], clock)
  <2>1. m.done \in SUBSET Packets
    BY <1>1 DEF Shaped
  <2> HIDE DEF m
  <2> QED
    BY <1>2, <2>1, BoundedKeeps
<1>4. mem' = [mem EXCEPT ![h] = x]
  BY DEF DrainNext
<1>5. DOMAIN x = Fields /\ x.done = done /\ x.queue = queue /\ x.first = m.first
      /\ x.through = m.through /\ x.skip = m.skip
  BY <1>1 DEF Fields
<1> HIDE DEF x, done
<1>6. queue \in Seq(Packets) /\ Once(queue) /\ Range(queue) = Range(m.queue)
  <2>1. done \cap Range(m.queue) = {}
    BY <1>1, <1>3 DEF Shaped
  <2> HIDE DEF m
  <2> QED
    BY <1>1, <2>1, UndoneDisjoint
<1> HIDE DEF queue
<1>7. Shaped(x) /\ Dated(x, clock)
  BY <1>1, <1>3, <1>5, <1>6 DEF Shaped, Dated
<1>8. MovedOn(m, x, clock, {}, {}, {})
  <2>1. StampsKept(m, x, clock) /\ OnTimeGrows(m, x, clock)
    BY <1>5 DEF StampsKept, OnTimeGrows
  <2>2. MovedOn(m, m, clock, {}, {}, {})
    BY BookOf
  <2> HIDE DEF m
  <2> QED
    BY <1>3, <1>5, <1>6, <1>7, <2>1, <2>2 DEF MovedOn
<1>9. /\ mem'[h] = x /\ pc[h] = "lease" /\ UNCHANGED <<scenario, clock, owner, stored, writes, sent, histories>>
      /\ writes'[h] = writes[h] /\ sent'[h] = sent[h]
  BY <1>4 DEF DrainNext, Ready, PerProc
<1>10. CASE queue = <<>>
  <2>1. /\ pc' = [pc EXCEPT ![h] = "idle"] /\ now' = [now EXCEPT ![h] = 0]
        /\ UNCHANGED <<row, found>>
    BY <1>10 DEF DrainNext, queue, done, m
  <2>2. Alone(h) /\ pc'[h] = "idle" /\ now'[h] = 0
    BY <1>4, <1>9, <2>1 DEF Alone, Ready, PerProc
  <2>3. \A k \in Packets : calls'[k] <= calls[k]
    BY <1>9 DEF Ready, PerProc
  <2> QED
    BY <1>8, <1>9, <2>2, <2>3, EndingWorks DEF m
<1>11. CASE queue # <<>>
  <2>1. /\ pc' = [pc EXCEPT ![h] = "answer"] /\ row' = [row EXCEPT ![h] = Head(queue)]
        /\ found' = [found EXCEPT ![h] = Head(queue) \in answers]
        /\ now' = now
    BY <1>11 DEF DrainNext, queue, done, m
  <2>2. /\ Alone(h) /\ pc'[h] = "answer" /\ row'[h] = Head(queue)
        /\ (found'[h] <=> Head(queue) \in answers) /\ now'[h] = now[h]
    BY <1>4, <1>9, <2>1 DEF Alone, Ready, PerProc
  <2>3. Head(queue) \in Range(queue)
    <3>1. queue[1] \in Range(queue)
      BY <1>6, <1>11 DEF Range
    <3> QED
      BY <1>6, <1>11, <3>1
  <2>4. Calls(h)
    BY <1>9, CallsNothing DEF Ready
  <2>5. Works(h, {}, {}, {})
    BY <1>2, <1>5, <1>8, <1>9, <2>2, <2>3, <2>4 DEF Works, Running, m
  <2> QED
    BY <2>5 DEF Working
<1> QED
  BY <1>10, <1>11

(* One packet ends.                                                         *)
LEMMA OneEnds ==
  ASSUME NEW m, Shaped(m), NEW t, Dated(m, t), NEW k \in Range(m.queue), NEW told \in SUBSET {k},
         NEW y, DOMAIN y = Fields, y.queue = m.queue, y.done = m.done \cup {k},
         y.first = m.first, y.through = m.through,
         DOMAIN y.skip = DOMAIN m.skip, y.skip.onTime = m.skip.onTime,
         y.skip.scheduled = m.skip.scheduled,
         y.skip.answered \in Nat, y.skip.answered >= m.skip.answered,
         y.skip.skipped \in Nat, y.skip.skipped >= m.skip.skipped,
         y.skip.answered + y.skip.skipped = m.skip.answered + m.skip.skipped + Cardinality(told)
  PROVE  MovedOn(m, Removed(y, k), t, {}, {k}, told)
<1> DEFINE x == Removed(y, k)
<1>1. /\ DOMAIN x = Fields /\ x.queue = Undone(m.queue, {k}) /\ x.done = y.done
      /\ x.first = y.first /\ x.through = y.through /\ x.skip = y.skip
  BY DEF Removed, Fields
<1>2. /\ Undone(m.queue, {k}) \in Seq(Packets) /\ Once(Undone(m.queue, {k}))
      /\ Range(Undone(m.queue, {k})) = Range(m.queue) \ {k}
  BY UndoneKeeps DEF Shaped
<1>3. {k} \in SUBSET Range(m.queue)
  OBVIOUS
<1> HIDE DEF x
<1> QED
  BY <1>1, <1>2, <1>3, EndsMove DEF x

(* skipOne.                                                                 *)
LEMMA SkippedInBook ==
  ASSUME NEW m, Shaped(m), NEW b, DOMAIN b = Fields, b.queue = m.queue, b.done = m.done,
         b.first = m.first, b.through = m.through, b.skip = m.skip,
         NEW packets, IsFiniteSet(packets)
  PROVE  LET y == SkippedIn(b, packets) IN
         /\ DOMAIN y = Fields /\ y.queue = m.queue /\ y.done = m.done \cup packets
         /\ y.first = m.first /\ y.through = m.through
         /\ DOMAIN y.skip = DOMAIN m.skip /\ y.skip.onTime = m.skip.onTime
         /\ y.skip.scheduled = m.skip.scheduled /\ y.skip.answered = m.skip.answered
         /\ y.skip.answered \in Nat /\ y.skip.answered >= m.skip.answered
         /\ y.skip.skipped \in Nat /\ y.skip.skipped >= m.skip.skipped
         /\ y.skip.answered + y.skip.skipped
              = m.skip.answered + m.skip.skipped + Cardinality(packets)
<1> DEFINE y == SkippedIn(b, packets)
           n == Cardinality(packets)
<1>1. n \in Nat
  BY FS_CardinalityType
<1>2. y = [b EXCEPT !.done = @ \cup packets, !.skip.skipped = @ + n]
  BY DEF SkippedIn
<1> HIDE DEF y, n
<1>3. DOMAIN m.skip = {"onTime", "scheduled", "answered", "skipped"}
  BY DEF Shaped
<1>4. /\ DOMAIN y = Fields /\ y.queue = m.queue /\ y.done = m.done \cup packets
      /\ y.first = m.first /\ y.through = m.through
  BY <1>2 DEF Fields
<1>5. /\ DOMAIN y.skip = DOMAIN m.skip /\ y.skip.onTime = m.skip.onTime
      /\ y.skip.scheduled = m.skip.scheduled /\ y.skip.answered = m.skip.answered
      /\ y.skip.skipped = m.skip.skipped + n
  BY <1>2, <1>3 DEF Fields
<1>6. m.skip.answered \in Nat /\ m.skip.skipped \in Nat
  BY DEF Shaped
<1>7. /\ y.skip.answered \in Nat /\ y.skip.answered >= m.skip.answered
      /\ y.skip.skipped \in Nat /\ y.skip.skipped >= m.skip.skipped
      /\ y.skip.answered + y.skip.skipped = m.skip.answered + m.skip.skipped + n
  BY <1>1, <1>5, <1>6
<1> QED
  BY <1>4, <1>5, <1>7 DEF y, n

LEMMA OneSkipped ==
  ASSUME NEW m, Shaped(m), NEW t, Dated(m, t), NEW k \in Range(m.queue),
         NEW b, DOMAIN b = Fields, b.queue = m.queue, b.done = m.done,
         b.first = m.first, b.through = m.through, b.skip = m.skip
  PROVE  MovedOn(m, Removed(SkippedIn(b, {k}), k), t, {}, {k}, {k})
<1> DEFINE one == {k}
           y == SkippedIn(b, one)
<1>1. IsFiniteSet(one) /\ one \in SUBSET {k}
  BY FS_Singleton
<1> HIDE DEF one
<1>2. /\ DOMAIN y = Fields /\ y.queue = m.queue /\ y.done = m.done \cup one
      /\ y.first = m.first /\ y.through = m.through
      /\ DOMAIN y.skip = DOMAIN m.skip /\ y.skip.onTime = m.skip.onTime
      /\ y.skip.scheduled = m.skip.scheduled
      /\ y.skip.answered \in Nat /\ y.skip.answered >= m.skip.answered
      /\ y.skip.skipped \in Nat /\ y.skip.skipped >= m.skip.skipped
      /\ y.skip.answered + y.skip.skipped = m.skip.answered + m.skip.skipped + Cardinality(one)
  BY <1>1, SkippedInBook
<1> HIDE DEF y
<1>3. MovedOn(m, Removed(y, k), t, {}, {k}, one)
  <2>1. y.done = m.done \cup {k}
    BY <1>2 DEF one
  <2> QED
    BY <1>1, <1>2, <2>1, OneEnds
<1> QED
  BY <1>3 DEF y, one

LEMMA RowIsQueued ==
  ASSUME Ready, NEW h \in Procs, pc[h] \in {"answer", "calling"}
  PROVE  row[h] \in Range(mem[h].queue) /\ row[h] \in Packets
<1>1. row[h] \in Range(mem[h].queue)
  BY DEF Ready, PlacesInv, PlaceOK
<1>2. mem[h].queue \in Seq(Packets)
  BY BookOf DEF Shaped
<1> QED
  BY <1>1, <1>2 DEF Range

LEMMA DrainsWork ==
  ASSUME Ready, NEW h \in Procs,
         AlreadyAnswered(h) \/ TimedOut(h) \/ TooLate(h) \/ NotCalled(h)
  PROVE  Working(h)
<1> DEFINE m == mem[h]
           k == row[h]
<1>1. /\ DrainEnds(h, "answer") /\ pc[h] = "answer"
      /\ UNCHANGED <<scenario, clock, owner, stored, sent, histories>>
  <2>1. DrainEnds(h, "answer")
    BY DEF AlreadyAnswered, TimedOut, TooLate, NotCalled
  <2>2. UNCHANGED <<scenario, clock, owner, stored, sent, histories>>
    BY DEF AlreadyAnswered, TimedOut, TooLate, NotCalled
  <2> QED
    BY <2>1, <2>2 DEF DrainEnds, Goto
<1>2. Shaped(m) /\ Dated(m, clock) /\ DOMAIN m = Fields /\ k \in Range(m.queue)
  BY <1>1, BookOf, RowIsQueued
<1>3. pc'[h] = "idle" /\ now'[h] = 0 /\ sent'[h] = sent[h]
  BY <1>1 DEF DrainEnds, Goto, Ready, PerProc
<1>4. \A j \in Packets : calls'[j] <= calls[j]
  BY <1>1 DEF Ready, PerProc
<1>5. CASE AlreadyAnswered(h)
  <2> DEFINE y == [m EXCEPT !.done = @ \cup {k}]
             x == Removed(y, k)
  <2>1. mem' = [mem EXCEPT ![h] = x] /\ writes' = writes /\ found[h]
    BY <1>5 DEF AlreadyAnswered
  <2>2. /\ DOMAIN y = Fields /\ y.queue = m.queue /\ y.done = m.done \cup {k}
        /\ y.first = m.first /\ y.through = m.through /\ y.skip = m.skip
    BY <1>2 DEF Fields
  <2>3. MovedOn(m, x, clock, {}, {k}, {})
    <3>1. Cardinality({}) = 0 /\ {} \in SUBSET {k}
      BY FS_EmptySet
    <3>2. m.skip.answered \in Nat /\ m.skip.skipped \in Nat
      BY <1>2 DEF Shaped
    <3>3. m.skip.answered + m.skip.skipped = m.skip.answered + m.skip.skipped + Cardinality({})
      BY <3>1, <3>2
    <3> HIDE DEF y, m, k
    <3> QED
      BY <1>2, <2>2, <3>1, <3>2, <3>3, OneEnds
  <2> HIDE DEF x
  <2>4. mem'[h] = x /\ Alone(h) /\ writes'[h] = writes[h] \cup ({} \ sent[h])
    BY <1>1, <2>1 DEF Alone, DrainEnds, Goto, Ready, PerProc
  <2> QED
    BY <1>1, <1>3, <1>4, <2>1, <2>3, <2>4, EndingWorks
<1>6. CASE TimedOut(h)
  <2> DEFINE x == Removed(SkippedIn(m, {k}), k)
  <2>1. mem' = [mem EXCEPT ![h] = x] /\ writes' = Written(h, {k})
    BY <1>6 DEF TimedOut
  <2>2. MovedOn(m, x, clock, {}, {k}, {k})
    <3> HIDE DEF m, k
    <3> QED
      BY <1>2, OneSkipped
  <2> HIDE DEF x
  <2>3. mem'[h] = x /\ Alone(h) /\ writes'[h] = writes[h] \cup ({k} \ sent[h])
    BY <1>1, <2>1 DEF Alone, DrainEnds, Goto, Ready, PerProc, Written
  <2> QED
    BY <1>1, <1>3, <1>4, <2>1, <2>2, <2>3, EndingWorks
<1>7. CASE TooLate(h)
  <2>1. UNCHANGED <<mem, writes>>
    BY <1>7 DEF TooLate
  <2>2. Alone(h)
    BY <1>1, <2>1 DEF Alone, DrainEnds, Goto, Ready, PerProc
  <2>3. MovedOn(mem[h], mem'[h], clock, {}, {}, {})
    BY <2>1, BookOf
  <2>4. writes'[h] = writes[h] \cup ({} \ sent[h])
    BY <2>1
  <2> QED
    BY <1>1, <1>3, <1>4, <2>2, <2>3, <2>4, EndingWorks
<1>8. CASE NotCalled(h)
  <2> DEFINE packets == Range(m.queue) \ m.done
             y == SkippedIn(m, packets)
             x == [y EXCEPT !.queue = <<>>]
  <2>1. mem' = [mem EXCEPT ![h] = x] /\ writes' = Written(h, packets)
    BY <1>8 DEF NotCalled
  <2>2. packets = Range(m.queue) /\ IsFiniteSet(packets)
    <3>1. packets = Range(m.queue) /\ m.queue \in Seq(Packets) /\ Once(m.queue)
      BY <1>2 DEF Shaped
    <3> HIDE DEF packets, m
    <3>2. IsFiniteSet(Range(m.queue))
      BY <3>1, LengthCounts
    <3> QED
      BY <3>1, <3>2
  <2> HIDE DEF packets
  <2>3. /\ DOMAIN y = Fields /\ y.queue = m.queue /\ y.done = m.done \cup packets
        /\ y.first = m.first /\ y.through = m.through
        /\ DOMAIN y.skip = DOMAIN m.skip /\ y.skip.onTime = m.skip.onTime
        /\ y.skip.scheduled = m.skip.scheduled
        /\ y.skip.answered \in Nat /\ y.skip.answered >= m.skip.answered
        /\ y.skip.skipped \in Nat /\ y.skip.skipped >= m.skip.skipped
        /\ y.skip.answered + y.skip.skipped
             = m.skip.answered + m.skip.skipped + Cardinality(packets)
    <3> HIDE DEF m
    <3> QED
      BY <1>2, <2>2, SkippedInBook
  <2> HIDE DEF y
  <2>4. /\ DOMAIN x = Fields /\ x.queue = <<>> /\ x.done = y.done
        /\ x.first = y.first /\ x.through = y.through /\ x.skip = y.skip
    BY <2>3 DEF Fields
  <2>5. <<>> \in Seq(Packets) /\ Once(<<>>) /\ Range(<<>>) = Range(m.queue) \ packets
    BY <2>2 DEF Once, Range
  <2>6. MovedOn(m, x, clock, {}, packets, packets)
    <3>1. packets \in SUBSET Range(m.queue) /\ packets \in SUBSET packets
      BY <2>2
    <3> HIDE DEF x, m
    <3> QED
      BY <1>2, <2>3, <2>4, <2>5, <3>1, EndsMove
  <2> HIDE DEF x
  <2>7. mem'[h] = x /\ Alone(h) /\ writes'[h] = writes[h] \cup (packets \ sent[h])
    BY <1>1, <2>1 DEF Alone, DrainEnds, Goto, Ready, PerProc, Written
  <2> QED
    BY <1>1, <1>3, <1>4, <2>6, <2>7, EndingWorks
<1> QED
  BY <1>5, <1>6, <1>7, <1>8

LEMMA CallStartsWorks ==
  ASSUME Ready, NEW h \in Procs, CallStarts(h)
  PROVE  Working(h)
<1> DEFINE m == mem[h]
           x == [m EXCEPT !.meter = Spend(@, Reserve, Month(now[h]))]
<1>1. /\ pc[h] = "answer" /\ ~found[h] /\ pc' = [pc EXCEPT ![h] = "calling"]
      /\ mem' = [mem EXCEPT ![h] = x]
      /\ calls' = [calls EXCEPT ![row[h]] = @ + 1]
      /\ UNCHANGED <<scenario, clock, owner, stored, writes, sent, row, found, now, losses, sheds>>
  BY DEF CallStarts, InTime, Goto
<1>2. Shaped(m) /\ Dated(m, clock) /\ DOMAIN m = Fields /\ row[h] \in Range(m.queue) /\ row[h] \in Packets
  BY <1>1, BookOf, RowIsQueued
<1>3. /\ DOMAIN x = Fields /\ x.queue = m.queue /\ x.done = m.done /\ x.first = m.first
      /\ x.through = m.through /\ x.skip = m.skip
  BY <1>2 DEF Fields
<1>4. MovedOn(m, x, clock, {}, {}, {})
  <2> HIDE DEF x, m
  <2> QED
    BY <1>2, <1>3, StillMoves
<1> HIDE DEF x
<1>5. mem'[h] = x /\ pc'[h] = "calling" /\ calls' \in [Packets -> Int] /\ Alone(h)
  BY <1>1, <1>2 DEF Alone, Ready, PerProc
<1>6. Calls(h)
  BY <1>1, <1>2, <1>5 DEF Calls, Ready, PerProc
<1>7. now[h] \in Nat /\ now[h] <= clock
  BY DEF Ready, PlacesInv, PlaceOK
<1>8. Works(h, {}, {}, {})
  BY <1>1, <1>2, <1>3, <1>4, <1>5, <1>6, <1>7 DEF Works, Running
<1> QED
  BY <1>8 DEF Working

(* The end of a call, whatever it does to the meter.                          *)
LEMMA CallEndsWorks ==
  ASSUME Ready, NEW h \in Procs, NEW y, CallEnds(h, y),
         pc[h] = "calling" => MovedOn(mem[h], Removed(y, row[h]), clock, {}, {row[h]}, {row[h]}),
         calls' \in [Packets -> Int], \A j \in Packets : calls'[j] <= calls[j]
  PROVE  Working(h)
<1> DEFINE x == Removed(y, row[h])
<1>1. /\ mem' = [mem EXCEPT ![h] = x] /\ writes' = Written(h, {row[h]})
      /\ UNCHANGED <<scenario, clock, owner, stored, sent, losses, sheds>>
      /\ DrainEnds(h, "calling") /\ pc[h] = "calling"
  BY DEF CallEnds, DrainEnds, Goto
<1>2. pc'[h] = "idle" /\ now'[h] = 0 /\ sent'[h] = sent[h]
  BY <1>1 DEF DrainEnds, Goto, Ready, PerProc
<1>3. MovedOn(mem[h], x, clock, {}, {row[h]}, {row[h]})
  BY <1>1
<1> HIDE DEF x
<1>4. mem'[h] = x /\ Alone(h) /\ writes'[h] = writes[h] \cup ({row[h]} \ sent[h])
  BY <1>1 DEF Alone, DrainEnds, Goto, Ready, PerProc, Written
<1> QED
  BY <1>1, <1>2, <1>3, <1>4, EndingWorks

LEMMA CallEndingsWork ==
  ASSUME Ready, NEW h \in Procs,
         \/ \E price \in scenario.prices : Answered(h, price) \/ FailedAt(h, price)
         \/ \E price \in scenario.prices \cup {Reserve} : FailedUnpriced(h, price)
         \/ NeverLeft(h)
  PROVE  Working(h)
<1> DEFINE m == mem[h]
           k == row[h]
<1>0. calls \in [Packets -> Int] /\ Shaped(m) /\ Dated(m, clock) /\ DOMAIN m = Fields
  BY BookOf DEF Ready, PerProc
<1>1. ASSUME NEW b, DOMAIN b = Fields, b.queue = m.queue, b.done = m.done,
             b.first = m.first, b.through = m.through, b.skip = m.skip, pc[h] = "calling"
      PROVE  MovedOn(m, Removed(SkippedIn(b, {k}), k), clock, {}, {k}, {k})
  <2>1. k \in Range(m.queue)
    BY <1>1, RowIsQueued
  <2> HIDE DEF m, k
  <2> QED
    BY <1>0, <1>1, <2>1, OneSkipped
<1>2. ASSUME NEW price \in scenario.prices, Answered(h, price) PROVE Working(h)
  <2> DEFINE y == [m EXCEPT !.meter = Settled(@, price), !.done = @ \cup {k}, !.skip.answered = @ + 1]
  <2>1. CallEnds(h, y) /\ calls' = calls /\ pc[h] = "calling"
    BY <1>2 DEF Answered
  <2>2. k \in Range(m.queue)
    BY <2>1, RowIsQueued
  <2>3. DOMAIN m.skip = {"onTime", "scheduled", "answered", "skipped"}
        /\ m.skip.answered \in Nat /\ m.skip.skipped \in Nat
    BY <1>0 DEF Shaped
  <2>4. /\ DOMAIN y = Fields /\ y.queue = m.queue /\ y.done = m.done \cup {k}
        /\ y.first = m.first /\ y.through = m.through
    BY <1>0 DEF Fields
  <2>5. /\ DOMAIN y.skip = DOMAIN m.skip /\ y.skip.onTime = m.skip.onTime
        /\ y.skip.scheduled = m.skip.scheduled /\ y.skip.answered = m.skip.answered + 1
        /\ y.skip.skipped = m.skip.skipped
    BY <1>0, <2>3 DEF Fields
  <2>6. Cardinality({k}) = 1
    BY FS_Singleton
  <2> HIDE DEF y, m, k
  <2>7. /\ y.skip.answered \in Nat /\ y.skip.answered >= m.skip.answered
        /\ y.skip.skipped \in Nat /\ y.skip.skipped >= m.skip.skipped
        /\ y.skip.answered + y.skip.skipped = m.skip.answered + m.skip.skipped + Cardinality({k})
    BY <2>3, <2>5, <2>6
  <2>8. {k} \in SUBSET {k}
    OBVIOUS
  <2>9. MovedOn(m, Removed(y, k), clock, {}, {k}, {k})
    BY <1>0, <2>2, <2>4, <2>5, <2>7, <2>8, OneEnds
  <2>10. \A j \in Packets : calls'[j] <= calls[j]
    BY <1>0, <2>1
  <2> QED
    BY <1>0, <2>1, <2>9, <2>10, CallEndsWorks DEF m, k
<1>3. ASSUME NEW b, DOMAIN b = Fields, b.queue = m.queue, b.done = m.done,
             b.first = m.first, b.through = m.through, b.skip = m.skip,
             CallEnds(h, SkippedIn(b, {k})), calls' \in [Packets -> Int],
             \A j \in Packets : calls'[j] <= calls[j]
      PROVE  Working(h)
  <2> DEFINE y == SkippedIn(b, {k})
  <2>1. pc[h] = "calling" => MovedOn(m, Removed(y, k), clock, {}, {k}, {k})
    BY <1>1, <1>3
  <2> HIDE DEF y
  <2>2. CallEnds(h, y)
    BY <1>3 DEF y
  <2> QED
    BY <1>3, <2>1, <2>2, CallEndsWorks
<1>4. calls' = calls => calls' \in [Packets -> Int] /\ \A j \in Packets : calls'[j] <= calls[j]
  BY <1>0
<1>5. ASSUME NEW price \in scenario.prices, FailedAt(h, price) PROVE Working(h)
  <2> DEFINE b == [m EXCEPT !.meter = Charged(@, price)]
  <2>1. /\ DOMAIN b = Fields /\ b.queue = m.queue /\ b.done = m.done
        /\ b.first = m.first /\ b.through = m.through /\ b.skip = m.skip
    BY <1>0 DEF Fields
  <2>2. CallEnds(h, SkippedIn(b, {k})) /\ calls' = calls
    BY <1>5 DEF FailedAt
  <2> HIDE DEF b
  <2> QED
    BY <1>3, <1>4, <2>1, <2>2
<1>6. ASSUME NEW price \in scenario.prices \cup {Reserve}, FailedUnpriced(h, price)
      PROVE  Working(h)
  <2>1. CallEnds(h, SkippedIn(m, {k})) /\ calls' = calls
    BY <1>6 DEF FailedUnpriced
  <2> QED
    BY <1>0, <1>3, <1>4, <2>1
<1>7. ASSUME NeverLeft(h) PROVE Working(h)
  <2> DEFINE b == [m EXCEPT !.meter = Settled(@, 0)]
  <2>1. /\ DOMAIN b = Fields /\ b.queue = m.queue /\ b.done = m.done
        /\ b.first = m.first /\ b.through = m.through /\ b.skip = m.skip
    BY <1>0 DEF Fields
  <2>2. CallEnds(h, SkippedIn(b, {k})) /\ calls' = [calls EXCEPT ![k] = @ - 1]
    BY <1>7 DEF NeverLeft
  <2>3. k \in Packets
    BY <1>7, RowIsQueued DEF NeverLeft, CallEnds, DrainEnds, Goto
  <2>4. calls' \in [Packets -> Int] /\ \A j \in Packets : calls'[j] <= calls[j]
    <3>1. calls[k] \in Int
      BY <1>0, <2>3
    <3> HIDE DEF k
    <3> QED
      BY <1>0, <2>2, <2>3, <3>1
  <2> HIDE DEF b
  <2> QED
    BY <1>3, <2>1, <2>2, <2>4
<1> QED
  BY <1>2, <1>5, <1>6, <1>7

-----------------------------------------------------------------------------
(* The other steps.                                                         *)

(* A process is gone: killed, or it found that the lease is another's.        *)
Leaves(h) ==
    /\ Alone(h) /\ UNCHANGED <<clock, stored, sheds, calls>>
    /\ Running(h) /\ pc'[h] = "off" /\ mem'[h] = Fresh
    /\ writes'[h] = {} /\ sent'[h] = {} /\ row'[h] = None /\ now'[h] = 0
    /\ owner' = (IF owner = h THEN None ELSE owner)
    /\ losses' >= losses /\ (owner = h => losses' = losses + 1)

(* The owner stores its book and its outcomes.                               *)
Flushes(h) ==
    /\ owner = h /\ pc[h] = "idle" /\ UNCHANGED <<clock, losses, calls>>
    /\ answers' = answers \cup writes[h]
    /\ \E shed \in BOOLEAN : /\ saved' = Snapshot(mem[h], clock, shed)
                             /\ sheds' = sheds + (IF shed THEN 1 ELSE 0)

Saves(h) ==
    /\ Alone(h) /\ Flushes(h) /\ pc'[h] = "saving" /\ owner' = owner
    /\ mem'[h] = mem[h] /\ writes'[h] = writes[h] /\ sent'[h] = sent[h]
    /\ row'[h] = row[h] /\ now'[h] = now[h]

Releases(h) ==
    /\ Alone(h) /\ Flushes(h) /\ pc'[h] = "off" /\ owner' = None
    /\ mem'[h] = Fresh /\ writes'[h] = {} /\ sent'[h] = {} /\ row'[h] = None /\ now'[h] = 0

Warms(h) ==
    /\ Alone(h) /\ UNCHANGED <<clock, owner, stored, losses, sheds, calls>>
    /\ pc[h] = "off" /\ pc'[h] = "standby" /\ mem'[h] = Installed(Fresh, saved, FALSE)
    /\ writes'[h] = writes[h] /\ sent'[h] = sent[h] /\ row'[h] = row[h] /\ now'[h] = now[h]

Reloads(h) ==
    /\ Alone(h) /\ UNCHANGED <<clock, stored, losses, sheds, calls>>
    /\ pc[h] = "standby" /\ pc'[h] = "idle" /\ mem'[h] = Installed(mem[h], saved, TRUE)
    /\ owner = None /\ owner' = h
    /\ writes'[h] = writes[h] /\ sent'[h] = sent[h] /\ row'[h] = row[h] /\ now'[h] = now[h]

Lapses(h) ==
    /\ PerProc' /\ UNCHANGED <<clock, stored, sheds, calls, pc, mem, writes, sent, row, found, now>>
    /\ owner = h /\ owner' = None /\ losses' = losses + 1

Ages ==
    /\ PerProc' /\ UNCHANGED <<owner, stored, losses, sheds, calls, pc, mem, writes, sent, row, found, now>>
    /\ clock' = clock + 1

Stays ==
    /\ PerProc' /\ UNCHANGED <<clock, owner, stored, losses, sheds, calls, pc, mem, writes, sent, row, found, now>>

Moves(h) ==
    Working(h) \/ Leaves(h) \/ Saves(h) \/ Releases(h) \/ Warms(h) \/ Reloads(h) \/ Lapses(h)

LEMMA EveryStep ==
  ASSUME Ready, [Next]_vars
  PROVE  Stays \/ Ages \/ \E h \in Procs : Moves(h)
<1> USE DEF Ready
<1>1. CASE UNCHANGED vars
  <2>1. Stays
    BY <1>1 DEF vars, Stays, PerProc
  <2> QED
    BY <2>1
<1>2. CASE Tick
  <2>1. Ages
    BY <1>2 DEF Tick, Ages, PerProc
  <2> QED
    BY <2>1
<1>3. ASSUME NEW h \in Procs, Warm(h) PROVE Moves(h)
  <2>1. Warms(h)
    BY <1>3 DEF Warm, Goto, Warms, Alone, PerProc
  <2> QED
    BY <2>1 DEF Moves
<1>4. ASSUME NEW h \in Procs, Reload(h) PROVE Moves(h)
  <2>1. Reloads(h)
    BY <1>4 DEF Reload, Goto, Reloads, Alone, PerProc
  <2> QED
    BY <2>1 DEF Moves
<1>5. ASSUME NEW h \in Procs, Flush(h), owner = h, pc[h] = "idle", UNCHANGED <<clock, losses, calls>>
      PROVE  Flushes(h) /\ sheds' \in Nat
  <2>1. PICK shed \in BOOLEAN : /\ saved' = Snapshot(mem[h], clock, shed)
                                /\ sheds' = sheds + (IF shed THEN 1 ELSE 0)
    BY <1>5 DEF Flush
  <2>2. answers' = answers \cup writes[h]
    BY <1>5 DEF Flush
  <2>3. sheds' \in Nat
    BY <2>1 DEF PerProc
  <2> QED
    BY <1>5, <2>1, <2>2, <2>3 DEF Flushes
<1>6. ASSUME NEW h \in Procs, Save(h) PROVE Moves(h)
  <2>1. CASE owner = h
    <3>1. /\ Flush(h) /\ pc[h] = "idle" /\ pc' = [pc EXCEPT ![h] = "saving"]
          /\ UNCHANGED <<scenario, clock, owner, losses, calls, mem, writes, sent, row, found, now>>
      BY <1>6, <2>1 DEF Save
    <3>2. Flushes(h) /\ sheds' \in Nat
      BY <1>5, <2>1, <3>1
    <3>3. Saves(h)
      BY <3>1, <3>2 DEF Saves, Alone, PerProc
    <3> QED
      BY <3>3 DEF Moves
  <2>2. CASE owner # h
    <3>1. /\ pc[h] = "idle" /\ pc' = [pc EXCEPT ![h] = "off"] /\ Forget(h)
          /\ UNCHANGED <<scenario, clock, owner, losses, calls, stored, sheds>>
      BY <1>6, <2>2 DEF Save
    <3>2. Leaves(h)
      BY <2>2, <3>1 DEF Leaves, Forget, Alone, PerProc, Running
    <3> QED
      BY <3>2 DEF Moves
  <2> QED
    BY <2>1, <2>2
<1>7. ASSUME NEW h \in Procs, Release(h) PROVE Moves(h)
  <2>1. /\ Flush(h) /\ pc[h] = "idle" /\ pc' = [pc EXCEPT ![h] = "off"] /\ Forget(h)
        /\ owner = h /\ owner' = None /\ UNCHANGED <<scenario, clock, losses, calls>>
    BY <1>7 DEF Release, Goto
  <2>2. Flushes(h) /\ sheds' \in Nat
    BY <1>5, <2>1
  <2>3. Releases(h)
    BY <2>1, <2>2 DEF Releases, Forget, Alone, PerProc
  <2> QED
    BY <2>3 DEF Moves
<1>8. ASSUME NEW h \in Procs, Kill(h) PROVE Moves(h)
  <2>1. /\ Running(h) /\ pc' = [pc EXCEPT ![h] = "off"] /\ Forget(h)
        /\ owner' = (IF owner = h THEN None ELSE owner) /\ losses' = losses + 1
        /\ UNCHANGED <<scenario, clock, stored, sheds, calls>>
    BY <1>8 DEF Kill
  <2>2. Leaves(h)
    BY <2>1 DEF Leaves, Forget, Alone, PerProc
  <2> QED
    BY <2>2 DEF Moves
<1>9. ASSUME NEW h \in Procs, Lapse(h) PROVE Moves(h)
  <2>1. Lapses(h)
    BY <1>9 DEF Lapse, Lapses, PerProc
  <2> QED
    BY <2>1 DEF Moves
<1>10. ASSUME NEW h \in Procs,
              \/ BarCloses(h) \/ SaveReply(h) \/ SaveReplyLost(h) \/ DrainStart(h) \/ Drain(h)
       PROVE  Moves(h)
  <2>1. Working(h)
    BY <1>10, BarClosesWorks, SavesWork, DrainNextWorks, DrainsWork, CallStartsWorks, CallEndingsWork
       DEF Drain
  <2> QED
    BY <2>1 DEF Moves
<1> QED
  BY <1>1, <1>2, <1>3, <1>4, <1>6, <1>7, <1>8, <1>9, <1>10 DEF Next, Invocation

(* A fresh book, a saved one, and one that is installed from a save.           *)
LEMMA FreshBook ==
  ASSUME NEW t
  PROVE  /\ Shaped(Fresh) /\ Dated(Fresh, t)
         /\ Fresh.queue = <<>> /\ Fresh.done = {} /\ Fresh.skip = FreshSkip
         /\ Known(Fresh) = 0
<1>1. <<>> \in Seq(Packets) /\ Once(<<>>) /\ Len(<<>>) = 0
  BY DEF Once
<1>2. Shaped(Fresh) /\ Dated(Fresh, t)
  BY <1>1 DEF Shaped, Dated, Fresh, FreshSkip, Fields, Aged
<1> QED
  BY <1>1, <1>2 DEF Fresh, FreshSkip, Known

LEMMA SnapshotBook ==
  ASSUME NEW m, Shaped(m), NEW t \in Nat, Dated(m, t), NEW shed \in BOOLEAN
  PROVE  LET s == Snapshot(m, t, shed) IN
         /\ Shaped(s) /\ Dated(s, t)
         /\ s.skip = m.skip /\ Len(s.queue) = Len(m.queue) /\ Range(s.queue) = Range(m.queue)
         /\ s.done \subseteq m.done
         /\ ~shed => s.first = m.first /\ \A k \in m.done : k \in s.done \/ Expired(k[2], t)
<1> DEFINE s == Snapshot(m, t, shed)
           q == Undone(m.queue, m.done)
<1>1. DOMAIN m = Fields /\ m.done \in SUBSET Packets
  BY DEF Shaped
<1>2. /\ DOMAIN s = Fields /\ s.queue = q
      /\ s.done = (IF shed THEN {} ELSE Bounded(m.done, t))
      /\ s.first = (IF shed THEN {} ELSE m.first)
      /\ s.through = m.through /\ s.skip = m.skip
  BY <1>1 DEF Snapshot, Pending, Fields
<1>3. q \in Seq(Packets) /\ Once(q) /\ Range(q) = Range(m.queue)
  <2>1. m.done \cap Range(m.queue) = {}
    BY DEF Shaped
  <2> QED
    BY <2>1, UndoneDisjoint
<1>4. Len(q) = Len(m.queue)
  <2>1. m.queue \in Seq(Packets) /\ Once(m.queue)
    BY DEF Shaped
  <2> HIDE DEF q
  <2>2. Cardinality(Range(m.queue)) = Len(m.queue) /\ Cardinality(Range(q)) = Len(q)
    BY <1>3, <2>1, LengthCounts
  <2> QED
    BY <1>3, <2>2
<1>5. /\ Bounded(m.done, t) \subseteq m.done
      /\ \A k \in m.done : k \in Bounded(m.done, t) \/ Expired(k[2], t)
  <2>1. t <= t
    OBVIOUS
  <2> QED
    BY <1>1, <2>1, BoundedKeeps
<1> HIDE DEF s, q
<1>6. s.done \subseteq m.done /\ s.first \subseteq m.first
  BY <1>2, <1>5
<1>7. Shaped(s)
  BY <1>2, <1>3, <1>6 DEF Shaped
<1>8. Dated(s, t)
  BY <1>2, <1>6 DEF Dated
<1> QED
  BY <1>2, <1>3, <1>4, <1>5, <1>6, <1>7, <1>8 DEF s

LEMMA InstalledBook ==
  ASSUME NEW m, Shaped(m), NEW t \in Nat, Dated(m, t), NEW s, Shaped(s), Dated(s, t),
         NEW readable \in BOOLEAN
  PROVE  LET x == Installed(m, s, readable) IN
         /\ Shaped(x) /\ Dated(x, t)
         /\ GrownTo(m.skip, s.skip) => GrownTo(x.skip, s.skip)
         /\ GrownTo(s.skip, x.skip)
<1> DEFINE x == Installed(m, s, readable)
           q == Undone(s.queue, s.done)
<1>1. /\ DOMAIN x = Fields
      /\ x.queue = (IF readable THEN q ELSE m.queue)
      /\ x.done = (IF readable THEN s.done ELSE m.done)
      /\ x.first = s.first
      /\ x.through = [p \in Pairs |-> Larger(m.through[p], s.through[p])]
      /\ x.skip = MergedSkip(m.skip, s.skip)
  BY DEF Installed, Fields
<1>2. q \in Seq(Packets) /\ Once(q) /\ Range(q) = Range(s.queue)
  <2>1. s.done \cap Range(s.queue) = {}
    BY DEF Shaped
  <2> QED
    BY <2>1, UndoneDisjoint
<1>3. /\ m.skip.onTime \in [Bars -> Nat] /\ m.skip.scheduled \in Nat
      /\ m.skip.answered \in Nat /\ m.skip.skipped \in Nat
      /\ s.skip.onTime \in [Bars -> Nat] /\ s.skip.scheduled \in Nat
      /\ s.skip.answered \in Nat /\ s.skip.skipped \in Nat
  BY DEF Shaped
<1> HIDE DEF x, q
<1>4. /\ DOMAIN x.skip = {"onTime", "scheduled", "answered", "skipped"}
      /\ x.skip.onTime \in [Bars -> Nat] /\ x.skip.scheduled \in Nat
      /\ x.skip.answered \in Nat /\ x.skip.skipped \in Nat
      /\ \A b \in Bars : x.skip.onTime[b] = Larger(m.skip.onTime[b], s.skip.onTime[b])
      /\ x.skip.scheduled = Larger(m.skip.scheduled, s.skip.scheduled)
      /\ x.skip.answered = Larger(m.skip.answered, s.skip.answered)
      /\ x.skip.skipped = Larger(m.skip.skipped, s.skip.skipped)
  BY <1>1, <1>3 DEF MergedSkip, Larger
<1>5. \A b \in Bars : m.skip.onTime[b] \in Nat /\ s.skip.onTime[b] \in Nat
  BY <1>3
<1>6. GrownTo(s.skip, x.skip)
  BY <1>3, <1>4, <1>5 DEF GrownTo, Larger
<1>7. ASSUME GrownTo(m.skip, s.skip) PROVE GrownTo(x.skip, s.skip)
  BY <1>3, <1>4, <1>5, <1>7 DEF GrownTo, Larger
<1>8. m.through \in [Pairs -> Int] /\ s.through \in [Pairs -> Int]
  BY DEF Shaped
<1>9. x.through \in [Pairs -> Int] /\ \A p \in Pairs : x.through[p] \in {m.through[p], s.through[p]}
  BY <1>1, <1>8 DEF Larger
<1>10. Shaped(x)
  BY <1>1, <1>2, <1>4, <1>9 DEF Shaped
<1>11. Dated(x, t)
  BY <1>1, <1>9 DEF Dated
<1> QED
  BY <1>1, <1>2, <1>6, <1>7, <1>10, <1>11 DEF x

-----------------------------------------------------------------------------
(* Books and places last.                                                    *)

(* The books of one step of h.                                               *)
LEMMA BooksOfOthers ==
  ASSUME Ready, NEW h \in Procs, Alone(h), clock' = clock,
         Shaped(saved'), Dated(saved', clock), Shaped(mem'[h]), Dated(mem'[h], clock)
  PROVE  BooksInv'
<1>1. ASSUME NEW g \in Procs PROVE Shaped(mem'[g]) /\ Dated(mem'[g], clock')
  <2>1. CASE g = h
    BY <2>1
  <2>2. CASE g # h
    <3>1. mem'[g] = mem[g]
      BY <2>2 DEF Alone
    <3> QED
      BY <3>1 DEF Ready, BooksInv
  <2> QED
    BY <2>1, <2>2
<1> QED
  BY <1>1 DEF BooksInv

LEMMA FlushedBook ==
  ASSUME Ready, NEW h \in Procs, Flushes(h)
  PROVE  Shaped(saved') /\ Dated(saved', clock)
<1>1. PICK shed \in BOOLEAN : saved' = Snapshot(mem[h], clock, shed)
  BY DEF Flushes
<1>2. Shaped(mem[h]) /\ Dated(mem[h], clock) /\ clock \in Nat
  BY BookOf DEF Ready, PerProc
<1> QED
  BY <1>1, <1>2, SnapshotBook

LEMMA BooksKept ==
  ASSUME Ready, Stays \/ Ages \/ \E h \in Procs : Moves(h)
  PROVE  BooksInv'
<1>0. /\ clock \in Nat /\ Shaped(saved) /\ Dated(saved, clock)
      /\ \A h \in Procs : Shaped(mem[h]) /\ Dated(mem[h], clock)
  BY DEF Ready, PerProc, BooksInv
<1>1. CASE Stays
  BY <1>0, <1>1 DEF Stays, BooksInv
<1>2. CASE Ages
  <2>1. clock' \in Nat /\ clock <= clock'
    BY <1>0, <1>2 DEF Ages
  <2>2. Dated(saved, clock') /\ \A h \in Procs : Dated(mem[h], clock')
    BY <1>0, <2>1, DatedAges
  <2>3. saved' = saved /\ mem' = mem
    BY <1>2 DEF Ages
  <2> QED
    BY <1>0, <2>2, <2>3 DEF BooksInv
<1>3. ASSUME NEW h \in Procs, Working(h) PROVE BooksInv'
  <2>1. PICK new, ended, told : Works(h, new, ended, told)
    BY <1>3 DEF Working
  <2>2. Alone(h) /\ clock' = clock /\ saved' = saved
    BY <2>1 DEF Works
  <2>3. Shaped(mem'[h]) /\ Dated(mem'[h], clock)
    BY <2>1 DEF Works, MovedOn
  <2> QED
    BY <1>0, <2>2, <2>3, BooksOfOthers
<1>4. ASSUME NEW h \in Procs, Leaves(h) PROVE BooksInv'
  <2>1. Alone(h) /\ clock' = clock /\ saved' = saved /\ mem'[h] = Fresh
    BY <1>4 DEF Leaves
  <2>2. Shaped(Fresh) /\ Dated(Fresh, clock)
    BY FreshBook
  <2> QED
    BY <1>0, <2>1, <2>2, BooksOfOthers
<1>5. ASSUME NEW h \in Procs, Saves(h) PROVE BooksInv'
  <2>1. Alone(h) /\ clock' = clock /\ mem'[h] = mem[h] /\ Flushes(h)
    BY <1>5 DEF Saves, Flushes
  <2> QED
    BY <1>0, <2>1, FlushedBook, BooksOfOthers
<1>6. ASSUME NEW h \in Procs, Releases(h) PROVE BooksInv'
  <2>1. Alone(h) /\ clock' = clock /\ mem'[h] = Fresh /\ Flushes(h)
    BY <1>6 DEF Releases, Flushes
  <2>2. Shaped(Fresh) /\ Dated(Fresh, clock)
    BY FreshBook
  <2> QED
    BY <2>1, <2>2, FlushedBook, BooksOfOthers
<1>7. ASSUME NEW h \in Procs, Warms(h) PROVE BooksInv'
  <2>1. Alone(h) /\ clock' = clock /\ saved' = saved /\ mem'[h] = Installed(Fresh, saved, FALSE)
    BY <1>7 DEF Warms
  <2>2. Shaped(Fresh) /\ Dated(Fresh, clock)
    BY FreshBook
  <2>3. Shaped(Installed(Fresh, saved, FALSE)) /\ Dated(Installed(Fresh, saved, FALSE), clock)
    BY <1>0, <2>2, InstalledBook
  <2> QED
    BY <1>0, <2>1, <2>3, BooksOfOthers
<1>8. ASSUME NEW h \in Procs, Reloads(h) PROVE BooksInv'
  <2>1. Alone(h) /\ clock' = clock /\ saved' = saved /\ mem'[h] = Installed(mem[h], saved, TRUE)
    BY <1>8 DEF Reloads
  <2>2. Shaped(Installed(mem[h], saved, TRUE)) /\ Dated(Installed(mem[h], saved, TRUE), clock)
    BY <1>0, InstalledBook
  <2> QED
    BY <1>0, <2>1, <2>2, BooksOfOthers
<1>9. ASSUME NEW h \in Procs, Lapses(h) PROVE BooksInv'
  BY <1>0, <1>9 DEF Lapses, BooksInv
<1> QED
  BY <1>1, <1>2, <1>3, <1>4, <1>5, <1>6, <1>7, <1>8, <1>9 DEF Moves

LEMMA PlacesOfOthers ==
  ASSUME Ready, NEW h \in Procs, Alone(h), clock' = clock, answers \subseteq answers',
         owner' # None => owner' \in Procs /\ pc'[owner'] \notin {"off", "standby"},
         PlaceOK(h)'
  PROVE  PlacesInv'
<1>1. ASSUME NEW g \in Procs PROVE PlaceOK(g)'
  <2>1. CASE g = h
    BY <2>1
  <2>2. CASE g # h
    <3>1. /\ mem'[g] = mem[g] /\ pc'[g] = pc[g] /\ writes'[g] = writes[g] /\ sent'[g] = sent[g]
          /\ row'[g] = row[g] /\ found'[g] = found[g] /\ now'[g] = now[g]
      BY <2>2 DEF Alone
    <3>2. PlaceOK(g)
      BY DEF Ready, PlacesInv
    <3> QED
      BY <3>1, <3>2 DEF PlaceOK, Running
  <2> QED
    BY <2>1, <2>2
<1>2. IsFiniteSet({g \in Procs : Running(g)})'
  <2> DEFINE R == {g \in Procs : Running(g)}
             S == {g \in Procs : pc'[g] \notin {"off", "standby"}}
  <2>1. IsFiniteSet(R \cup {h})
    <3>1. IsFiniteSet(R)
      BY DEF Ready, PlacesInv
    <3> HIDE DEF R
    <3> QED
      BY <3>1, FS_AddElement
  <2>2. S \subseteq R \cup {h}
    BY DEF Alone, Running
  <2>3. IsFiniteSet(S)
    <3> HIDE DEF R, S
    <3> QED
      BY <2>1, <2>2, FS_Subset
  <2> QED
    BY <2>3 DEF Running
<1> QED
  BY <1>1, <1>2 DEF PlacesInv, Running

(* A process that does not run has nothing to write and is busy with nothing. *)
LEMMA RestingPlace ==
  ASSUME Ready, NEW h \in Procs, clock' = clock, pc'[h] \in {"off", "standby", "idle"},
         writes'[h] = {}, sent'[h] = {}, now'[h] \in Nat, now'[h] <= clock
  PROVE  PlaceOK(h)'
  BY DEF PlaceOK

LEMMA PlaceOf ==
  ASSUME Ready, NEW h \in Procs
  PROVE  /\ PlaceOK(h) /\ now[h] \in Nat /\ now[h] <= clock /\ clock \in Nat
         /\ owner # None => owner \in Procs /\ pc[owner] \notin {"off", "standby"}
  BY DEF Ready, PerProc, PlacesInv, PlaceOK, Running

LEMMA WorkKeepsPlace ==
  ASSUME Ready, NEW h \in Procs, NEW new, NEW ended, NEW told, Works(h, new, ended, told)
  PROVE  PlaceOK(h)'
<1>1. Shaped(mem[h]) /\ MovedOn(mem[h], mem'[h], clock, new, ended, told)
  BY BookOf DEF Works
<1>2. told \subseteq Packets
  <2>1. Range(mem[h].queue) \subseteq Packets
    BY <1>1 DEF Shaped, Range
  <2> QED
    BY <1>1, <2>1 DEF MovedOn
<1>3. ASSUME NEW k \in writes'[h] \cup sent'[h] PROVE k \in Packets /\ Over(mem'[h], clock, k)
  <2>1. k \in writes[h] \cup sent[h] \/ k \in told
    BY DEF Works
  <2>2. CASE k \in writes[h] \cup sent[h]
    <3>1. k \in Packets /\ Over(mem[h], clock, k)
      BY <2>2, PlaceOf DEF PlaceOK
    <3> QED
      BY <1>1, <3>1, OverStays
  <2>3. CASE k \in told
    <3>1. k \in ended
      BY <1>1, <2>3 DEF MovedOn
    <3> QED
      BY <1>1, <1>2, <2>3, <3>1, EndedIsOver
  <2> QED
    BY <2>1, <2>2, <2>3
<1>4. /\ clock' = clock /\ answers' = answers /\ Running(h)'
      /\ now'[h] \in Nat /\ now'[h] <= clock
      /\ pc'[h] \in {"answer", "calling"} => row'[h] \in Range(mem'[h].queue)
      /\ pc'[h] = "answer" /\ found'[h] => row'[h] \in answers
  BY DEF Works
<1> QED
  BY <1>3, <1>4 DEF PlaceOK

LEMMA PlacesKept ==
  ASSUME Ready, Stays \/ Ages \/ \E h \in Procs : Moves(h)
  PROVE  PlacesInv'
<1>0. clock \in Nat /\ \A h \in Procs : PlaceOK(h)
  BY DEF Ready, PerProc, PlacesInv
<1>1. CASE Stays
  BY <1>1 DEF Stays, Ready, PlacesInv, PlaceOK, Running
<1>2. CASE Ages
  <2>1. /\ UNCHANGED <<owner, stored, pc, mem, writes, sent, row, found, now>>
        /\ clock' \in Nat /\ clock <= clock'
    BY <1>0, <1>2 DEF Ages
  <2>2. ASSUME NEW h \in Procs PROVE PlaceOK(h)'
    <3>1. PlaceOK(h)
      BY <1>0
    <3>2. now[h] \in Nat /\ now[h] <= clock'
      BY <1>0, <2>1, <3>1 DEF PlaceOK
    <3>3. ASSUME NEW k \in writes[h] \cup sent[h] PROVE k \in Packets /\ Over(mem[h], clock', k)
      <4>1. k \in Packets /\ Over(mem[h], clock, k)
        BY <3>1 DEF PlaceOK
      <4> QED
        BY <1>0, <2>1, <4>1, OverAges
    <3> QED
      BY <2>1, <3>1, <3>2, <3>3 DEF PlaceOK, Running
  <2> QED
    BY <2>1, <2>2 DEF Ready, PlacesInv, Running
<1>3. ASSUME NEW h \in Procs, Working(h) PROVE PlacesInv'
  <2>1. PICK new, ended, told : Works(h, new, ended, told)
    BY <1>3 DEF Working
  <2>2. PlaceOK(h)'
    BY <2>1, WorkKeepsPlace
  <2>3. /\ Alone(h) /\ clock' = clock /\ answers' = answers /\ owner' = owner
        /\ pc'[h] \notin {"off", "standby"}
    BY <2>1 DEF Works, Running
  <2>4. owner' # None => owner' \in Procs /\ pc'[owner'] \notin {"off", "standby"}
    BY <2>3, PlaceOf DEF Alone
  <2> QED
    BY <2>2, <2>3, <2>4, PlacesOfOthers
<1>4. ASSUME NEW h \in Procs, Leaves(h) PROVE PlacesInv'
  <2>1. PlaceOK(h)'
    BY <1>0, <1>4, RestingPlace DEF Leaves
  <2>2. owner' # None => owner' \in Procs /\ pc'[owner'] \notin {"off", "standby"}
    BY <1>4, PlaceOf DEF Leaves, Alone
  <2> QED
    BY <1>4, <2>1, <2>2, PlacesOfOthers DEF Leaves
<1>5. ASSUME NEW h \in Procs, Saves(h) PROVE PlacesInv'
  <2>1. /\ Alone(h) /\ clock' = clock /\ answers \subseteq answers' /\ owner' = owner /\ owner = h
        /\ pc'[h] = "saving" /\ pc[h] = "idle"
        /\ mem'[h] = mem[h] /\ writes'[h] = writes[h] /\ sent'[h] = sent[h] /\ now'[h] = now[h]
    BY <1>5 DEF Saves, Flushes
  <2>2. PlaceOK(h)'
    BY <1>0, <2>1 DEF PlaceOK, Running
  <2>3. owner' # None => owner' \in Procs /\ pc'[owner'] \notin {"off", "standby"}
    BY <2>1
  <2> QED
    BY <2>1, <2>2, <2>3, PlacesOfOthers
<1>6. ASSUME NEW h \in Procs, Releases(h) PROVE PlacesInv'
  <2>1. PlaceOK(h)'
    BY <1>0, <1>6, RestingPlace DEF Releases, Flushes
  <2>2. Alone(h) /\ clock' = clock /\ answers \subseteq answers' /\ owner' = None
    BY <1>6 DEF Releases, Flushes
  <2> QED
    BY <2>1, <2>2, PlacesOfOthers
<1>7. ASSUME NEW h \in Procs, Warms(h) PROVE PlacesInv'
  <2>1. writes[h] = {} /\ sent[h] = {}
    BY <1>0, <1>7 DEF Warms, PlaceOK, Running
  <2>2. PlaceOK(h)'
    BY <1>7, <2>1, PlaceOf, RestingPlace DEF Warms
  <2>3. Alone(h) /\ clock' = clock /\ answers' = answers /\ owner' = owner /\ pc[h] = "off"
    BY <1>7 DEF Warms
  <2>4. owner' # None => owner' \in Procs /\ pc'[owner'] \notin {"off", "standby"}
    BY <2>3, PlaceOf DEF Alone
  <2> QED
    BY <2>2, <2>3, <2>4, PlacesOfOthers
<1>8. ASSUME NEW h \in Procs, Reloads(h) PROVE PlacesInv'
  <2>1. writes[h] = {} /\ sent[h] = {}
    BY <1>0, <1>8 DEF Reloads, PlaceOK, Running
  <2>2. PlaceOK(h)'
    BY <1>8, <2>1, PlaceOf, RestingPlace DEF Reloads
  <2>3. Alone(h) /\ clock' = clock /\ answers' = answers /\ owner' = h /\ pc'[h] = "idle"
    BY <1>8 DEF Reloads
  <2> QED
    BY <2>2, <2>3, PlacesOfOthers
<1>9. ASSUME NEW h \in Procs, Lapses(h) PROVE PlacesInv'
  BY <1>9 DEF Lapses, Ready, PlacesInv, PlaceOK, Running
<1> QED
  BY <1>1, <1>2, <1>3, <1>4, <1>5, <1>6, <1>7, <1>8, <1>9 DEF Moves

LEMMA ReadyKept ==
  ASSUME Ready, Stays \/ Ages \/ \E h \in Procs : Moves(h)
  PROVE  Ready'
<1>1. PerProc'
  <2>1. ASSUME NEW h \in Procs, Moves(h) PROVE PerProc'
    BY <2>1 DEF Moves, Working, Works, Leaves, Saves, Releases, Warms, Reloads, Lapses, Alone
  <2> QED
    BY <2>1 DEF Stays, Ages
<1> QED
  BY <1>1, BooksKept, PlacesKept DEF Ready

-----------------------------------------------------------------------------
(* What is saved as done is over for the owner, and not among its outcomes     *)
(* that still have to be written.                                           *)

SavedInv ==
    \A h \in Procs : owner = h =>
        \A k \in saved.done :
            Over(mem[h], clock, k) /\ (k \in writes[h] => k \in answers)

(* While the done keys were kept, a packet with an answer is over for the      *)
(* owner and in the saved book.                                              *)
AnswersInv ==
    /\ answers \subseteq Packets
    /\ sheds = 0 => \A k \in answers :
          /\ Over(saved, clock, k)
          /\ \A h \in Procs : owner = h => Over(mem[h], clock, k)

(* The owner runs, so a process that does not run is not the owner.           *)
LEMMA OwnersRun ==
  ASSUME Ready, NEW h \in Procs, pc[h] \in {"off", "standby"}
  PROVE  owner # h
  BY PairsAssumption DEF Ready, PlacesInv, Running

(* The book a new owner starts from.                                         *)
LEMMA ReloadedBook ==
  ASSUME Ready, NEW h \in Procs, Reloads(h)
  PROVE  /\ mem'[h].done = saved.done /\ mem'[h].first = saved.first
         /\ Range(mem'[h].queue) = Range(saved.queue) /\ Len(mem'[h].queue) = Len(saved.queue)
         /\ GrownTo(saved.skip, mem'[h].skip)
         /\ GrownTo(mem[h].skip, saved.skip) => GrownTo(mem'[h].skip, saved.skip)
<1>1. /\ clock \in Nat /\ Shaped(saved) /\ Dated(saved, clock)
      /\ Shaped(mem[h]) /\ Dated(mem[h], clock)
  BY DEF Ready, PerProc, BooksInv
<1>2. ASSUME NEW x, x = Installed(mem[h], saved, TRUE)
      PROVE  /\ x.first = saved.first /\ x.done = saved.done
             /\ Range(x.queue) = Range(saved.queue) /\ Len(x.queue) = Len(saved.queue)
  <2> DEFINE q == Undone(saved.queue, saved.done)
  <2>1. x.first = saved.first /\ x.done = saved.done /\ x.queue = q
    BY <1>2 DEF Installed
  <2>2. /\ saved.done \cap Range(saved.queue) = {}
        /\ saved.queue \in Seq(Packets) /\ Once(saved.queue)
    BY <1>1 DEF Shaped
  <2>3. q \in Seq(Packets) /\ Once(q) /\ Range(q) = Range(saved.queue)
    BY <1>1, <2>2, UndoneDisjoint
  <2> HIDE DEF q
  <2>4. Len(q) = Len(saved.queue)
    BY <2>2, <2>3, LengthCounts
  <2> QED
    BY <2>1, <2>3, <2>4
<1>3. ASSUME NEW x, x = Installed(mem[h], saved, TRUE)
      PROVE  /\ GrownTo(saved.skip, x.skip)
             /\ GrownTo(mem[h].skip, saved.skip) => GrownTo(x.skip, saved.skip)
  BY <1>1, <1>3, InstalledBook
<1>4. mem'[h] = Installed(mem[h], saved, TRUE)
  BY DEF Reloads
<1> QED
  BY <1>2, <1>3, <1>4

LEMMA SavedKept ==
  ASSUME Ready, SavedInv, Stays \/ Ages \/ \E h \in Procs : Moves(h)
  PROVE  SavedInv'
<1> SUFFICES ASSUME NEW g \in Procs, owner' = g, NEW k \in saved'.done
             PROVE  Over(mem'[g], clock', k) /\ (k \in writes'[g] => k \in answers')
  BY DEF SavedInv
<1>0. g # None /\ clock \in Nat
  BY PairsAssumption DEF Ready, PerProc
<1>1. ASSUME owner = g, saved' = saved, clock' = clock, answers' = answers,
             mem'[g] = mem[g], writes'[g] = writes[g]
      PROVE  Over(mem'[g], clock', k) /\ (k \in writes'[g] => k \in answers')
  BY <1>1 DEF SavedInv
<1>2. CASE Stays
  BY <1>1, <1>2 DEF Stays
<1>3. CASE Ages
  <2>1. /\ owner = g /\ saved' = saved /\ clock' \in Nat /\ clock <= clock' /\ answers' = answers
        /\ mem'[g] = mem[g] /\ writes'[g] = writes[g]
    BY <1>0, <1>3 DEF Ages
  <2>2. k \in Packets /\ Over(mem[g], clock, k) /\ (k \in writes[g] => k \in answers)
    BY <2>1 DEF SavedInv, Ready, BooksInv, Shaped
  <2> QED
    BY <1>0, <2>1, <2>2, OverAges
<1>4. ASSUME NEW h \in Procs, Working(h)
      PROVE  Over(mem'[g], clock', k) /\ (k \in writes'[g] => k \in answers')
  <2>1. PICK new, ended, told : Works(h, new, ended, told)
    BY <1>4 DEF Working
  <2>2. owner = g /\ saved' = saved /\ clock' = clock /\ answers' = answers
    BY <2>1 DEF Works
  <2>3. CASE h # g
    BY <1>1, <2>1, <2>2, <2>3 DEF Works, Alone
  <2>4. CASE h = g
    <3>1. Shaped(mem[h]) /\ MovedOn(mem[h], mem'[h], clock, new, ended, told)
      BY <2>1, BookOf DEF Works
    <3>2. Over(mem[h], clock, k) /\ (k \in writes[h] => k \in answers)
      BY <2>2, <2>4 DEF SavedInv
    <3>3. Over(mem'[h], clock, k) /\ k \notin ended
      BY <3>1, <3>2, OverStays, EndedIsOver
    <3>4. k \in writes'[h] => k \in writes[h]
      BY <2>1, <3>1, <3>3 DEF Works, MovedOn
    <3> QED
      BY <2>2, <2>4, <3>2, <3>3, <3>4
  <2> QED
    BY <2>3, <2>4
<1>5. ASSUME NEW h \in Procs, Leaves(h)
      PROVE  Over(mem'[g], clock', k) /\ (k \in writes'[g] => k \in answers')
  <2>1. h # g /\ owner = g
    BY <1>0, <1>5 DEF Leaves
  <2> QED
    BY <1>1, <1>5, <2>1 DEF Leaves, Alone
<1>6. ASSUME NEW h \in Procs, Saves(h)
      PROVE  Over(mem'[g], clock', k) /\ (k \in writes'[g] => k \in answers')
  <2>1. /\ h = g /\ clock' = clock /\ mem'[g] = mem[g] /\ writes'[g] = writes[g]
        /\ answers' = answers \cup writes[g]
    BY <1>6 DEF Saves, Flushes
  <2>2. PICK shed \in BOOLEAN : saved' = Snapshot(mem[h], clock, shed)
    BY <1>6 DEF Saves, Flushes
  <2>3. k \in mem[g].done
    BY <1>0, <2>1, <2>2, BookOf, SnapshotBook
  <2> QED
    BY <2>1, <2>3 DEF Over
<1>7. ASSUME NEW h \in Procs, Warms(h)
      PROVE  Over(mem'[g], clock', k) /\ (k \in writes'[g] => k \in answers')
  <2>1. h # g /\ owner = g
    BY <1>7, OwnersRun DEF Warms
  <2> QED
    BY <1>1, <1>7, <2>1 DEF Warms, Alone
<1>8. ASSUME NEW h \in Procs, Reloads(h)
      PROVE  Over(mem'[g], clock', k) /\ (k \in writes'[g] => k \in answers')
  <2>1. h = g /\ saved' = saved /\ mem'[h] = Installed(mem[h], saved, TRUE)
    BY <1>8 DEF Reloads
  <2>2. writes'[h] = {}
    <3>1. writes[h] = {}
      BY <1>8, PlaceOf DEF Reloads, PlaceOK, Running
    <3> QED
      BY <1>8, <3>1 DEF Reloads
  <2>3. mem'[h].done = saved.done
    BY <1>8, ReloadedBook
  <2> QED
    BY <2>1, <2>2, <2>3 DEF Over
<1>9. ~\E h \in Procs : Releases(h) \/ Lapses(h)
  BY <1>0 DEF Releases, Lapses
<1> QED
  BY <1>2, <1>3, <1>4, <1>5, <1>6, <1>7, <1>8, <1>9 DEF Moves

(* What a flush stores is over in the saved book.                             *)
LEMMA FlushedOver ==
  ASSUME Ready, AnswersInv, NEW h \in Procs, Flushes(h)
  PROVE  /\ answers' \subseteq Packets
         /\ sheds' = 0 => \A k \in answers' : Over(mem[h], clock, k) /\ Over(saved', clock, k)
<1>1. PICK shed \in BOOLEAN : /\ saved' = Snapshot(mem[h], clock, shed)
                              /\ sheds' = sheds + (IF shed THEN 1 ELSE 0)
  BY DEF Flushes
<1>2. /\ owner = h /\ answers' = answers \cup writes[h] /\ sheds \in Nat /\ clock \in Nat
      /\ \A k \in writes[h] : k \in Packets /\ Over(mem[h], clock, k)
  BY PlaceOf DEF Flushes, Ready, PerProc, PlaceOK
<1>3. answers' \subseteq Packets
  BY <1>2 DEF AnswersInv
<1>4. ASSUME sheds' = 0, NEW k \in answers' PROVE Over(mem[h], clock, k) /\ Over(saved', clock, k)
  <2>1. sheds = 0 /\ ~shed
    BY <1>1, <1>2, <1>4
  <2>2. Over(mem[h], clock, k)
    BY <1>2, <1>4, <2>1 DEF AnswersInv
  <2>3. Shaped(mem[h]) /\ Dated(mem[h], clock)
    BY BookOf
  <2>4. /\ Range(saved'.queue) = Range(mem[h].queue)
        /\ \A j \in mem[h].done : j \in saved'.done \/ Expired(j[2], clock)
    BY <1>1, <1>2, <2>1, <2>3, SnapshotBook
  <2>5. k \notin Range(mem[h].queue)
    BY <2>2, <2>3, QueuedIsOpen
  <2> QED
    BY <2>2, <2>4, <2>5 DEF Over
<1> QED
  BY <1>3, <1>4

LEMMA AnswersKept ==
  ASSUME Ready, AnswersInv, Stays \/ Ages \/ \E h \in Procs : Moves(h)
  PROVE  AnswersInv'
<1> DEFINE Goal(k) == /\ Over(saved', clock', k)
                      /\ \A g \in Procs : owner' = g => Over(mem'[g], clock', k)
<1>0. clock \in Nat /\ None \notin Procs
  BY PairsAssumption DEF Ready, PerProc
<1>1. CASE Stays
  BY <1>1 DEF Stays, AnswersInv
<1>2. CASE Ages
  <2>1. /\ UNCHANGED <<owner, stored, mem, sheds>> /\ clock' \in Nat /\ clock <= clock'
    BY <1>0, <1>2 DEF Ages
  <2>2. ASSUME sheds = 0, NEW k \in answers PROVE Goal(k)
    <3>1. k \in Packets /\ Over(saved, clock, k) /\ \A g \in Procs : owner = g => Over(mem[g], clock, k)
      BY <2>2 DEF AnswersInv
    <3>2. Over(saved, clock', k) /\ \A g \in Procs : owner = g => Over(mem[g], clock', k)
      BY <1>0, <2>1, <3>1, OverAges
    <3> QED
      BY <2>1, <3>2
  <2> QED
    BY <2>1, <2>2 DEF AnswersInv
<1>3. ASSUME NEW h \in Procs, Working(h) PROVE AnswersInv'
  <2>1. PICK new, ended, told : Works(h, new, ended, told)
    BY <1>3 DEF Working
  <2>2. UNCHANGED <<owner, stored, clock, sheds>>
    BY <2>1 DEF Works
  <2>3. ASSUME sheds = 0, NEW k \in answers PROVE Goal(k)
    <3>1. Over(saved, clock, k) /\ \A g \in Procs : owner = g => Over(mem[g], clock, k)
      BY <2>3 DEF AnswersInv
    <3>2. ASSUME NEW g \in Procs, owner = g PROVE Over(mem'[g], clock, k)
      <4>1. CASE g = h
        <5>1. Shaped(mem[h]) /\ MovedOn(mem[h], mem'[h], clock, new, ended, told)
          BY <2>1, BookOf DEF Works
        <5> QED
          BY <3>1, <3>2, <4>1, <5>1, OverStays
      <4>2. CASE g # h
        BY <2>1, <3>1, <3>2, <4>2 DEF Works, Alone
      <4> QED
        BY <4>1, <4>2
    <3> QED
      BY <2>2, <3>1, <3>2
  <2> QED
    BY <2>2, <2>3 DEF AnswersInv
<1>4. ASSUME NEW h \in Procs, Leaves(h) \/ Warms(h) PROVE AnswersInv'
  <2>1. UNCHANGED <<stored, clock, sheds>> /\ \A g \in Procs : owner' = g => owner = g /\ g # h
    BY <1>0, <1>4, OwnersRun DEF Leaves, Warms
  <2>2. \A g \in Procs : g # h => mem'[g] = mem[g]
    BY <1>4 DEF Leaves, Warms, Alone
  <2> QED
    BY <2>1, <2>2 DEF AnswersInv
<1>5. ASSUME NEW h \in Procs, Saves(h) \/ Releases(h) PROVE AnswersInv'
  <2>1. /\ answers' \subseteq Packets
        /\ sheds' = 0 => \A k \in answers' : Over(mem[h], clock, k) /\ Over(saved', clock, k)
    BY <1>5, FlushedOver DEF Saves, Releases
  <2>2. clock' = clock /\ (\A g \in Procs : owner' = g => g = h /\ mem'[g] = mem[g])
    BY <1>0, <1>5 DEF Saves, Releases, Flushes
  <2> QED
    BY <2>1, <2>2 DEF AnswersInv
<1>6. ASSUME NEW h \in Procs, Reloads(h) PROVE AnswersInv'
  <2>1. UNCHANGED <<stored, clock, sheds>> /\ owner' = h /\ mem'[h] = Installed(mem[h], saved, TRUE)
    BY <1>6 DEF Reloads
  <2>2. mem'[h].done = saved.done /\ Range(mem'[h].queue) = Range(saved.queue)
    BY <1>6, ReloadedBook
  <2>3. ASSUME NEW k, Over(saved, clock, k) PROVE Over(mem'[h], clock, k)
    BY <2>2, <2>3 DEF Over
  <2> QED
    BY <2>1, <2>3 DEF AnswersInv
<1>7. ASSUME NEW h \in Procs, Lapses(h) PROVE AnswersInv'
  <2>1. UNCHANGED <<stored, clock, sheds>> /\ owner' = None
    BY <1>7 DEF Lapses
  <2> QED
    BY <1>0, <2>1 DEF AnswersInv
<1> QED
  BY <1>1, <1>2, <1>3, <1>4, <1>5, <1>6, <1>7 DEF Moves

-----------------------------------------------------------------------------
(* The ledger of the saved book and of the owner's: what is counted and what  *)
(* is queued never pass what was scheduled, and while the done keys were kept  *)
(* they are the same.  The owner has counted on from the saved ledger; one     *)
(* that does not run yet has counted nothing that is not saved.              *)

Balanced(m, lost) ==
    /\ Known(m) <= m.skip.scheduled
    /\ lost = 0 => Known(m) = m.skip.scheduled

LedgerInv ==
    /\ Balanced(saved, sheds)
    /\ \A h \in Procs : owner = h => Balanced(mem[h], sheds) /\ GrownTo(saved.skip, mem[h].skip)
    /\ \A h \in Procs : ~Running(h) => GrownTo(mem[h].skip, saved.skip)

LEMMA GrownToMore ==
  ASSUME NEW a, Shaped(a), NEW b, Shaped(b), NEW c, Shaped(c),
         GrownTo(a.skip, b.skip), GrownTo(b.skip, c.skip)
  PROVE  GrownTo(a.skip, c.skip)
<1>1. ASSUME NEW x \in Bars PROVE a.skip.onTime[x] <= c.skip.onTime[x]
  <2>1. a.skip.onTime[x] \in Nat /\ b.skip.onTime[x] \in Nat /\ c.skip.onTime[x] \in Nat
    BY DEF Shaped
  <2>2. a.skip.onTime[x] <= b.skip.onTime[x] /\ b.skip.onTime[x] <= c.skip.onTime[x]
    BY DEF GrownTo
  <2> QED
    BY <2>1, <2>2
<1> QED
  BY <1>1 DEF GrownTo, Shaped

LEMMA KnownIsNat ==
  ASSUME NEW m, Shaped(m)
  PROVE  Known(m) \in Nat /\ m.skip.scheduled \in Nat
<1>1. Len(m.queue) \in Nat
  BY DEF Shaped
<1> QED
  BY <1>1 DEF Known, Shaped

LEMMA WorkingBalance ==
  ASSUME Ready, AnswersInv, LedgerInv, NEW h \in Procs, owner = h,
         NEW new, NEW ended, NEW told, Works(h, new, ended, told)
  PROVE  Balanced(mem'[h], sheds')
<1> DEFINE m == mem[h]
           x == mem'[h]
           ce == Cardinality(ended)
           ct == Cardinality(told)
<1>1. Shaped(m) /\ MovedOn(m, x, clock, new, ended, told)
  BY BookOf DEF Works
<1>2. sheds' = sheds /\ Balanced(m, sheds)
  BY DEF Works, LedgerInv
<1>3. sheds = 0 => told = ended
  <2> SUFFICES ASSUME sheds = 0, told # ended PROVE FALSE
    OBVIOUS
  <2>1. found[h] /\ pc[h] = "answer" /\ ended = {row[h]}
    BY DEF Works
  <2>2. row[h] \in Range(mem[h].queue) /\ row[h] \in answers
    BY <2>1, PlaceOf DEF PlaceOK
  <2>3. Over(mem[h], clock, row[h])
    BY <2>2 DEF AnswersInv
  <2> QED
    BY <1>1, <2>2, <2>3, QueuedIsOpen
<1>4. /\ IsFiniteSet(ended) /\ IsFiniteSet(told) /\ ct <= ce
      /\ Known(m) \in Nat /\ Known(x) \in Nat
      /\ x.skip.scheduled - Known(x) = m.skip.scheduled - Known(m) + (ce - ct)
  BY <1>1, LedgerMoves
<1>5. ce \in Nat /\ ct \in Nat
  BY <1>4, FS_CardinalityType
<1>6. m.skip.scheduled \in Nat /\ x.skip.scheduled \in Nat
  BY <1>1 DEF MovedOn, Shaped
<1>7. sheds = 0 => ct = ce
  BY <1>3
<1>8. Known(m) <= m.skip.scheduled /\ (sheds = 0 => Known(m) = m.skip.scheduled)
  BY <1>2 DEF Balanced
<1> DEFINE km == Known(m)
           kx == Known(x)
           sm == m.skip.scheduled
           sx == x.skip.scheduled
<1> HIDE DEF m, x, ce, ct, km, kx, sm, sx
<1>9. /\ ct <= ce /\ km \in Nat /\ kx \in Nat /\ sx - kx = sm - km + (ce - ct)
       /\ sm \in Nat /\ sx \in Nat /\ km <= sm /\ (sheds = 0 => km = sm)
  BY <1>4, <1>6, <1>8 DEF km, kx, sm, sx
<1>10. kx <= sx /\ (sheds = 0 => kx = sx)
  BY <1>5, <1>7, <1>9
<1>11. Known(x) <= x.skip.scheduled /\ (sheds = 0 => Known(x) = x.skip.scheduled)
  BY <1>10 DEF kx, sx
<1> QED
  BY <1>2, <1>11 DEF Balanced, x

LEMMA LedgerKept ==
  ASSUME Ready, AnswersInv, LedgerInv, Stays \/ Ages \/ \E h \in Procs : Moves(h)
  PROVE  LedgerInv'
<1> DEFINE Owners == \A g \in Procs : owner' = g => Balanced(mem'[g], sheds') /\ GrownTo(saved'.skip, mem'[g].skip)
           Resting == \A g \in Procs : pc'[g] \in {"off", "standby"} => GrownTo(mem'[g].skip, saved'.skip)
<1>0. SUFFICES Balanced(saved', sheds') /\ Owners /\ Resting
  BY DEF LedgerInv, Running
<1>1. /\ None \notin Procs /\ sheds \in Nat
      /\ Balanced(saved, sheds) /\ Shaped(saved) /\ \A g \in Procs : Shaped(mem[g])
      /\ \A g \in Procs : owner = g => Balanced(mem[g], sheds) /\ GrownTo(saved.skip, mem[g].skip)
      /\ \A g \in Procs : pc[g] \in {"off", "standby"} => GrownTo(mem[g].skip, saved.skip)
  BY PairsAssumption DEF Ready, PerProc, BooksInv, LedgerInv, Running
<1>2. CASE Stays \/ Ages
  BY <1>1, <1>2 DEF Stays, Ages
<1>3. ASSUME NEW h \in Procs, Working(h) PROVE Balanced(saved', sheds') /\ Owners /\ Resting
  <2>1. PICK new, ended, told : Works(h, new, ended, told)
    BY <1>3 DEF Working
  <2>2. /\ owner' = owner /\ saved' = saved /\ sheds' = sheds /\ pc'[h] \notin {"off", "standby"}
        /\ \A g \in Procs \ {h} : mem'[g] = mem[g] /\ pc'[g] = pc[g]
    BY <2>1 DEF Works, Alone, Running
  <2>3. ASSUME owner = h PROVE Balanced(mem'[h], sheds') /\ GrownTo(saved.skip, mem'[h].skip)
    <3>1. Balanced(mem'[h], sheds')
      BY <2>1, <2>3, WorkingBalance
    <3>2. Shaped(mem'[h]) /\ GrownTo(mem[h].skip, mem'[h].skip)
      BY <2>1 DEF Works, MovedOn
    <3>3. GrownTo(saved.skip, mem'[h].skip)
      BY <1>1, <2>3, <3>2, GrownToMore
    <3> QED
      BY <3>1, <3>3
  <2>4. Owners
    BY <1>1, <2>2, <2>3
  <2>5. Resting
    BY <1>1, <2>2
  <2> QED
    BY <1>1, <2>2, <2>4, <2>5
<1>4. ASSUME NEW h \in Procs, mem'[h] = Fresh, NEW s, Shaped(s) PROVE GrownTo(mem'[h].skip, s.skip)
  <2>1. Fresh.skip = FreshSkip
    BY FreshBook
  <2> QED
    BY <1>4, <2>1 DEF FreshSkip, GrownTo, Shaped
<1>5. ASSUME NEW h \in Procs, Leaves(h) PROVE Balanced(saved', sheds') /\ Owners /\ Resting
  <2>1. /\ owner' = (IF owner = h THEN None ELSE owner) /\ saved' = saved /\ sheds' = sheds
        /\ mem'[h] = Fresh /\ \A g \in Procs \ {h} : mem'[g] = mem[g] /\ pc'[g] = pc[g]
    BY <1>5 DEF Leaves, Alone
  <2>2. GrownTo(mem'[h].skip, saved.skip)
    BY <1>1, <1>4, <2>1
  <2>3. Owners
    BY <1>1, <2>1
  <2>4. Resting
    BY <1>1, <2>1, <2>2
  <2> QED
    BY <1>1, <2>1, <2>3, <2>4
<1>6. ASSUME NEW h \in Procs, Flushes(h)
      PROVE  /\ Balanced(saved', sheds') /\ saved'.skip = mem[h].skip /\ Shaped(saved')
             /\ Balanced(mem[h], sheds')
  <2>1. owner = h /\ Shaped(mem[h]) /\ Dated(mem[h], clock) /\ clock \in Nat
    BY <1>6, BookOf, PlaceOf DEF Flushes
  <2>2. PICK shed \in BOOLEAN : /\ saved' = Snapshot(mem[h], clock, shed)
                                 /\ sheds' = sheds + (IF shed THEN 1 ELSE 0)
    BY <1>6 DEF Flushes
  <2>3. Shaped(saved') /\ saved'.skip = mem[h].skip /\ Len(saved'.queue) = Len(mem[h].queue)
    BY <2>1, <2>2, SnapshotBook
  <2>4. sheds' = 0 => sheds = 0
    BY <1>1, <2>2
  <2>5. Known(saved') = Known(mem[h])
    BY <2>3 DEF Known
  <2> QED
    BY <1>1, <2>1, <2>3, <2>4, <2>5 DEF Balanced
<1>7. ASSUME NEW h \in Procs, Flushes(h), NEW g \in Procs \ {h}, pc[g] \in {"off", "standby"}
      PROVE  GrownTo(mem[g].skip, saved'.skip)
  <2>1. GrownTo(mem[g].skip, saved.skip) /\ GrownTo(saved.skip, mem[h].skip)
    BY <1>1, <1>7 DEF Flushes
  <2>2. GrownTo(mem[g].skip, mem[h].skip)
    BY <1>1, <2>1, GrownToMore
  <2> QED
    BY <1>6, <1>7, <2>2
<1>8. ASSUME NEW h \in Procs, Saves(h) PROVE Balanced(saved', sheds') /\ Owners /\ Resting
  <2>1. /\ owner' = h /\ mem'[h] = mem[h] /\ pc'[h] = "saving" /\ Flushes(h)
        /\ \A g \in Procs \ {h} : mem'[g] = mem[g] /\ pc'[g] = pc[g]
    BY <1>8 DEF Saves, Alone, Flushes
  <2>2. GrownTo(saved'.skip, mem[h].skip)
    BY <1>1, <1>6, <2>1, GrownToItself
  <2>3. Balanced(saved', sheds') /\ Balanced(mem[h], sheds')
    BY <1>6, <2>1
  <2>4. Owners
    BY <2>1, <2>2, <2>3
  <2>5. Resting
    BY <1>7, <2>1
  <2> QED
    BY <2>3, <2>4, <2>5
<1>9. ASSUME NEW h \in Procs, Releases(h) PROVE Balanced(saved', sheds') /\ Owners /\ Resting
  <2>1. /\ owner' = None /\ mem'[h] = Fresh /\ Flushes(h)
        /\ \A g \in Procs \ {h} : mem'[g] = mem[g] /\ pc'[g] = pc[g]
    BY <1>9 DEF Releases, Alone
  <2>2. Balanced(saved', sheds') /\ Shaped(saved')
    BY <1>6, <2>1
  <2>3. GrownTo(mem'[h].skip, saved'.skip)
    BY <1>4, <2>1, <2>2
  <2>4. Resting
    BY <1>7, <2>1, <2>3
  <2> QED
    BY <1>1, <2>1, <2>2, <2>4
<1>10. ASSUME NEW h \in Procs, Warms(h) PROVE Balanced(saved', sheds') /\ Owners /\ Resting
  <2>1. /\ owner' = owner /\ saved' = saved /\ sheds' = sheds /\ owner # h
        /\ mem'[h] = Installed(Fresh, saved, FALSE)
        /\ \A g \in Procs \ {h} : mem'[g] = mem[g] /\ pc'[g] = pc[g]
    BY <1>10, OwnersRun DEF Warms, Alone
  <2>2. Shaped(Fresh) /\ Dated(Fresh, clock) /\ Dated(saved, clock) /\ clock \in Nat
    BY FreshBook DEF Ready, PerProc, BooksInv
  <2>3. GrownTo(Fresh.skip, saved.skip)
    <3>1. Fresh.skip = FreshSkip
      BY FreshBook
    <3> QED
      BY <1>1, <3>1 DEF FreshSkip, GrownTo, Shaped
  <2>4. GrownTo(Installed(Fresh, saved, FALSE).skip, saved.skip)
    BY <1>1, <2>2, <2>3, InstalledBook
  <2>5. GrownTo(mem'[h].skip, saved.skip)
    BY <2>1, <2>4
  <2>6. Owners
    BY <1>1, <2>1
  <2>7. Resting
    BY <1>1, <2>1, <2>5
  <2> QED
    BY <1>1, <2>1, <2>6, <2>7
<1>11. ASSUME NEW h \in Procs, Reloads(h) PROVE Balanced(saved', sheds') /\ Owners /\ Resting
  <2>1. /\ owner' = h /\ saved' = saved /\ sheds' = sheds /\ pc[h] = "standby" /\ pc'[h] = "idle"
        /\ \A g \in Procs \ {h} : mem'[g] = mem[g] /\ pc'[g] = pc[g]
    BY <1>11 DEF Reloads, Alone
  <2>2. GrownTo(mem[h].skip, saved.skip)
    BY <1>1, <2>1
  <2>3. /\ GrownTo(saved.skip, mem'[h].skip) /\ GrownTo(mem'[h].skip, saved.skip)
        /\ Len(mem'[h].queue) = Len(saved.queue)
    BY <1>11, <2>2, ReloadedBook
  <2>4. Shaped(mem'[h])
    BY <1>11, BooksKept DEF BooksInv, Moves
  <2>5. /\ mem'[h].skip.scheduled = saved.skip.scheduled
        /\ mem'[h].skip.answered = saved.skip.answered
        /\ mem'[h].skip.skipped = saved.skip.skipped
    BY <1>1, <2>3, <2>4 DEF GrownTo, Shaped
  <2>6. Balanced(mem'[h], sheds')
    BY <1>1, <2>1, <2>3, <2>5 DEF Balanced, Known
  <2>7. Owners
    BY <2>1, <2>3, <2>6
  <2>8. Resting
    BY <1>1, <2>1
  <2> QED
    BY <1>1, <2>1, <2>7, <2>8
<1>12. ASSUME NEW h \in Procs, Lapses(h) PROVE Balanced(saved', sheds') /\ Owners /\ Resting
  BY <1>1, <1>12 DEF Lapses
<1> QED
  BY <1>2, <1>3, <1>5, <1>8, <1>9, <1>10, <1>11, <1>12 DEF Moves

-----------------------------------------------------------------------------
(* While the stamps were kept, a bar that the saved book or the owner's has    *)
(* counted on time has its stamp there until its window is over.             *)

OnTimeInv ==
    sheds = 0 => /\ Noted(saved, clock)
                 /\ \A h \in Procs : owner = h => Noted(mem[h], clock)

LEMMA OnTimeKept ==
  ASSUME Ready, LedgerInv, OnTimeInv, Stays \/ Ages \/ \E h \in Procs : Moves(h)
  PROVE  OnTimeInv'
<1> DEFINE Goal == Noted(saved', clock') /\ \A g \in Procs : owner' = g => Noted(mem'[g], clock')
<1>0. /\ clock \in Nat /\ sheds \in Nat /\ None \notin Procs
      /\ sheds = 0 => Noted(saved, clock) /\ \A g \in Procs : owner = g => Noted(mem[g], clock)
  BY PairsAssumption DEF Ready, PerProc, OnTimeInv
<1> SUFFICES ASSUME sheds' = 0 PROVE Goal
  BY DEF OnTimeInv
<1>1. CASE Stays
  BY <1>0, <1>1 DEF Stays
<1>2. CASE Ages
  <2>1. /\ owner' = owner /\ saved' = saved /\ mem' = mem /\ sheds = 0
        /\ clock' \in Nat /\ clock <= clock'
    BY <1>0, <1>2 DEF Ages
  <2>2. Noted(saved, clock') /\ \A g \in Procs : owner = g => Noted(mem[g], clock')
    BY <1>0, <2>1, NotedAges
  <2> QED
    BY <2>1, <2>2
<1>3. ASSUME NEW h \in Procs, Working(h) PROVE Goal
  <2>1. PICK new, ended, told : Works(h, new, ended, told)
    BY <1>3 DEF Working
  <2>2. /\ owner' = owner /\ saved' = saved /\ sheds = 0 /\ clock' = clock
        /\ \A g \in Procs \ {h} : mem'[g] = mem[g]
    BY <2>1 DEF Works, Alone
  <2>3. ASSUME owner = h PROVE Noted(mem'[h], clock)
    <3>1. Shaped(mem[h]) /\ MovedOn(mem[h], mem'[h], clock, new, ended, told)
      BY <2>1, BookOf DEF Works
    <3>2. Noted(mem[h], clock)
      BY <1>0, <2>2, <2>3
    <3> QED
      BY <1>0, <3>1, <3>2, NotedStays
  <2> QED
    BY <1>0, <2>2, <2>3
<1>4. ASSUME NEW h \in Procs, Leaves(h) \/ Warms(h) \/ Lapses(h) PROVE Goal
  <2>1. /\ saved' = saved /\ sheds = 0 /\ clock' = clock
        /\ \A g \in Procs : owner' = g => owner = g /\ mem'[g] = mem[g]
    BY <1>0, <1>4, OwnersRun DEF Leaves, Warms, Lapses, Alone
  <2> QED
    BY <1>0, <2>1
<1>5. ASSUME NEW h \in Procs, Saves(h) \/ Releases(h) PROVE Goal
  <2>1. /\ clock' = clock /\ owner = h
        /\ \A g \in Procs : owner' = g => owner = g /\ mem'[g] = mem[g]
    BY <1>0, <1>5 DEF Saves, Releases, Flushes, Alone
  <2>2. PICK shed \in BOOLEAN : /\ saved' = Snapshot(mem[h], clock, shed)
                                 /\ sheds' = sheds + (IF shed THEN 1 ELSE 0)
    BY <1>5 DEF Saves, Releases, Flushes
  <2>3. sheds = 0 /\ ~shed
    BY <1>0, <2>2
  <2>4. saved'.first = mem[h].first /\ saved'.skip = mem[h].skip
    <3>1. DOMAIN mem[h] = Fields
      BY BookOf
    <3> QED
      BY <2>2, <2>3, <3>1 DEF Snapshot, Fields
  <2>5. Noted(mem[h], clock)
    BY <1>0, <2>1, <2>3
  <2>6. Noted(saved', clock)
    BY <2>4, <2>5 DEF Noted
  <2> QED
    BY <1>0, <2>1, <2>3, <2>6
<1>6. ASSUME NEW h \in Procs, Reloads(h) PROVE Goal
  <2>1. /\ saved' = saved /\ sheds = 0 /\ clock' = clock /\ owner' = h /\ pc[h] = "standby"
    BY <1>6 DEF Reloads
  <2>2. GrownTo(mem[h].skip, saved.skip)
    BY <2>1 DEF LedgerInv, Running
  <2>3. /\ GrownTo(saved.skip, mem'[h].skip) /\ GrownTo(mem'[h].skip, saved.skip)
        /\ mem'[h].first = saved.first
    BY <1>6, <2>2, ReloadedBook
  <2>4. Shaped(mem'[h]) /\ Shaped(saved)
    BY <1>6, BooksKept DEF BooksInv, Moves, Ready
  <2>5. ASSUME NEW b \in Bars PROVE mem'[h].skip.onTime[b] = saved.skip.onTime[b]
    <3>1. mem'[h].skip.onTime[b] \in Nat /\ saved.skip.onTime[b] \in Nat
      BY <2>4 DEF Shaped
    <3> QED
      BY <2>3, <3>1 DEF GrownTo
  <2>6. Noted(saved, clock)
    BY <1>0, <2>1
  <2>7. Noted(mem'[h], clock)
    BY <2>3, <2>5, <2>6 DEF Noted
  <2> QED
    BY <2>1, <2>6, <2>7
<1> QED
  BY <1>1, <1>2, <1>3, <1>4, <1>5, <1>6 DEF Moves

-----------------------------------------------------------------------------
(* The calls a packet may still get.  The owner may call it unless it is        *)
(* closed: answered, among the outcomes that go with the next save, or being    *)
(* called.  A stray, one that runs on after it lost the lease, may call it once *)
(* unless it is over for the stray.  A loss pays for each stray and for each    *)
(* outcome that is lost.                                                     *)

ClosedBy(h, k) ==
    \/ pc[h] # "saving" /\ k \in writes[h]
    \/ pc[h] = "calling" /\ row[h] = k

Closed(k) == k \in answers \/ \E h \in Procs : owner = h /\ ClosedBy(h, k)

Spent(h, k) == (pc[h] = "calling" /\ row[h] = k) \/ Over(mem[h], clock, k)

Strays(k) == {h \in Procs : Running(h) /\ owner # h /\ ~Spent(h, k)}

Open(closed) == IF closed THEN 0 ELSE 1

RepeatsInv ==
    \A k \in Packets : calls[k] + Cardinality(Strays(k)) + Open(Closed(k)) <= 1 + losses

LEMMA BudgetSteps ==
  ASSUME NEW S, IsFiniteSet(S), NEW T, NEW c \in BOOLEAN, NEW d \in BOOLEAN,
         NEW n \in Int, NEW u \in Int, NEW l \in Nat, NEW v \in Nat,
         n + Cardinality(S) + Open(c) <= 1 + l,
         \/ T \subseteq S /\ u <= n /\ (c => d) /\ l <= v
         \/ T \subseteq S /\ u <= n + 1 /\ ~c /\ d /\ l <= v
         \/ (\E h \in S : T \subseteq S \ {h}) /\ u <= n + 1 /\ (c => d) /\ l <= v
         \/ T \subseteq S /\ u <= n /\ l + 1 <= v
         \/ (\E h : T \subseteq S \cup {h}) /\ u <= n /\ (c => d) /\ l + 1 <= v
  PROVE  u + Cardinality(T) + Open(d) <= 1 + v
<1> DEFINE cs == Cardinality(S)
           ct == Cardinality(T)
<1>1. T \subseteq S => ct \in Nat /\ ct <= cs
  <2>1. T \subseteq S => IsFiniteSet(T) /\ ct <= cs
    BY FS_Subset
  <2> QED
    BY <2>1, FS_CardinalityType
<1>2. ASSUME NEW h \in S, T \subseteq S \ {h} PROVE ct \in Nat /\ ct <= cs - 1
  <2>1. IsFiniteSet(S \ {h}) /\ Cardinality(S \ {h}) = cs - 1
    BY FS_RemoveElement
  <2>2. IsFiniteSet(T) /\ Cardinality(T) <= Cardinality(S \ {h})
    BY <1>2, <2>1, FS_Subset
  <2> QED
    BY <2>1, <2>2, FS_CardinalityType
<1>3. ASSUME NEW h, T \subseteq S \cup {h} PROVE ct \in Nat /\ ct <= cs + 1
  <2> DEFINE one == S \cup {h}
  <2>1. IsFiniteSet(one) /\ Cardinality(one) \in {cs, cs + 1}
    <3>1. /\ IsFiniteSet(S \cup {h})
          /\ Cardinality(S \cup {h}) = IF h \in S THEN Cardinality(S) ELSE Cardinality(S) + 1
      BY FS_AddElement
    <3> QED
      BY <3>1
  <2>2. cs \in Nat
    BY FS_CardinalityType
  <2> HIDE DEF one
  <2>3. IsFiniteSet(T) /\ ct <= Cardinality(one)
    BY <1>3, <2>1, FS_Subset DEF one
  <2>4. ct \in Nat
    BY <2>3, FS_CardinalityType
  <2> HIDE DEF cs, ct
  <2> QED
    BY <2>1, <2>2, <2>3, <2>4
<1>4. cs \in Nat
  BY FS_CardinalityType
<1>5. n + cs + Open(c) <= 1 + l
  OBVIOUS
<1>6. Open(c) \in {0, 1} /\ Open(d) \in {0, 1} /\ (c <=> Open(c) = 0) /\ (d <=> Open(d) = 0)
  BY DEF Open
<1> DEFINE oc == Open(c)
           od == Open(d)
<1> HIDE DEF cs, ct, oc, od
<1>7. /\ n + cs + oc <= 1 + l
      /\ oc \in {0, 1} /\ od \in {0, 1} /\ (c <=> oc = 0) /\ (d <=> od = 0)
  BY <1>5, <1>6 DEF oc, od
<1>8. CASE T \subseteq S /\ u <= n /\ (c => d) /\ l <= v
  BY <1>1, <1>4, <1>7, <1>8 DEF ct, od
<1>9. CASE T \subseteq S /\ u <= n + 1 /\ ~c /\ d /\ l <= v
  <2>1. oc = 1 /\ od = 0 /\ ct \in Nat /\ ct <= cs /\ u <= n + 1 /\ l <= v
    BY <1>1, <1>7, <1>9
  <2>2. u + ct + od <= 1 + v
    BY <1>4, <1>7, <2>1
  <2> QED
    BY <2>2 DEF ct, od
<1>10. CASE (\E h \in S : T \subseteq S \ {h}) /\ u <= n + 1 /\ (c => d) /\ l <= v
  <2>1. ct \in Nat /\ ct <= cs - 1
    BY <1>2, <1>10
  <2> QED
    BY <1>4, <1>7, <1>10, <2>1 DEF ct, od
<1>11. CASE T \subseteq S /\ u <= n /\ l + 1 <= v
  BY <1>1, <1>4, <1>7, <1>11 DEF ct, od
<1>12. CASE (\E h : T \subseteq S \cup {h}) /\ u <= n /\ (c => d) /\ l + 1 <= v
  <2>1. ct \in Nat /\ ct <= cs + 1
    BY <1>3, <1>12
  <2> QED
    BY <1>4, <1>7, <1>12, <2>1 DEF ct, od
<1> QED
  BY <1>8, <1>9, <1>10, <1>11, <1>12

(* Only processes that run are strays.                                       *)
LEMMA StraysAreFew ==
  ASSUME Ready, NEW k
  PROVE  IsFiniteSet(Strays(k)) /\ Cardinality(Strays(k)) \in Nat
<1> DEFINE S == Strays(k)
           R == {h \in Procs : Running(h)}
<1>1. IsFiniteSet(R) /\ S \subseteq R
  BY DEF Ready, PlacesInv, Strays
<1> HIDE DEF S, R
<1>2. IsFiniteSet(S)
  BY <1>1, FS_Subset
<1>3. Cardinality(S) \in Nat
  BY <1>2, FS_CardinalityType
<1> QED
  BY <1>2, <1>3 DEF S

(* An outcome of the owner's is over for it; a queued packet is among none.   *)
LEMMA RowIsOpen ==
  ASSUME Ready, NEW h \in Procs, pc[h] \in {"answer", "calling"}
  PROVE  /\ row[h] \in Packets /\ ~Over(mem[h], clock, row[h])
         /\ row[h] \notin writes[h] /\ row[h] \notin sent[h]
<1>1. PlaceOK(h) /\ row[h] \in Range(mem[h].queue) /\ Shaped(mem[h])
  BY PlaceOf, BookOf DEF PlaceOK
<1>2. row[h] \in Packets
  BY <1>1 DEF Shaped, Range
<1>3. ~Over(mem[h], clock, row[h])
  BY <1>1, QueuedIsOpen
<1> QED
  BY <1>1, <1>2, <1>3 DEF PlaceOK

(* The owner works: a call closes a packet that was open.                     *)
LEMMA OwnerSpends ==
  ASSUME Ready, DrainInv, NEW h \in Procs, owner = h,
         NEW new, NEW ended, NEW told, Works(h, new, ended, told), NEW k \in Packets
  PROVE  /\ Strays(k)' \subseteq Strays(k) /\ (Closed(k) => Closed(k)') /\ losses' = losses
         /\ calls'[k] <= calls[k] \/ (calls'[k] = calls[k] + 1 /\ ~Closed(k) /\ Closed(k)')
<1>1. /\ owner' = owner /\ answers' = answers /\ clock' = clock /\ losses' = losses
      /\ \A g \in Procs \ {h} : mem'[g] = mem[g] /\ pc'[g] = pc[g] /\ row'[g] = row[g]
  BY DEF Works, Alone
<1>2. Strays(k)' \subseteq Strays(k)
  BY <1>1 DEF Strays, Running, Spent
<1>3. ASSUME ClosedBy(h, k) PROVE ClosedBy(h, k)'
  <2>1. CASE pc[h] # "saving" /\ k \in writes[h]
    BY <2>1 DEF Works, ClosedBy
  <2>2. CASE pc[h] = "calling" /\ row[h] = k
    <3>1. k \notin sent[h]
      BY <2>2, RowIsOpen
    <3>2. k \in told => k \in writes'[h] /\ pc'[h] # "saving"
      BY <2>2, <3>1 DEF Works
    <3>3. (pc'[h] = "calling" /\ row'[h] = k) \/ k \in told
      BY <2>2 DEF Works
    <3> QED
      BY <3>2, <3>3 DEF ClosedBy
  <2> QED
    BY <1>3, <2>1, <2>2 DEF ClosedBy
<1>4. Closed(k) => Closed(k)'
  BY <1>1, <1>3 DEF Closed
<1>5. ASSUME pc[h] = "answer", ~found[h], row[h] = k, pc'[h] = "calling", row'[h] = k
      PROVE  ~Closed(k) /\ Closed(k)'
  <2>1. k \notin answers
    BY <1>5 DEF DrainInv, ReadStays
  <2>2. k \notin writes[h]
    BY <1>5, RowIsOpen
  <2>3. ~Closed(k)
    BY <1>5, <2>1, <2>2 DEF Closed, ClosedBy
  <2>4. Closed(k)'
    BY <1>1, <1>5 DEF Closed, ClosedBy
  <2> QED
    BY <2>3, <2>4
<1>6. calls'[k] <= calls[k] \/ (calls'[k] = calls[k] + 1 /\ ~Closed(k) /\ Closed(k)')
  BY <1>5 DEF Works, Calls
<1> QED
  BY <1>1, <1>2, <1>4, <1>6

(* A stray works: a call is the one it had left.                              *)
LEMMA StraySpends ==
  ASSUME Ready, NEW h \in Procs, owner # h,
         NEW new, NEW ended, NEW told, Works(h, new, ended, told), NEW k \in Packets
  PROVE  /\ Strays(k)' \subseteq Strays(k) /\ (Closed(k) => Closed(k)') /\ losses' = losses
         /\ calls'[k] <= calls[k]
            \/ (calls'[k] = calls[k] + 1 /\ h \in Strays(k) /\ Strays(k)' \subseteq Strays(k) \ {h})
<1>1. /\ owner' = owner /\ answers' = answers /\ clock' = clock /\ losses' = losses /\ Running(h)
      /\ \A g \in Procs \ {h} : /\ mem'[g] = mem[g] /\ pc'[g] = pc[g]
                                /\ row'[g] = row[g] /\ writes'[g] = writes[g]
  BY DEF Works, Alone
<1>2. Closed(k) => Closed(k)'
  BY <1>1 DEF Closed, ClosedBy
<1>3. Spent(h, k) => Spent(h, k)'
  <2>1. Shaped(mem[h]) /\ MovedOn(mem[h], mem'[h], clock, new, ended, told)
    BY BookOf DEF Works
  <2>2. Over(mem[h], clock, k) => Over(mem'[h], clock, k)
    BY <2>1, OverStays
  <2>3. k \in told => Over(mem'[h], clock, k)
    BY <2>1, EndedIsOver DEF MovedOn
  <2>4. (pc[h] = "calling" /\ row[h] = k) => (pc'[h] = "calling" /\ row'[h] = k) \/ k \in told
    BY DEF Works
  <2> QED
    BY <1>1, <2>2, <2>3, <2>4 DEF Spent
<1>4. Strays(k)' \subseteq Strays(k)
  <2>1. ASSUME NEW g \in Procs, g # h, g \in Strays(k)' PROVE g \in Strays(k)
    BY <1>1, <2>1 DEF Strays, Running, Spent
  <2>2. h \in Strays(k)' => h \in Strays(k)
    BY <1>1, <1>3 DEF Strays
  <2>3. Strays(k)' \subseteq Procs
    BY DEF Strays
  <2> QED
    BY <2>1, <2>2, <2>3
<1>5. ASSUME pc[h] = "answer", ~found[h], row[h] = k, pc'[h] = "calling", row'[h] = k
      PROVE  h \in Strays(k) /\ Strays(k)' \subseteq Strays(k) \ {h}
  <2>1. ~Spent(h, k)
    BY <1>5, RowIsOpen DEF Spent
  <2>2. h \in Strays(k)
    BY <1>1, <2>1 DEF Strays
  <2>3. h \notin Strays(k)'
    BY <1>5 DEF Strays, Spent
  <2> QED
    BY <1>4, <2>2, <2>3
<1>6. \/ calls'[k] <= calls[k]
      \/ calls'[k] = calls[k] + 1 /\ h \in Strays(k) /\ Strays(k)' \subseteq Strays(k) \ {h}
  BY <1>5 DEF Works, Calls
<1> QED
  BY <1>1, <1>2, <1>4, <1>6

(* The other steps make no call.                                             *)
LEMMA OthersSpend ==
  ASSUME Ready, NEW h \in Procs, NEW k \in Packets,
         Leaves(h) \/ Saves(h) \/ Releases(h) \/ Warms(h) \/ Reloads(h) \/ Lapses(h)
  PROVE  /\ calls' = calls
         /\ \/ Strays(k)' \subseteq Strays(k) /\ (Closed(k) => Closed(k)') /\ losses <= losses'
            \/ Strays(k)' \subseteq Strays(k) /\ losses + 1 <= losses'
            \/ Strays(k)' \subseteq Strays(k) \cup {h} /\ (Closed(k) => Closed(k)') /\ losses + 1 <= losses'
<1>0. None \notin Procs /\ losses \in Nat /\ PlaceOK(h)
  BY PlaceOf, PairsAssumption DEF Ready, PerProc
<1>1. ASSUME Alone(h), clock' = clock, owner' = owner \/ owner = h \/ owner = None,
             ~Running(h)' \/ owner' = h
      PROVE  Strays(k)' \subseteq Strays(k)
  <2>1. ASSUME NEW g \in Procs, g \in Strays(k)' PROVE g \in Strays(k)
    <3>1. g # h /\ Running(g)' /\ owner' # g /\ ~Spent(g, k)'
      BY <1>1, <2>1 DEF Strays
    <3>2. mem'[g] = mem[g] /\ pc'[g] = pc[g] /\ row'[g] = row[g]
      BY <1>1, <3>1 DEF Alone
    <3>3. owner # g
      BY <1>1, <3>1, <1>0
    <3> QED
      BY <1>1, <3>1, <3>2, <3>3 DEF Strays, Running, Spent
  <2>2. Strays(k)' \subseteq Procs
    BY DEF Strays
  <2> QED
    BY <2>1, <2>2
<1>2. CASE Leaves(h)
  <2>1. Strays(k)' \subseteq Strays(k)
    BY <1>1, <1>2 DEF Leaves, Running
  <2>2. CASE owner = h
    BY <1>0, <1>2, <2>1, <2>2 DEF Leaves
  <2>3. CASE owner # h
    <3>1. /\ owner' = owner /\ answers' = answers /\ losses <= losses' /\ calls' = calls
          /\ \A g \in Procs \ {h} : pc'[g] = pc[g] /\ row'[g] = row[g] /\ writes'[g] = writes[g]
      BY <1>0, <1>2, <2>3 DEF Leaves, Alone
    <3>2. Closed(k) => Closed(k)'
      BY <2>3, <3>1 DEF Closed, ClosedBy
    <3> QED
      BY <2>1, <3>1, <3>2
  <2> QED
    BY <2>2, <2>3
<1>3. CASE Saves(h) \/ Releases(h)
  <2>1. /\ Alone(h) /\ owner = h /\ pc[h] = "idle" /\ clock' = clock /\ losses' = losses /\ calls' = calls
        /\ answers' = answers \cup writes[h] /\ (~Running(h)' \/ owner' = h)
    BY <1>3 DEF Saves, Releases, Flushes, Running
  <2>2. Strays(k)' \subseteq Strays(k)
    BY <1>1, <2>1
  <2>3. Closed(k) => k \in answers'
    BY <2>1 DEF Closed, ClosedBy
  <2>4. Closed(k) => Closed(k)'
    BY <2>3 DEF Closed
  <2> QED
    BY <1>0, <2>1, <2>2, <2>4
<1>4. CASE Warms(h)
  <2>1. /\ Alone(h) /\ owner' = owner /\ owner # h /\ clock' = clock /\ losses' = losses /\ calls' = calls
        /\ answers' = answers /\ ~Running(h)'
        /\ \A g \in Procs \ {h} : pc'[g] = pc[g] /\ row'[g] = row[g] /\ writes'[g] = writes[g]
    BY <1>4, OwnersRun DEF Warms, Alone, Running
  <2>2. Strays(k)' \subseteq Strays(k)
    BY <1>1, <2>1
  <2>3. Closed(k) => Closed(k)'
    BY <2>1 DEF Closed, ClosedBy
  <2> QED
    BY <1>0, <2>1, <2>2, <2>3
<1>5. CASE Reloads(h)
  <2>1. /\ Alone(h) /\ owner' = h /\ owner = None /\ clock' = clock /\ losses' = losses /\ calls' = calls
        /\ answers' = answers
    BY <1>5 DEF Reloads
  <2>2. Strays(k)' \subseteq Strays(k)
    BY <1>1, <2>1
  <2>3. Closed(k) => Closed(k)'
    BY <1>0, <2>1 DEF Closed
  <2> QED
    BY <1>0, <2>1, <2>2, <2>3
<1>6. CASE Lapses(h)
  <2>1. /\ owner = h /\ owner' = None /\ losses' = losses + 1 /\ calls' = calls
        /\ UNCHANGED <<answers, clock, pc, mem, row>>
    BY <1>6 DEF Lapses
  <2>2. Strays(k)' \subseteq Strays(k) \cup {h}
    BY <2>1 DEF Strays, Running, Spent
  <2>3. CASE ClosedBy(h, k)
    <3>1. Spent(h, k)
      BY <1>0, <2>3 DEF ClosedBy, Spent, PlaceOK
    <3>2. h \notin Strays(k)'
      BY <2>1, <3>1 DEF Strays, Spent
    <3>3. Strays(k)' \subseteq Strays(k)
      BY <2>2, <3>2
    <3> QED
      BY <1>0, <2>1, <3>3
  <2>4. CASE ~ClosedBy(h, k)
    <3>1. Closed(k) => Closed(k)'
      BY <2>1, <2>4 DEF Closed
    <3> QED
      BY <1>0, <2>1, <2>2, <3>1
  <2> QED
    BY <2>3, <2>4
<1> QED
  BY <1>2, <1>3, <1>4, <1>5, <1>6

LEMMA RepeatsKept ==
  ASSUME Ready, DrainInv, RepeatsInv, Stays \/ Ages \/ \E h \in Procs : Moves(h)
  PROVE  RepeatsInv'
<1> SUFFICES ASSUME NEW k \in Packets
             PROVE  calls'[k] + Cardinality(Strays(k)') + Open(Closed(k)') <= 1 + losses'
  BY DEF RepeatsInv
<1> DEFINE S == Strays(k)
           T == Strays(k)'
           c == Closed(k)
           d == Closed(k)'
           n == calls[k]
           u == calls'[k]
<1>1. /\ n \in Int /\ u \in Int /\ losses \in Nat /\ losses' \in Nat
      /\ c \in BOOLEAN /\ d \in BOOLEAN
  <2>1. PerProc'
    BY ReadyKept DEF Ready
  <2> QED
    BY <2>1 DEF Ready, PerProc, Closed
<1>2. IsFiniteSet(S)
  BY StraysAreFew
<1>3. n + Cardinality(S) + Open(c) <= 1 + losses
  BY DEF RepeatsInv
<1>4. \/ T \subseteq S /\ u <= n /\ (c => d) /\ losses <= losses'
      \/ T \subseteq S /\ u <= n + 1 /\ ~c /\ d /\ losses <= losses'
      \/ (\E h \in S : T \subseteq S \ {h}) /\ u <= n + 1 /\ (c => d) /\ losses <= losses'
      \/ T \subseteq S /\ u <= n /\ losses + 1 <= losses'
      \/ (\E h : T \subseteq S \cup {h}) /\ u <= n /\ (c => d) /\ losses + 1 <= losses'
  <2>1. CASE Stays
    <3>1. T \subseteq S /\ (c => d) /\ u = n /\ losses' = losses
      BY <2>1 DEF Stays, Strays, Closed, ClosedBy, Spent, Running
    <3> HIDE DEF S, T, c, d, n, u
    <3> QED
      BY <1>1, <3>1
  <2>2. CASE Ages
    <3>1. clock \in Nat /\ clock' \in Nat /\ clock <= clock' /\ UNCHANGED <<owner, answers, calls, losses, pc, mem, writes, row>>
      BY <2>2 DEF Ages, Ready, PerProc
    <3>2. ASSUME NEW h \in Procs, Spent(h, k) PROVE Spent(h, k)'
      BY <3>1, <3>2, OverAges DEF Spent
    <3>3. T \subseteq S
      BY <3>1, <3>2 DEF Strays, Running
    <3>4. (c => d) /\ u = n /\ losses' = losses
      BY <3>1 DEF Closed, ClosedBy
    <3> HIDE DEF S, T, c, d, n, u
    <3> QED
      BY <1>1, <3>3, <3>4
  <2>3. ASSUME NEW h \in Procs, Working(h), owner = h PROVE <1>4!1 \/ <1>4!2
    <3>1. PICK new, ended, told : Works(h, new, ended, told)
      BY <2>3 DEF Working
    <3>2. /\ T \subseteq S /\ (c => d) /\ losses' = losses
          /\ u <= n \/ (u = n + 1 /\ ~c /\ d)
      BY <2>3, <3>1, OwnerSpends
    <3> HIDE DEF S, T, c, d, n, u
    <3> QED
      BY <1>1, <3>2
  <2>4. ASSUME NEW h \in Procs, Working(h), owner # h PROVE <1>4!1 \/ <1>4!3
    <3>1. PICK new, ended, told : Works(h, new, ended, told)
      BY <2>4 DEF Working
    <3>2. /\ T \subseteq S /\ (c => d) /\ losses' = losses
          /\ u <= n \/ (u = n + 1 /\ h \in S /\ T \subseteq S \ {h})
      BY <2>4, <3>1, StraySpends
    <3> HIDE DEF S, T, c, d, n, u
    <3> QED
      BY <1>1, <3>2
  <2>5. ASSUME NEW h \in Procs,
               Leaves(h) \/ Saves(h) \/ Releases(h) \/ Warms(h) \/ Reloads(h) \/ Lapses(h)
        PROVE  <1>4!1 \/ <1>4!4 \/ <1>4!5
    <3>1. /\ u = n
          /\ \/ T \subseteq S /\ (c => d) /\ losses <= losses'
             \/ T \subseteq S /\ losses + 1 <= losses'
             \/ T \subseteq S \cup {h} /\ (c => d) /\ losses + 1 <= losses'
      BY <2>5, OthersSpend
    <3> HIDE DEF S, T, c, d, n, u
    <3> QED
      BY <1>1, <3>1
  <2> QED
    BY <2>1, <2>2, <2>3, <2>4, <2>5 DEF Moves
<1> HIDE DEF S, T, c, d, n, u
<1>5. u + Cardinality(T) + Open(d) <= 1 + losses'
  BY <1>1, <1>2, <1>3, <1>4, BudgetSteps
<1> QED
  BY <1>5 DEF T, d, u

-----------------------------------------------------------------------------
(* The invariant, and what follows from it.                                  *)

LedgerIInv == Ready /\ DrainInv /\ SavedInv /\ AnswersInv /\ LedgerInv /\ OnTimeInv /\ RepeatsInv

LEMMA LedgerIInvInit == Init => LedgerIInv
<1> SUFFICES ASSUME Init PROVE LedgerIInv
  OBVIOUS
<1>1. PerProc
  <2>1. Bar \in Nat
    BY TimesAssumption
  <2> QED
    BY <2>1 DEF Init, PerProc
<1>2. /\ saved = Fresh /\ mem = [h \in Procs |-> Fresh] /\ owner = None /\ answers = {}
      /\ \A h \in Procs : ~Running(h) /\ writes[h] = {} /\ sent[h] = {} /\ now[h] = 0 /\ pc[h] = "off"
      /\ losses = 0 /\ sheds = 0 /\ calls = [k \in Packets |-> 0]
  BY DEF Init, Running
<1>3. /\ Shaped(Fresh) /\ Dated(Fresh, clock) /\ Fresh.skip = FreshSkip /\ Known(Fresh) = 0
      /\ Fresh.done = {}
  BY FreshBook
<1>4. BooksInv
  BY <1>2, <1>3 DEF BooksInv
<1>5. PlacesInv
  <2>1. {h \in Procs : Running(h)} = {}
    BY <1>2
  <2>2. IsFiniteSet({h \in Procs : Running(h)})
    BY <2>1, FS_EmptySet
  <2>3. ASSUME NEW h \in Procs PROVE PlaceOK(h)
    BY <1>1, <1>2 DEF PlaceOK, PerProc
  <2> QED
    BY <1>2, <2>2, <2>3 DEF PlacesInv
<1>6. DrainInv
  BY DEF Init, DrainInv, ReadStays
<1>7. SavedInv /\ AnswersInv
  BY <1>2, <1>3 DEF SavedInv, AnswersInv
<1>8. LedgerInv
  <2>1. GrownTo(Fresh.skip, Fresh.skip)
    BY <1>3, GrownToItself
  <2>2. Balanced(Fresh, sheds)
    BY <1>3 DEF Balanced, FreshSkip
  <2> QED
    BY <1>2, <2>1, <2>2, PairsAssumption DEF LedgerInv
<1>9. OnTimeInv
  <2>1. Noted(Fresh, clock)
    BY <1>3 DEF Noted, FreshSkip
  <2> QED
    BY <1>2, <2>1, PairsAssumption DEF OnTimeInv
<1>10. RepeatsInv
  <2> SUFFICES ASSUME NEW k \in Packets
               PROVE  calls[k] + Cardinality(Strays(k)) + Open(Closed(k)) <= 1 + losses
    BY DEF RepeatsInv
  <2>1. Strays(k) = {}
    BY <1>2 DEF Strays
  <2>2. Cardinality(Strays(k)) = 0
    BY <2>1, FS_EmptySet
  <2>3. Open(Closed(k)) \in {0, 1}
    BY DEF Open
  <2>4. calls[k] = 0 /\ losses = 0
    BY <1>2
  <2> QED
    BY <2>2, <2>3, <2>4
<1> QED
  BY <1>1, <1>4, <1>5, <1>6, <1>7, <1>8, <1>9, <1>10 DEF LedgerIInv, Ready

LEMMA LedgerIInvNext == LedgerIInv /\ [Next]_vars => LedgerIInv'
<1> SUFFICES ASSUME LedgerIInv, [Next]_vars PROVE LedgerIInv'
  OBVIOUS
<1>1. Stays \/ Ages \/ \E h \in Procs : Moves(h)
  BY EveryStep DEF LedgerIInv
<1>2. Ready' /\ SavedInv' /\ AnswersInv'
  BY <1>1, ReadyKept, SavedKept, AnswersKept DEF LedgerIInv
<1>3. LedgerInv' /\ OnTimeInv' /\ RepeatsInv'
  BY <1>1, LedgerKept, OnTimeKept, RepeatsKept DEF LedgerIInv
<1>4. DrainInv'
  BY DrainInvNext DEF LedgerIInv
<1> QED
  BY <1>2, <1>3, <1>4 DEF LedgerIInv

LEMMA LedgerIInvHolds == Spec => []LedgerIInv
  BY LedgerIInvInit, LedgerIInvNext, PTL DEF Spec

(* A packet goes to the model again only when a loss cost its last outcome     *)
(* (jev-call.ts drainJevShadow): whatever the handovers, the lost replies and   *)
(* the keys that were shed.                                                 *)
THEOREM RepeatsAreLossesHolds == Spec => []RepeatsAreLosses
<1>1. LedgerIInv => RepeatsAreLosses
  <2> SUFFICES ASSUME LedgerIInv, NEW k \in Packets PROVE calls[k] <= 1 + losses
    BY DEF RepeatsAreLosses
  <2> DEFINE cs == Cardinality(Strays(k))
             o == Open(Closed(k))
  <2>1. calls[k] + cs + o <= 1 + losses /\ calls[k] \in Int /\ losses \in Nat
    BY DEF LedgerIInv, RepeatsInv, Ready, PerProc
  <2>2. cs \in Nat
    BY StraysAreFew DEF LedgerIInv
  <2>3. o \in Nat
    BY DEF Open
  <2> HIDE DEF cs, o
  <2> QED
    BY <2>1, <2>2, <2>3
<1> QED
  BY <1>1, LedgerIInvHolds, PTL

(* The flush that saves a called packet as done stores its answer key          *)
(* (jev-call.ts remember, hot-store.ts flush): while no process was lost, no    *)
(* packet that was called is saved as done without one.                      *)
THEOREM AnswersAreStoredHolds == Spec => []AnswersAreStored
<1>1. LedgerIInv => AnswersAreStored
  <2> SUFFICES ASSUME LedgerIInv, losses = 0, NEW k \in saved.done, calls[k] > 0 PROVE k \in answers
    BY DEF AnswersAreStored
  <2>1. k \in Packets
    BY DEF LedgerIInv, Ready, BooksInv, Shaped
  <2>2. Closed(k)
    <3> SUFFICES ASSUME ~Closed(k) PROVE FALSE
      OBVIOUS
    <3> DEFINE cs == Cardinality(Strays(k))
    <3>1. calls[k] + cs + Open(Closed(k)) <= 1 + losses /\ calls[k] \in Int
      BY <2>1 DEF LedgerIInv, RepeatsInv, Ready, PerProc
    <3>2. cs \in Nat
      BY StraysAreFew DEF LedgerIInv
    <3>3. Open(Closed(k)) = 1
      BY DEF Open
    <3> HIDE DEF cs
    <3> QED
      BY <3>1, <3>2, <3>3
  <2>3. ASSUME NEW h \in Procs, owner = h, ClosedBy(h, k) PROVE k \in answers
    <3>1. Over(mem[h], clock, k) /\ (k \in writes[h] => k \in answers)
      BY <2>3 DEF LedgerIInv, SavedInv
    <3>2. ~(pc[h] = "calling" /\ row[h] = k)
      BY <3>1, RowIsOpen DEF LedgerIInv
    <3> QED
      BY <2>3, <3>1, <3>2 DEF ClosedBy
  <2> QED
    BY <2>2, <2>3 DEF Closed
<1> QED
  BY <1>1, LedgerIInvHolds, PTL

(* No bar is counted on time twice in one ledger (jev-call.ts scheduleLiveJev,   *)
(* firstOf, settleStamps, noteStamp): the stamp of a counted bar outlives the   *)
(* window in which the bar may still be classified.                          *)
THEOREM OnTimeOnceHolds == Spec => []OnTimeOnce
<1>1. LedgerIInv => OnTimeOnce
  BY DEF LedgerIInv, OnTimeInv, Noted, OnTimeOnce
<1> QED
  BY <1>1, LedgerIInvHolds, PTL

(* The ledger of the lease holder adds up (jev-call.ts scheduleLiveJev,         *)
(* drainJevShadow, skipOne; hot-store.ts installPaperState): scheduled is        *)
(* answered, skipped and queued, and after the done keys were shed it is never  *)
(* less than these.                                                         *)
THEOREM PacketsAddUpHolds == Spec => []PacketsAddUp
<1>1. LedgerIInv => PacketsAddUp
  <2> SUFFICES ASSUME LedgerIInv, NEW h \in Procs, owner = h
               PROVE  LET m == mem[h]
                          known == m.skip.answered + m.skip.skipped + Len(Pending(m))
                      IN /\ known <= m.skip.scheduled
                         /\ sheds = 0 => known = m.skip.scheduled
    BY DEF PacketsAddUp
  <2>1. Shaped(mem[h]) /\ Balanced(mem[h], sheds)
    BY DEF LedgerIInv, Ready, BooksInv, LedgerInv
  <2>2. Len(Pending(mem[h])) = Len(mem[h].queue)
    <3> DEFINE q == Undone(mem[h].queue, mem[h].done)
    <3>1. /\ mem[h].done \cap Range(mem[h].queue) = {}
          /\ mem[h].queue \in Seq(Packets) /\ Once(mem[h].queue)
      BY <2>1 DEF Shaped
    <3>2. q \in Seq(Packets) /\ Once(q) /\ Range(q) = Range(mem[h].queue)
      BY <2>1, <3>1, UndoneDisjoint
    <3> HIDE DEF q
    <3>3. Len(q) = Len(mem[h].queue)
      BY <3>1, <3>2, LengthCounts
    <3> QED
      BY <3>3 DEF q, Pending
  <2> QED
    BY <2>1, <2>2 DEF Balanced, Known
<1> QED
  BY <1>1, LedgerIInvHolds, PTL

=============================================================================
