-------------------------- MODULE SplitStoreProofs --------------------------
(***************************************************************************)
(* Theorems about SplitStore, for every set of invocations, keys and days,    *)
(* every limit and bound, and every fault but one: a load under the lease      *)
(* returns the book, and a flush leaves a new stamp.                         *)
(***************************************************************************)
EXTENDS SplitStore, TLAPS

(* A reply is not lost while the numbers are ahead of the clock, nor while the  *)
(* process takes a stamped p6:hot for bare.                                 *)
Steady == "unlucky" \notin Faults

-----------------------------------------------------------------------------
(* The inductive invariant, in parts.                                        *)

Holding == {"holding", "grouping"}

MemFields == {"seq", "seen", "era", "base", "keySeq", "poison", "fresh", "bare"}

(* Domains, and what TypeOK says.                                            *)
TypeInv ==
    /\ TypeOK
    /\ \A p \in Procs : DOMAIN mem[p] = MemFields
    /\ DOMAIN pc = Procs /\ DOMAIN mem = Procs /\ DOMAIN cache = Procs
    /\ DOMAIN token = Procs /\ DOMAIN merged = Procs /\ DOMAIN loaded = Procs

(* The stamps of a sequence are within it, and its era was handed out.        *)
StampOK(h) ==
    /\ h.kind # "poison"
    /\ h.kind = "ok" =>
        /\ h.era \in 1..eras
        /\ h.base <= h.seq /\ \A k \in DOMAIN h.keySeq : h.keySeq[k] <= h.seq

(* A process knows a whole sequence or none, and one that starts a new era    *)
(* knows none.                                                              *)
MemOK(m) ==
    IF m.seq = None
    THEN m.era = None /\ m.seen = None /\ m.base = None /\ m.keySeq = None
    ELSE /\ m.seq \in Nat /\ m.seen \in 1..eras /\ m.era \in {None, m.seen} /\ ~m.fresh
         /\ m.base \in 0..m.seq /\ m.keySeq # None
         /\ DOMAIN m.keySeq \subseteq Keys
         /\ \A k \in DOMAIN m.keySeq : m.keySeq[k] \in 0..m.seq

Sane ==
    /\ StampOK(hot) /\ \A k \in Keys : data[k] <= writes
    /\ \A p \in Procs :
          /\ StampOK(token[p]) /\ MemOK(mem[p])
          /\ pc[p] \notin Holding => mem[p].era = None /\ ~mem[p].fresh

(* The holder holds still what it has read, and knows a bare p6:hot.           *)
HolderKnows ==
    \A p \in Procs :
        /\ pc[p] = "grouping" => mem[p].bare /\ retryAt[p] <= clock
        /\ owner = p =>
            /\ pc[p] \in {"keys", "rings", "confirm", "fullRings"} => token[p] = hot
            /\ pc[p] \in {"keys", "rings"} => TokenMatches(p, Classified(hot))
            /\ pc[p] \in Holding /\ mem[p].bare => hot.kind # "ok"

(* What the stamps of a key say: in p6:hot, and in the memory of the writer.   *)
StampOf(h, k) == IF k \in DOMAIN h.keySeq THEN h.keySeq[k] ELSE h.base

Continues(q, e) ==
    owner = q /\ pc[q] \in Holding /\ mem[q].seq # None /\ mem[q].seen = e

(* The next stamps of era e will be above n.                                 *)
Behind(e, n) ==
    /\ e <= eras
    /\ hot.kind = "ok" /\ hot.era = e => n <= hot.seq
    /\ \A q \in Procs : Continues(q, e) => n <= mem[q].seq \/ n < retryAt[q]

(* While key k bears stamp s in era e, it holds v, unless it strays.           *)
Pinned(e, k, s, v) ==
    k \notin strays =>
        /\ hot.kind = "ok" /\ hot.era = e /\ StampOf(hot, k) = s => data[k] = v
        /\ \A q \in Procs :
              Continues(q, e) /\ k \notin rewrite[q] \cup unsent[q] \cup Always
                /\ StampOf(mem[q], k) = s
                  => data[k] = v

HotIsLast == hot.kind = "ok" => Behind(hot.era, hot.seq)

(* A standby between its two reads, and one that has loaded.                  *)
Reads(p) ==
    (pc[p] = "warmRings" /\ token[p].kind = "ok") =>
        /\ Behind(token[p].era, token[p].seq)
        /\ \A k \in DOMAIN merged[p] \cap Plan :
              Pinned(token[p].era, k, StampOf(token[p], k), merged[p][k])

Caches(p) ==
    (pc[p] \in {"standby", "reload", "keys", "rings"} /\ mem[p].seq # None) =>
        /\ Behind(mem[p].seen, mem[p].seq)
        /\ \A k \in DOMAIN cache[p] \cap DOMAIN mem[p].keySeq \cap Plan :
              Pinned(mem[p].seen, k, mem[p].keySeq[k], cache[p][k])

(* A key that is read is in the plan, and once out of it stays out.            *)
InPlanBefore(keys) == \A k \in keys : k \in Dailies \/ (k \in Days /\ k <= Day)

PlansPass ==
    \A p \in Procs :
        /\ pc[p] = "warmRings" => InPlanBefore(DOMAIN merged[p])
        /\ pc[p] \in {"standby", "reload", "keys", "rings"} => InPlanBefore(DOMAIN cache[p])

(* What a load under the lease has collected is what is stored, and whole.     *)
LoadIsTrue ==
    \A p \in Procs : owner = p =>
        /\ pc[p] \in {"rings", "fullRings"} => Dailies \ Rings \subseteq DOMAIN merged[p]
        /\ pc[p] = "confirm" => Dailies \subseteq DOMAIN merged[p]
        /\ pc[p] \in {"confirm", "fullRings"} =>
              \A k \in DOMAIN merged[p] \ strays : merged[p][k] = data[k]
        /\ pc[p] = "rings" =>
              /\ Rings \cap DOMAIN cache[p] \subseteq DOMAIN merged[p]
              /\ \A k \in DOMAIN merged[p] \ strays :
                    IF k \in Rings THEN k \in DOMAIN cache[p] => merged[p][k] = cache[p][k]
                    ELSE merged[p][k] = data[k]

-----------------------------------------------------------------------------
(* What the stamping operators return.                                       *)

LEMMA DayIsNat == ASSUME clock \in Nat PROVE Day \in Nat
  BY NumbersAssumption DEF Day

LEMMA NextDayIsNat == ASSUME clock' \in Nat PROVE Day' \in Nat
<1>1. ASSUME NEW c \in Nat, NEW d \in Nat \ {0} PROVE c \div d \in Nat
  OBVIOUS
<1> QED
  BY <1>1, NumbersAssumption DEF Day

LEMMA DaysPass ==
  ASSUME clock \in Nat, clock' \in {clock, clock + 1}
  PROVE  Day' >= Day
<1>1. ASSUME NEW c \in Nat, NEW d \in Nat \ {0}
      PROVE  (c + 1) \div d >= c \div d /\ c \div d \in Nat
  OBVIOUS
<1> QED
  BY <1>1, NumbersAssumption DEF Day

LEMMA PlansAreKeys == Plan \subseteq Keep /\ Keep \subseteq Keys /\ Dailies \subseteq Plan
  BY DEF Plan, Keep, PlanAt, Keys

LEMMA NextSeqGrows ==
  ASSUME NEW p \in Procs, clock \in Nat, MemOK(mem[p])
  PROVE  /\ NextSeq(p) \in Nat /\ NextSeq(p) >= clock
         /\ mem[p].seq # None => NextSeq(p) > mem[p].seq
  BY DEF NextSeq, Larger, MemOK

LEMMA ErasGoOn ==
  ASSUME NEW p \in Procs, eras \in Nat, MemOK(mem[p])
  PROVE  /\ NewEra(p) <=> mem[p].seq = None
         /\ mem[p].seq # None => Era(p) = mem[p].seen /\ Base(p) = mem[p].base
         /\ mem[p].seq = None => Era(p) = eras + 1 /\ Base(p) = NextSeq(p)
  BY KeysAssumption DEF NewEra, Era, Base, MemOK

LEMMA BaseIsLow ==
  ASSUME NEW p \in Procs, clock \in Nat, eras \in Nat, MemOK(mem[p])
  PROVE  Base(p) \in 0..NextSeq(p)
  BY NextSeqGrows, ErasGoOn, KeysAssumption DEF MemOK

(* The map goes on, but for the keys that are written.                        *)
LEMMA CarriedOn ==
  ASSUME NEW p \in Procs, clock \in Nat, eras \in Nat, MemOK(mem[p]),
         NEW touched \in SUBSET Keys, rewrite[p] \subseteq Keys
  PROVE  /\ DOMAIN Carried(p, touched) \subseteq Keys
         /\ \A k \in DOMAIN Carried(p, touched) : Carried(p, touched)[k] \in 0..NextSeq(p)
         /\ \A k \in touched \cup rewrite[p] :
                k \in DOMAIN Carried(p, touched) /\ Carried(p, touched)[k] = NextSeq(p)
         /\ mem[p].seq # None =>
                \A k \in Keep \ (touched \cup rewrite[p]) :
                    /\ k \in DOMAIN Carried(p, touched) <=> k \in DOMAIN mem[p].keySeq
                    /\ k \in DOMAIN mem[p].keySeq =>
                          Carried(p, touched)[k] = mem[p].keySeq[k]
<1>1. NextSeq(p) \in Nat /\ (mem[p].seq # None => NextSeq(p) > mem[p].seq)
  BY NextSeqGrows
<1>2. CASE mem[p].seq = None
  <2>1. Carried(p, touched) = [k \in touched \cup rewrite[p] |-> NextSeq(p)]
    BY <1>2 DEF Carried, NoMap, MemOK
  <2> QED
    BY <1>1, <1>2, <2>1
<1>3. CASE mem[p].seq # None
  <2> DEFINE old == mem[p].keySeq
             written == touched \cup rewrite[p]
  <2>1. Carried(p, touched) = [k \in written \cup (DOMAIN old \cap Keep) |->
                                   IF k \in written THEN NextSeq(p) ELSE old[k]]
    BY <1>3 DEF Carried, MemOK
  <2>2. \A k \in DOMAIN old : old[k] \in 0..NextSeq(p)
    BY <1>1, <1>3 DEF MemOK
  <2>3. Keep \subseteq Keys
    BY PlansAreKeys
  <2> QED
    BY <1>1, <1>3, <2>1, <2>2, <2>3
<1> QED
  BY <1>2, <1>3

(* The stamp of a flush goes on from what its process knows, or is of an era   *)
(* of its own.                                                              *)
LEMMA StampGoesOn ==
  ASSUME NEW p \in Procs, clock \in Nat, eras \in Nat, MemOK(mem[p]),
         NEW touched \in SUBSET Keys, rewrite[p] \subseteq Keys
  PROVE  LET h == Stamp(p, touched)
             new == Overflows(p, touched) \/ NewEra(p)
         IN /\ h.kind = "ok" /\ h.seq = NextSeq(p) /\ h.base \in 0..NextSeq(p)
            /\ h.keySeq = [k \in DOMAIN h.keySeq |-> h.keySeq[k]]
            /\ DOMAIN h.keySeq \subseteq Keys
            /\ \A k \in DOMAIN h.keySeq : h.keySeq[k] \in 0..NextSeq(p)
            /\ new => h.era = eras + 1
            /\ ~new => /\ mem[p].seq # None /\ h.era = mem[p].seen
                       /\ \A k \in touched \cup rewrite[p] : StampOf(h, k) = NextSeq(p)
                       /\ \A k \in Keep \ (touched \cup rewrite[p]) :
                             StampOf(h, k) = StampOf(mem[p], k)
<1>1. NextSeq(p) \in Nat /\ Base(p) \in 0..NextSeq(p)
  BY NextSeqGrows, BaseIsLow
<1>2. CASE Overflows(p, touched)
  BY <1>1, <1>2 DEF Stamp, NoMap
<1>3. CASE ~Overflows(p, touched)
  <2> DEFINE all == Carried(p, touched)
             h == Stamp(p, touched)
  <2>1. /\ h.kind = "ok" /\ h.seq = NextSeq(p) /\ h.base = Base(p) /\ h.era = Era(p)
        /\ h.keySeq = Sparse(p, touched)
    BY <1>3 DEF Stamp
  <2>2. h.keySeq = [k \in {j \in DOMAIN all : all[j] # Base(p)} |-> all[k]]
    BY <2>1 DEF Sparse
  <2>3. /\ h.keySeq = [k \in DOMAIN h.keySeq |-> h.keySeq[k]]
        /\ DOMAIN h.keySeq \subseteq Keys
        /\ \A k \in DOMAIN h.keySeq : h.keySeq[k] \in 0..NextSeq(p)
    BY <2>2, CarriedOn
  <2>4. NewEra(p) => h.era = eras + 1
    BY <2>1, ErasGoOn
  <2>5. ASSUME ~NewEra(p)
        PROVE  /\ mem[p].seq # None /\ h.era = mem[p].seen
               /\ \A k \in touched \cup rewrite[p] : StampOf(h, k) = NextSeq(p)
               /\ \A k \in Keep \ (touched \cup rewrite[p]) : StampOf(h, k) = StampOf(mem[p], k)
    <3>1. mem[p].seq # None /\ h.era = mem[p].seen /\ Base(p) = mem[p].base
      BY <2>1, <2>5, ErasGoOn
    <3>2. \A k \in DOMAIN all : StampOf(h, k) = all[k]
      BY <2>1, <2>2 DEF StampOf
    <3>3. \A k : k \notin DOMAIN all => StampOf(h, k) = mem[p].base
      BY <2>1, <2>2, <3>1 DEF StampOf
    <3>4. \A k \in touched \cup rewrite[p] : StampOf(h, k) = NextSeq(p)
      BY <3>2, CarriedOn
    <3>5. \A k \in Keep \ (touched \cup rewrite[p]) : StampOf(h, k) = StampOf(mem[p], k)
      BY <3>1, <3>2, <3>3, CarriedOn DEF StampOf
    <3> QED
      BY <3>1, <3>4, <3>5
  <2> QED
    BY <1>1, <1>3, <2>1, <2>3, <2>4, <2>5
<1> QED
  BY <1>2, <1>3

(* What the writer then knows is its stamp, spelled out for the plans.         *)
LEMMA WriterKnows ==
  ASSUME NEW p \in Procs, clock \in Nat, eras \in Nat, MemOK(mem[p]),
         NEW touched \in SUBSET Keys, rewrite[p] \subseteq Keys
  PROVE  LET h == Stamp(p, touched)
             m == AfterStamped(p, touched)
         IN /\ DOMAIN m = MemFields /\ m.seq = NextSeq(p)
            /\ m.seen = h.era /\ m.era = h.era /\ ~m.fresh /\ ~m.bare
            /\ m.base \in 0..NextSeq(p) /\ m.keySeq # None
            /\ DOMAIN m.keySeq \subseteq Keys
            /\ \A k \in DOMAIN m.keySeq : m.keySeq[k] \in 0..NextSeq(p)
            /\ \A k \in Keep : StampOf(m, k) = StampOf(h, k)
<1> DEFINE h == Stamp(p, touched)
           m == AfterStamped(p, touched)
           names == Keep \cup touched \cup rewrite[p]
<1>1. /\ NextSeq(p) \in Nat /\ h.seq = NextSeq(p) /\ h.base \in 0..NextSeq(p)
      /\ \A k \in DOMAIN h.keySeq : h.keySeq[k] \in 0..NextSeq(p)
  BY NextSeqGrows, StampGoesOn
<1>2. /\ DOMAIN m = MemFields /\ m.seq = h.seq /\ m.seen = h.era /\ m.era = h.era
      /\ ~m.fresh /\ ~m.bare /\ m.base = h.base /\ m.keySeq = WriterMap(p, h, touched)
  BY DEF AfterStamped, MemFields
<1>3. m.keySeq = [k \in names |-> StampOf(h, k)]
  BY <1>2 DEF WriterMap, StampOf
<1>4. names \in SUBSET Keys
  BY PlansAreKeys
<1>5. \A k \in names : StampOf(h, k) \in 0..NextSeq(p)
  BY <1>1 DEF StampOf
<1>6. m.keySeq \in [names -> Nat]
  BY <1>1, <1>3, <1>5
<1>7. m.keySeq # None
  BY <1>4, <1>6, KeysAssumption
<1>8. \A k \in Keep : StampOf(m, k) = StampOf(h, k)
  BY <1>3 DEF StampOf
<1> QED
  BY <1>1, <1>2, <1>3, <1>4, <1>5, <1>7, <1>8

(* A load that was stamped makes its process know the stamp, and nothing of a   *)
(* sequence otherwise.                                                      *)
LEMMA LoadRemembers ==
  ASSUME NEW m, DOMAIN m = MemFields, NEW h, IsStamp(h), StampOK(h), eras \in Nat
  PROVE  LET n == Remembered(m, Classified(h))
         IN /\ DOMAIN n = MemFields
            /\ n.era = m.era /\ n.fresh = m.fresh
            /\ n.bare => h.kind # "ok"
            /\ IF n.seq = None
               THEN n.seen = None /\ n.base = None /\ n.keySeq = None
               ELSE /\ h.kind = "ok" /\ Classified(h) = h
                    /\ n.seq = h.seq /\ n.seen = h.era /\ n.base = h.base
                    /\ n.keySeq = [k \in Plan |-> StampOf(h, k)] /\ n.keySeq # None
                    /\ \A k \in Plan : n.keySeq[k] \in 0..h.seq
<1>1. CASE h.kind = "ok" /\ h.seq < MaxSafe
  <2>1. Classified(h) = h
    BY <1>1, NumbersAssumption DEF Classified, IsStamp
  <2>2. Expanded(h) = [k \in Plan |-> StampOf(h, k)]
    BY DEF Expanded, StampOf
  <2>3. \A k \in Plan : StampOf(h, k) \in 0..h.seq
    BY <1>1 DEF StampOf, StampOK, IsStamp
  <2>4. Expanded(h) \in [Plan -> Nat] /\ Plan \in SUBSET Keys
    BY <1>1, <2>2, <2>3, PlansAreKeys DEF IsStamp
  <2>5. Expanded(h) # None
    BY <2>4, KeysAssumption
  <2> QED
    BY <1>1, <2>1, <2>2, <2>3, <2>5, KeysAssumption DEF Remembered, MemFields, IsStamp
<1>2. CASE ~(h.kind = "ok" /\ h.seq < MaxSafe)
  <2>1. Classified(h).kind \in {"none", "poison"}
    BY <1>2, NumbersAssumption DEF Classified, IsStamp, StampOK, Poisoned, Unstamped
  <2>2. Classified(h).kind = "none" => h.kind # "ok"
    BY <1>2 DEF Classified, Poisoned, Unstamped
  <2> QED
    BY <2>1, <2>2 DEF Remembered, MemFields
<1> QED
  BY <1>1, <1>2

-----------------------------------------------------------------------------
(* The kinds of steps, as far as stamps and contents go.                      *)

(* p6:hot stays or is bared; nobody has learnt a sequence.                    *)
Quiet ==
    /\ hot' = hot \/ hot'.kind # "ok"
    /\ data' = data /\ eras' = eras /\ strays' = strays
    /\ \A q \in Procs : (owner' = q /\ pc'[q] \in Holding /\ mem'[q].seq # None) =>
          /\ owner = q /\ pc[q] \in Holding
          /\ mem'[q].seq = mem[q].seq /\ mem'[q].seen = mem[q].seen
          /\ mem'[q].keySeq = mem[q].keySeq /\ mem'[q].base = mem[q].base
          /\ rewrite'[q] = rewrite[q] /\ unsent'[q] = unsent[q] /\ retryAt'[q] = retryAt[q]

Holder(p) == owner = p /\ owner' = p

(* The holder has loaded a stamped book.                                     *)
Installs(p) ==
    /\ Holder(p)
    /\ hot' = hot /\ hot.kind = "ok" /\ data' = data /\ eras' = eras /\ strays' = strays
    /\ mem'[p].seq = hot.seq /\ mem'[p].seen = hot.era
    /\ mem'[p].keySeq = [k \in Plan |-> StampOf(hot, k)]

(* A flush is stored with its stamp, and answered or not.                     *)
Publishes(p, touched) ==
    /\ Holder(p) /\ pc[p] \in Holding /\ retryAt[p] <= clock /\ retryAt'[p] \in Nat
    /\ unsent[p] \cup Always \subseteq touched
    /\ data' = [k \in Keys |-> IF k \in touched THEN writes + 1 ELSE data[k]]
    /\ hot' = Stamp(p, touched) /\ strays' = strays
    /\ eras' = IF Overflows(p, touched) \/ NewEra(p) THEN eras + 1 ELSE eras
    /\ \/ mem'[p] = AfterStamped(p, touched)
       \/ /\ mem'[p] = mem[p] /\ rewrite'[p] = rewrite[p] /\ unsent'[p] = touched
          /\ NextSeq(p) < retryAt'[p]

(* A flush is stored without a stamp.                                        *)
Bares(p) ==
    /\ Holder(p) /\ hot'.kind # "ok" /\ mem'[p].seq = None
    /\ eras' = eras /\ strays' = strays

(* A grouped bar write.                                                      *)
Groups(p, key) ==
    /\ Holder(p) /\ pc[p] \in Holding
    /\ hot' = hot /\ hot.kind # "ok" /\ eras' = eras /\ strays' = strays
    /\ mem'[p] = mem[p] /\ unsent'[p] = unsent[p] \ {key} /\ retryAt'[p] = retryAt[p]
    /\ data' = [k \in Keys |-> IF k = key THEN writes + 1 ELSE data[k]]
    /\ rewrite'[p] = rewrite[p] \cup {key}

(* A grouped save is given up, after a write or without one.                  *)
GivesUp(p, wrote) ==
    /\ Holder(p) /\ pc[p] \in Holding /\ retryAt[p] <= clock /\ clock < retryAt'[p]
    /\ retryAt'[p] \in Nat
    /\ hot' = hot \/ hot'.kind # "ok"
    /\ wrote # {} => hot'.kind # "ok"
    /\ eras' = eras /\ mem'[p] = mem[p] /\ rewrite'[p] = rewrite[p]
    /\ \A k \in Keys \ wrote : data'[k] = data[k]
    /\ strays' = strays \cup ((unsent[p] \cup wrote) \ (rewrite[p] \cup Always))

Moves ==
    \/ Quiet
    \/ \E p \in Procs :
          \/ Installs(p) \/ Bares(p)
          \/ \E touched \in SUBSET Keys : Publishes(p, touched)
          \/ \E key \in Keys : Groups(p, key)
          \/ \E wrote \in SUBSET Keys : GivesUp(p, wrote)

(* The stamp a flush publishes is above those its era had.                    *)
LEMMA PublishedIsAbove ==
  ASSUME TypeInv, Sane, NEW p \in Procs, NEW touched \in SUBSET Keys, Publishes(p, touched),
         NEW CONSTANT e \in Nat, NEW CONSTANT n \in Nat, Behind(e, n)
  PROVE  /\ eras' \in Nat /\ eras' >= eras
         /\ Stamp(p, touched).era = e =>
               /\ ~(Overflows(p, touched) \/ NewEra(p))
               /\ Continues(p, e) /\ n < NextSeq(p)
<1>1. /\ clock \in Nat /\ eras \in Nat /\ MemOK(mem[p]) /\ rewrite[p] \subseteq Keys
      /\ retryAt[p] \in Nat
  BY DEF TypeInv, TypeOK, Sane
<1>2. eras' \in Nat /\ eras' >= eras
  BY <1>1 DEF Publishes
<1>3. ASSUME Stamp(p, touched).era = e
      PROVE  /\ ~(Overflows(p, touched) \/ NewEra(p))
             /\ Continues(p, e) /\ n < NextSeq(p)
  <2>1. e <= eras
    BY DEF Behind
  <2>2. ~(Overflows(p, touched) \/ NewEra(p))
    <3>1. ASSUME Overflows(p, touched) \/ NewEra(p) PROVE Stamp(p, touched).era = eras + 1
      BY <1>1, <3>1, StampGoesOn
    <3> QED
      BY <1>1, <1>3, <2>1, <3>1
  <2>3. mem[p].seq # None /\ mem[p].seen = e
    BY <1>1, <1>3, <2>2, StampGoesOn
  <2>4. Continues(p, e)
    BY <2>3 DEF Continues, Publishes, Holder
  <2>5. n <= mem[p].seq \/ n < retryAt[p]
    BY <2>4 DEF Behind
  <2>6. NextSeq(p) \in Nat /\ NextSeq(p) >= clock /\ NextSeq(p) > mem[p].seq /\ mem[p].seq \in Nat
    BY <1>1, <2>3, NextSeqGrows DEF MemOK
  <2>7. retryAt[p] <= clock
    BY DEF Publishes
  <2> QED
    BY <1>1, <2>2, <2>4, <2>5, <2>6, <2>7
<1> QED
  BY <1>2, <1>3

(* What is behind stays behind.                                              *)
LEMMA BehindLasts ==
  ASSUME TypeInv, Sane, Moves, NEW CONSTANT e \in Nat, NEW CONSTANT n \in Nat, Behind(e, n)
  PROVE  Behind(e, n)'
<1>1. CASE Quiet
  BY <1>1 DEF Quiet, Behind, Continues
<1>2. ASSUME NEW p \in Procs, Installs(p) PROVE Behind(e, n)'
  BY <1>2 DEF Installs, Holder, Behind, Continues
<1>3. ASSUME NEW p \in Procs, Bares(p) PROVE Behind(e, n)'
  BY <1>3 DEF Bares, Holder, Behind, Continues
<1>4. ASSUME NEW p \in Procs, NEW touched \in SUBSET Keys, Publishes(p, touched)
      PROVE  Behind(e, n)'
  <2>1. /\ clock \in Nat /\ eras \in Nat /\ MemOK(mem[p]) /\ rewrite[p] \subseteq Keys
    BY DEF TypeInv, TypeOK, Sane
  <2>2. /\ eras' >= eras /\ eras' \in Nat
        /\ hot'.era = e => Continues(p, e) /\ n < NextSeq(p)
    BY <1>4, PublishedIsAbove DEF Publishes
  <2>3. hot'.seq = NextSeq(p) /\ NextSeq(p) \in Nat
    BY <1>4, <2>1, StampGoesOn, NextSeqGrows DEF Publishes
  <2>4. e <= eras'
    BY <2>1, <2>2 DEF Behind
  <2>5. ASSUME NEW q \in Procs, Continues(q, e)'
        PROVE  n <= mem'[q].seq \/ n < retryAt'[q]
    <3>1. q = p /\ mem'[p].seen = e
      BY <1>4, <2>5 DEF Publishes, Holder, Continues
    <3>2. CASE mem'[p] = AfterStamped(p, touched)
      BY <1>4, <2>1, <2>2, <2>3, <3>1, <3>2, WriterKnows DEF Publishes
    <3>3. CASE mem'[p] = mem[p] /\ NextSeq(p) < retryAt'[p]
      <4>1. Continues(p, e)
        BY <1>4, <2>5, <3>1, <3>3 DEF Publishes, Holder, Continues
      <4>2. n <= mem[p].seq \/ n < retryAt[p]
        BY <4>1 DEF Behind
      <4>3. /\ retryAt'[p] \in Nat /\ retryAt'[p] > NextSeq(p) /\ NextSeq(p) >= clock
            /\ retryAt[p] <= clock
        BY <1>4, <2>1, <3>3, NextSeqGrows DEF Publishes
      <4>4. retryAt[p] \in Nat
        BY DEF TypeInv, TypeOK
      <4> QED
        BY <2>1, <2>3, <3>1, <3>3, <4>2, <4>3, <4>4
    <3> QED
      BY <1>4, <3>2, <3>3 DEF Publishes
  <2> QED
    BY <2>2, <2>3, <2>4, <2>5 DEF Behind
<1>5. ASSUME NEW p \in Procs, NEW key \in Keys, Groups(p, key) PROVE Behind(e, n)'
  <2>1. clock \in Nat /\ retryAt[p] \in Nat
    BY DEF TypeInv, TypeOK
  <2> QED
    BY <1>5, <2>1 DEF Groups, Holder, Behind, Continues
<1>6. ASSUME NEW p \in Procs, NEW wrote \in SUBSET Keys, GivesUp(p, wrote) PROVE Behind(e, n)'
  <2>1. clock \in Nat /\ retryAt[p] \in Nat
    BY DEF TypeInv, TypeOK
  <2> QED
    BY <1>6, <2>1 DEF GivesUp, Holder, Behind, Continues
<1> QED
  BY <1>1, <1>2, <1>3, <1>4, <1>5, <1>6 DEF Moves

(* What is pinned stays pinned: a key of the plan that changes gets a higher    *)
(* stamp, or was rewritten, or strays.                                       *)
LEMMA PinnedLasts ==
  ASSUME TypeInv, Sane, Moves, NEW CONSTANT e \in Nat, NEW CONSTANT n \in Nat, Behind(e, n),
         NEW CONSTANT k \in Keys, k \in Plan, NEW CONSTANT s \in 0..n, NEW CONSTANT v,
         Pinned(e, k, s, v)
  PROVE  Pinned(e, k, s, v)'
<1> SUFFICES ASSUME k \notin strays'
             PROVE  /\ hot'.kind = "ok" /\ hot'.era = e /\ StampOf(hot', k) = s => data'[k] = v
                    /\ \A q \in Procs :
                          (/\ Continues(q, e)' /\ k \notin rewrite'[q] \cup unsent'[q] \cup Always
                           /\ StampOf(mem'[q], k) = s) => data'[k] = v
  BY DEF Pinned, StampOf
<1>1. CASE Quiet
  BY <1>1 DEF Quiet, Pinned, Continues, StampOf
<1>2. ASSUME NEW p \in Procs, Installs(p)
      PROVE  /\ hot'.kind = "ok" /\ hot'.era = e /\ StampOf(hot', k) = s => data'[k] = v
             /\ \A q \in Procs :
                   (/\ Continues(q, e)' /\ k \notin rewrite'[q] \cup unsent'[q] \cup Always
                    /\ StampOf(mem'[q], k) = s) => data'[k] = v
  <2>1. StampOf(mem'[p], k) = StampOf(hot, k)
    BY <1>2 DEF Installs, StampOf
  <2> QED
    BY <1>2, <2>1 DEF Installs, Holder, Pinned, Continues
<1>3. ASSUME NEW p \in Procs, Bares(p)
      PROVE  /\ hot'.kind = "ok" /\ hot'.era = e /\ StampOf(hot', k) = s => data'[k] = v
             /\ \A q \in Procs :
                   (/\ Continues(q, e)' /\ k \notin rewrite'[q] \cup unsent'[q] \cup Always
                    /\ StampOf(mem'[q], k) = s) => data'[k] = v
  BY <1>3 DEF Bares, Holder, Continues
<1>4. ASSUME NEW p \in Procs, NEW touched \in SUBSET Keys, Publishes(p, touched)
      PROVE  /\ hot'.kind = "ok" /\ hot'.era = e /\ StampOf(hot', k) = s => data'[k] = v
             /\ \A q \in Procs :
                   (/\ Continues(q, e)' /\ k \notin rewrite'[q] \cup unsent'[q] \cup Always
                    /\ StampOf(mem'[q], k) = s) => data'[k] = v
  <2> DEFINE h == Stamp(p, touched)
  <2>1. /\ clock \in Nat /\ eras \in Nat /\ MemOK(mem[p]) /\ rewrite[p] \subseteq Keys
        /\ k \in Keep /\ k \notin strays
    BY <1>4, PlansAreKeys DEF TypeInv, TypeOK, Sane, Publishes
  <2>2. ASSUME h.era = e, StampOf(h, k) = s
        PROVE  data'[k] = v
    <3>1. /\ ~(Overflows(p, touched) \/ NewEra(p)) /\ Continues(p, e) /\ n < NextSeq(p)
      BY <1>4, <2>2, PublishedIsAbove
    <3>2. NextSeq(p) \in Nat
      BY <2>1, NextSeqGrows
    <3>3. k \notin touched \cup rewrite[p]
      <4>1. \A j \in touched \cup rewrite[p] : StampOf(h, j) = NextSeq(p)
        BY <2>1, <3>1, StampGoesOn
      <4> QED
        BY <2>2, <3>1, <3>2, <4>1
    <3>4. StampOf(mem[p], k) = s
      <4>1. \A j \in Keep \ (touched \cup rewrite[p]) : StampOf(h, j) = StampOf(mem[p], j)
        BY <2>1, <3>1, StampGoesOn
      <4> QED
        BY <2>1, <2>2, <3>3, <4>1
    <3>5. k \notin unsent[p] \cup Always /\ data'[k] = data[k]
      BY <1>4, <3>3 DEF Publishes
    <3> QED
      BY <2>1, <3>1, <3>3, <3>4, <3>5 DEF Pinned
  <2>3. ASSUME NEW q \in Procs, Continues(q, e)', k \notin rewrite'[q] \cup unsent'[q] \cup Always,
               StampOf(mem'[q], k) = s
        PROVE  data'[k] = v
    <3>1. q = p /\ mem'[p].seen = e /\ mem'[p].seq # None
      BY <1>4, <2>3 DEF Publishes, Holder, Continues
    <3>2. CASE mem'[p] = AfterStamped(p, touched)
      <4>1. mem'[p].seen = h.era /\ StampOf(mem'[p], k) = StampOf(h, k)
        BY <2>1, <3>2, WriterKnows
      <4> QED
        BY <2>2, <2>3, <3>1, <4>1
    <3>3. CASE mem'[p] = mem[p] /\ rewrite'[p] = rewrite[p] /\ unsent'[p] = touched
      <4>1. Continues(p, e) /\ k \notin rewrite[p] \cup unsent[p] \cup Always /\ StampOf(mem[p], k) = s
        BY <1>4, <2>3, <3>1, <3>3 DEF Publishes, Holder, Continues
      <4>2. data'[k] = data[k]
        BY <1>4, <2>3, <3>1, <3>3 DEF Publishes
      <4> QED
        BY <2>1, <4>1, <4>2 DEF Pinned
    <3> QED
      BY <1>4, <3>2, <3>3 DEF Publishes
  <2> QED
    BY <1>4, <2>2, <2>3 DEF Publishes
<1>5. ASSUME NEW p \in Procs, NEW key \in Keys, Groups(p, key)
      PROVE  /\ hot'.kind = "ok" /\ hot'.era = e /\ StampOf(hot', k) = s => data'[k] = v
             /\ \A q \in Procs :
                   (/\ Continues(q, e)' /\ k \notin rewrite'[q] \cup unsent'[q] \cup Always
                    /\ StampOf(mem'[q], k) = s) => data'[k] = v
  <2>1. ASSUME NEW q \in Procs, Continues(q, e)', k \notin rewrite'[q] \cup unsent'[q] \cup Always,
               StampOf(mem'[q], k) = s
        PROVE  data'[k] = v
    <3>1. /\ q = p /\ Continues(p, e) /\ StampOf(mem[p], k) = s
      BY <1>5, <2>1 DEF Groups, Holder, Continues
    <3>2. k # key /\ k \notin strays /\ k \notin Always
      BY <1>5, <2>1, <3>1 DEF Groups
    <3>3. k \notin rewrite[p] \cup unsent[p] /\ data'[k] = data[k]
      BY <1>5, <2>1, <3>1, <3>2 DEF Groups
    <3> QED
      BY <3>1, <3>2, <3>3 DEF Pinned
  <2> QED
    BY <1>5, <2>1 DEF Groups
<1>6. ASSUME NEW p \in Procs, NEW wrote \in SUBSET Keys, GivesUp(p, wrote)
      PROVE  /\ hot'.kind = "ok" /\ hot'.era = e /\ StampOf(hot', k) = s => data'[k] = v
             /\ \A q \in Procs :
                   (/\ Continues(q, e)' /\ k \notin rewrite'[q] \cup unsent'[q] \cup Always
                    /\ StampOf(mem'[q], k) = s) => data'[k] = v
  <2>1. ASSUME NEW q \in Procs, Continues(q, e)',
               k \notin rewrite'[q] \cup unsent'[q] \cup Always, StampOf(mem'[q], k) = s
        PROVE  data'[k] = v
    <3>1. /\ q = p /\ Continues(p, e) /\ StampOf(mem[p], k) = s
      BY <1>6, <2>1 DEF GivesUp, Holder, Continues
    <3>2. k \notin rewrite[p] \cup unsent[p] \cup Always \cup wrote /\ k \notin strays
      BY <1>6, <2>1, <3>1 DEF GivesUp
    <3>3. data'[k] = data[k]
      BY <1>6, <3>2 DEF GivesUp
    <3> QED
      BY <3>1, <3>2, <3>3 DEF Pinned
  <2>2. ASSUME hot'.kind = "ok", hot'.era = e, StampOf(hot', k) = s PROVE data'[k] = v
    <3>1. hot' = hot /\ wrote = {} /\ k \notin strays
      BY <1>6, <2>2 DEF GivesUp
    <3>2. data'[k] = data[k]
      BY <1>6, <3>1 DEF GivesUp
    <3> QED
      BY <2>2, <3>1, <3>2 DEF Pinned
  <2> QED
    BY <2>1, <2>2
<1> QED
  BY <1>1, <1>2, <1>3, <1>4, <1>5, <1>6 DEF Moves

-----------------------------------------------------------------------------
(* The invariant is inductive.                                               *)

IInv ==
    /\ TypeInv /\ Sane /\ HolderKnows /\ HotIsLast
    /\ \A p \in Procs : Reads(p) /\ Caches(p)
    /\ PlansPass /\ LoadIsTrue

LEMMA InitHolds == Init => IInv
<1> SUFFICES ASSUME Init PROVE IInv
  OBVIOUS
<1>1. IsStamp(Unstamped)
  BY DEF IsStamp, Unstamped, NoMap
<1>2. TypeInv
  BY <1>1 DEF Init, TypeInv, TypeOK, NoMemory, MemFields
<1>3. Sane
  BY DEF Init, Sane, StampOK, MemOK, Unstamped, NoMemory
<1>4. \A p \in Procs : pc[p] = "idle" /\ owner # p
  BY KeysAssumption DEF Init
<1>5. HolderKnows /\ HotIsLast /\ PlansPass /\ LoadIsTrue
  BY <1>4 DEF HolderKnows, HotIsLast, PlansPass, LoadIsTrue, Init, Unstamped
<1>6. \A p \in Procs : Reads(p) /\ Caches(p)
  BY <1>4 DEF Reads, Caches
<1> QED
  BY <1>2, <1>3, <1>5, <1>6 DEF IInv

(* What a flush can hold are keys.                                           *)
LEMMA TouchesAreKeys ==
  ASSUME TypeOK, NEW p \in Procs, NEW touched \in Touches(p)
  PROVE  touched \in SUBSET Keys /\ unsent[p] \cup Always \subseteq touched
  BY PlansAreKeys, KeysAssumption DEF Touches, TypeOK, Keys

(* The stamp of a flush is one, of an era that was handed out.                 *)
LEMMA StampIsStamp ==
  ASSUME TypeInv, Sane, NEW p \in Procs, NEW touched \in SUBSET Keys,
         eras' = IF Overflows(p, touched) \/ NewEra(p) THEN eras + 1 ELSE eras
  PROVE  /\ IsStamp(Stamp(p, touched)) /\ eras' \in Nat /\ eras' >= eras
         /\ Stamp(p, touched).kind = "ok" /\ Stamp(p, touched).seq = NextSeq(p)
         /\ Stamp(p, touched).era \in 1..eras'
         /\ Stamp(p, touched).base <= Stamp(p, touched).seq
         /\ \A k \in DOMAIN Stamp(p, touched).keySeq :
               Stamp(p, touched).keySeq[k] <= Stamp(p, touched).seq
<1> DEFINE h == Stamp(p, touched)
<1>1. /\ clock \in Nat /\ eras \in Nat /\ MemOK(mem[p]) /\ rewrite[p] \subseteq Keys
  BY DEF TypeInv, TypeOK, Sane
<1>2. /\ NextSeq(p) \in Nat
  BY <1>1, NextSeqGrows
<1>3. /\ h.kind = "ok" /\ h.seq = NextSeq(p) /\ h.base \in 0..NextSeq(p)
      /\ h.keySeq = [k \in DOMAIN h.keySeq |-> h.keySeq[k]]
      /\ DOMAIN h.keySeq \subseteq Keys
      /\ \A k \in DOMAIN h.keySeq : h.keySeq[k] \in 0..NextSeq(p)
  BY <1>1, StampGoesOn
<1>4. h.era \in 1..eras'
  <2>1. CASE Overflows(p, touched) \/ NewEra(p)
    <3>1. h.era = eras + 1
      BY <1>1, <2>1, StampGoesOn
    <3>2. eras' = eras + 1
      BY <2>1
    <3> QED
      BY <1>1, <3>1, <3>2
  <2>2. CASE ~(Overflows(p, touched) \/ NewEra(p))
    <3>1. h.era = mem[p].seen /\ mem[p].seq # None
      BY <1>1, <2>2, StampGoesOn
    <3>2. eras' = eras
      BY <2>2
    <3> QED
      BY <1>1, <3>1, <3>2 DEF MemOK
  <2> QED
    BY <2>1, <2>2
<1>5. h.keySeq \in [DOMAIN h.keySeq -> Nat]
  BY <1>2, <1>3
<1> QED
  BY <1>1, <1>2, <1>3, <1>4, <1>5 DEF IsStamp

(* A process that is not at work keeps what it has.                           *)
Rests(q) ==
    /\ pc'[q] = pc[q] /\ mem'[q] = mem[q] /\ cache'[q] = cache[q] /\ token'[q] = token[q]
    /\ merged'[q] = merged[q] /\ retryAt'[q] = retryAt[q] /\ rewrite'[q] = rewrite[q]
    /\ unsent'[q] = unsent[q] /\ loaded'[q] = loaded[q]

Loads(p) ==
    \/ WarmStart(p) \/ WarmRings(p) \/ Acquire(p)
    \/ ReadToken(p) \/ ReadMoved(p) \/ ReadRings(p) \/ Confirm(p)
    \/ FullStrings(p) \/ FullRings(p)

Saves(p) ==
    \/ Flush(p) \/ FlushUnstamped(p) \/ FlushReplyLost(p) \/ LeaseLost(p)
    \/ Strip(p) \/ StripReplyLost(p) \/ GroupWrite(p) \/ GroupReplyLost(p)
    \/ Release(p)

Fails(p) == StripReplyLost(p) \/ GroupReplyLost(p)

(* The two ways a grouped save is given up.                                   *)
LEMMA SavesGivenUp ==
  ASSUME NEW p \in Procs, Fails(p)
  PROVE  \E wrote \in SUBSET Keys :
            /\ GivenUp(p, wrote) /\ pc[p] \in Holding
            /\ \/ wrote = {} /\ UNCHANGED <<data, writes>> /\ hot' \in {hot, Unstamped}
               \/ Written(wrote) /\ pc[p] = "grouping" /\ hot' = hot
            /\ wrote = {} => pc[p] = "grouping" \/ retryAt[p] <= clock
<1>1. CASE StripReplyLost(p)
  BY <1>1 DEF StripReplyLost, Holding
<1>2. CASE GroupReplyLost(p)
  <2>1. CASE \E k \in Keys : Grouped(p, k) /\ GivenUp(p, {k})
    BY <1>2, <2>1 DEF GroupReplyLost, Grouped, Holding
  <2>2. CASE UNCHANGED <<data, writes>> /\ GivenUp(p, {})
    BY <1>2, <2>2 DEF GroupReplyLost, Holding
  <2> QED
    BY <1>2, <2>1, <2>2 DEF GroupReplyLost
<1> QED
  BY <1>1, <1>2 DEF Fails

LEMMA OthersRest ==
  ASSUME TypeInv, NEW p \in Procs, Step(p), NEW q \in Procs, q # p
  PROVE  Rests(q)
<1> USE DEF TypeInv, TypeOK, Rests, Goto
<1>1. CASE WarmStart(p) \/ FullStrings(p)
  BY <1>1 DEF WarmStart, FullStrings, LoadStrings
<1>2. CASE WarmRings(p)
  BY <1>2 DEF WarmRings, Remember
<1>3. CASE Acquire(p) \/ ReadToken(p) \/ ReadMoved(p) \/ ReadRings(p)
  BY <1>3 DEF Acquire, ReadToken, ReadMoved, ReadRings
<1>4. CASE Confirm(p) \/ FullRings(p)
  BY <1>4 DEF Confirm, FullRings, Install
<1>5. CASE Flush(p) \/ FlushUnstamped(p) \/ FlushReplyLost(p)
  BY <1>5 DEF Flush, FlushUnstamped, FlushReplyLost
<1>6. CASE LeaseLost(p) \/ Release(p)
  BY <1>6 DEF LeaseLost, Release, Ends
<1>7. CASE Strip(p) \/ StripReplyLost(p) \/ GroupWrite(p) \/ GroupReplyLost(p)
  BY <1>7 DEF Strip, StripReplyLost, GroupWrite, GroupReplyLost, GivenUp
<1> QED
  BY <1>1, <1>2, <1>3, <1>4, <1>5, <1>6, <1>7 DEF Step

LEMMA NextRests ==
  ASSUME TypeInv, Next, NEW q \in Procs
  PROVE  Rests(q) \/ Loads(q) \/ Saves(q)
<1>1. CASE Tick \/ Lapse
  BY <1>1 DEF Tick, Lapse, Rests, locals, stored
<1>2. ASSUME NEW p \in Procs, Step(p) PROVE Rests(q) \/ Loads(q) \/ Saves(q)
  BY <1>2, OthersRest DEF Step, Loads, Saves
<1> QED
  BY <1>1, <1>2 DEF Next

(* A load leaves a sane memory.                                              *)
LEMMA LoadIsSane ==
  ASSUME TypeInv, Sane, NEW p \in Procs, pc[p] \notin Holding, NEW h, IsStamp(h), StampOK(h)
  PROVE  LET n == Remembered(mem[p], Classified(h))
         IN DOMAIN n = MemFields /\ MemOK(n) /\ n.era = None /\ ~n.fresh
<1> DEFINE n == Remembered(mem[p], Classified(h))
<1>1. /\ eras \in Nat /\ mem[p].era = None /\ ~mem[p].fresh /\ DOMAIN mem[p] = MemFields
  BY DEF TypeInv, TypeOK, Sane
<1>2. /\ DOMAIN n = MemFields
      /\ n.era = mem[p].era /\ n.fresh = mem[p].fresh
      /\ IF n.seq = None
         THEN n.seen = None /\ n.base = None /\ n.keySeq = None
         ELSE /\ h.kind = "ok"
              /\ n.seq = h.seq /\ n.seen = h.era /\ n.base = h.base
              /\ n.keySeq = [k \in Plan |-> StampOf(h, k)] /\ n.keySeq # None
              /\ \A k \in Plan : n.keySeq[k] \in 0..h.seq
  BY <1>1, LoadRemembers
<1>3. CASE n.seq = None
  BY <1>1, <1>2, <1>3 DEF MemOK
<1>4. CASE n.seq # None
  <2>1. DOMAIN n.keySeq = Plan /\ Plan \subseteq Keys
    BY <1>2, <1>4, PlansAreKeys
  <2>2. h.seq \in Nat /\ h.era \in 1..eras /\ h.base \in 0..h.seq
    BY <1>2, <1>4 DEF IsStamp, StampOK
  <2>3. /\ n.seq = h.seq /\ n.seen = h.era /\ n.base = h.base /\ n.keySeq # None
        /\ \A k \in Plan : n.keySeq[k] \in 0..h.seq
    BY <1>2, <1>4
  <2>4. MemOK(n)
    BY <1>1, <1>2, <1>4, <2>1, <2>2, <2>3 DEF MemOK
  <2> QED
    BY <1>1, <1>2, <2>4
<1> QED
  BY <1>3, <1>4

(* The parts of TypeInv and Sane that are about one process.                   *)
Fine(q) ==
    /\ IsStamp(token[q]) /\ StampOK(token[q])
    /\ DOMAIN mem[q] = MemFields /\ MemOK(mem[q])
    /\ pc[q] \notin Holding => mem[q].era = None /\ ~mem[q].fresh
    /\ rewrite[q] \in SUBSET Keys /\ unsent[q] \in SUBSET Keys /\ retryAt[q] \in Nat

Framed ==
    /\ DOMAIN pc = Procs /\ DOMAIN mem = Procs /\ DOMAIN cache = Procs
    /\ DOMAIN token = Procs /\ DOMAIN merged = Procs /\ DOMAIN loaded = Procs
    /\ rewrite = [q \in Procs |-> rewrite[q]] /\ unsent = [q \in Procs |-> unsent[q]]
    /\ retryAt = [q \in Procs |-> retryAt[q]]

Shared ==
    /\ clock \in Nat /\ owner \in Procs \cup {None}
    /\ IsStamp(hot) /\ StampOK(hot)
    /\ data \in [Keys -> Nat] /\ writes \in Nat /\ eras \in Nat /\ strays \subseteq Keys
    /\ \A k \in Keys : data[k] <= writes

LEMMA SaneInParts == (TypeInv /\ Sane) <=> (Framed /\ Shared /\ \A q \in Procs : Fine(q))
  BY DEF TypeInv, TypeOK, Sane, Framed, Shared, Fine

LEMMA FramesLast == ASSUME Framed, Next PROVE Framed'
<1> USE DEF Framed, Goto
<1>1. CASE Tick \/ Lapse
  BY <1>1 DEF Tick, Lapse, locals, stored
<1>2. ASSUME NEW p \in Procs, Step(p) PROVE Framed'
  <2>1. CASE WarmStart(p) \/ FullStrings(p)
    BY <2>1 DEF WarmStart, FullStrings, LoadStrings
  <2>2. CASE WarmRings(p)
    BY <2>2 DEF WarmRings, Remember
  <2>3. CASE Acquire(p) \/ ReadToken(p) \/ ReadMoved(p) \/ ReadRings(p)
    BY <2>3 DEF Acquire, ReadToken, ReadMoved, ReadRings
  <2>4. CASE Confirm(p) \/ FullRings(p)
    BY <2>4 DEF Confirm, FullRings, Install
  <2>5. CASE Flush(p) \/ FlushUnstamped(p) \/ FlushReplyLost(p)
    BY <2>5 DEF Flush, FlushUnstamped, FlushReplyLost
  <2>6. CASE LeaseLost(p) \/ Release(p)
    BY <2>6 DEF LeaseLost, Release, Ends
  <2>7. CASE Strip(p) \/ StripReplyLost(p) \/ GroupWrite(p) \/ GroupReplyLost(p)
    BY <2>7 DEF Strip, StripReplyLost, GroupWrite, GroupReplyLost, GivenUp
  <2> QED
    BY <1>2, <2>1, <2>2, <2>3, <2>4, <2>5, <2>6, <2>7 DEF Step
<1> QED
  BY <1>1, <1>2 DEF Next

LEMMA SharedLasts ==
  ASSUME TypeInv, Sane, Next
  PROVE  Shared' /\ eras' >= eras
<1>1. Shared /\ clock \in Nat /\ eras \in Nat /\ writes \in Nat
  BY SaneInParts DEF Shared
<1>2. CASE Tick \/ Lapse
  BY <1>1, <1>2 DEF Tick, Lapse, Shared, StampOK, stored
<1>3. ASSUME NEW p \in Procs, Loads(p) PROVE Shared' /\ eras' >= eras
  <2>1. clock' = clock /\ owner' \in {owner, p} /\ UNCHANGED <<hot, data, writes, eras, strays>>
    BY <1>3 DEF Loads, WarmStart, FullStrings, LoadStrings, WarmRings, Acquire, ReadToken,
                ReadMoved, ReadRings, Confirm, FullRings, stored
  <2> QED
    BY <1>1, <2>1 DEF Shared, StampOK
<1>4. IsStamp(Unstamped) /\ StampOK(Unstamped)
  BY DEF IsStamp, StampOK, Unstamped, NoMap
<1>5. ASSUME NEW p \in Procs, Saves(p) PROVE Shared' /\ eras' >= eras
  <2>1. ASSUME NEW keys, Written(keys)
        PROVE  /\ data' \in [Keys -> Nat] /\ writes' \in Nat
               /\ \A k \in Keys : data'[k] <= writes'
    BY <1>1, <2>1 DEF Written, Shared
  <2>2. ASSUME NEW touched \in SUBSET Keys, Stamped(p, touched)
        PROVE  IsStamp(hot') /\ StampOK(hot)' /\ eras' \in Nat /\ eras' >= eras
    <3>1. eras' = IF Overflows(p, touched) \/ NewEra(p) THEN eras + 1 ELSE eras
      BY <2>2 DEF Stamped
    <3>2. hot' = Stamp(p, touched)
      BY <2>2 DEF Stamped
    <3> QED
      BY <3>1, <3>2, StampIsStamp DEF StampOK
  <2>3. ASSUME Refused(p)
        PROVE  IsStamp(hot') /\ StampOK(hot)' /\ eras' \in Nat /\ eras' >= eras
    BY <1>1, <1>4, <2>3 DEF Refused, StampOK
  <2>4. CASE Flush(p) \/ FlushReplyLost(p)
    <3>1. PICK touched \in Touches(p) : Written(touched) /\ (Stamped(p, touched) \/ Refused(p))
      BY <2>4 DEF Flush, FlushReplyLost
    <3>2. UNCHANGED <<clock, owner, strays>>
      BY <2>4 DEF Flush, FlushReplyLost
    <3>3. touched \in SUBSET Keys
      BY TouchesAreKeys DEF TypeInv
    <3> QED
      BY <1>1, <2>1, <2>2, <2>3, <3>1, <3>2, <3>3 DEF Shared
  <2>5. CASE FlushUnstamped(p)
    <3>1. PICK touched \in Touches(p) : Written(touched)
      BY <2>5 DEF FlushUnstamped
    <3>2. UNCHANGED <<clock, owner, strays, eras>> /\ hot' = Unstamped
      BY <2>5 DEF FlushUnstamped
    <3> QED
      BY <1>1, <1>4, <2>1, <3>1, <3>2 DEF Shared, StampOK
  <2>6. CASE Strip(p)
    BY <1>1, <1>4, <2>6 DEF Strip, Shared, StampOK
  <2>7. CASE GroupWrite(p)
    <3>1. PICK k \in Keys : Written({k})
      BY <2>7 DEF GroupWrite, Grouped
    <3>2. UNCHANGED <<clock, owner, hot, eras, strays>>
      BY <2>7 DEF GroupWrite
    <3> QED
      BY <1>1, <2>1, <3>1, <3>2 DEF Shared, StampOK
  <2>9. CASE Fails(p)
    <3>1. PICK wrote \in SUBSET Keys :
             /\ GivenUp(p, wrote) /\ hot' \in {hot, Unstamped}
             /\ Written(wrote) \/ UNCHANGED <<data, writes>>
      BY <2>9, SavesGivenUp
    <3>2. UNCHANGED <<clock, owner, eras>> /\ strays' \subseteq Keys
      BY <1>1, <3>1 DEF GivenUp, Shared, TypeInv, TypeOK
    <3> QED
      BY <1>1, <1>4, <2>1, <3>1, <3>2 DEF Shared, StampOK
  <2>8. CASE LeaseLost(p) \/ Release(p)
    BY <1>1, <2>8 DEF LeaseLost, Release, Shared, StampOK, stored
  <2> QED
    BY <1>5, <2>4, <2>5, <2>6, <2>7, <2>8, <2>9 DEF Saves, Fails
<1> QED
  BY <1>2, <1>3, <1>5 DEF Next, Step, Loads, Saves

LEMMA FineLasts ==
  ASSUME TypeInv, Sane, Next, NEW p \in Procs
  PROVE  Fine(p)'
<1>1. Fine(p) /\ Framed /\ Shared /\ eras \in Nat /\ clock \in Nat
  BY SaneInParts DEF Shared
<1>2. eras' \in Nat /\ eras' >= eras
  BY SharedLasts DEF Shared
<1>3. IsStamp(Unstamped) /\ StampOK(Unstamped)'
  BY DEF IsStamp, StampOK, Unstamped, NoMap
<1>4. DOMAIN NoMemory = MemFields /\ MemOK(NoMemory)' /\ NoMemory.era = None /\ ~NoMemory.fresh
  BY DEF NoMemory, MemFields, MemOK
<1>5. CASE Rests(p)
  BY <1>1, <1>2, <1>5 DEF Rests, Fine, StampOK, MemOK, IsStamp
<1>6. CASE Loads(p)
  <2>1. pc[p] \notin Holding /\ UNCHANGED <<retryAt, rewrite, unsent, hot, eras>>
    BY <1>6 DEF Loads, WarmStart, FullStrings, LoadStrings, WarmRings, Acquire, ReadToken,
                ReadMoved, ReadRings, Confirm, FullRings, stored, Goto, Holding
  <2>2. token'[p] \in {token[p], hot, Unstamped}
    BY <1>1, <1>6 DEF Loads, WarmStart, FullStrings, LoadStrings, WarmRings, Acquire, ReadToken,
                ReadMoved, ReadRings, Confirm, FullRings, Install, Framed
  <2>3. IsStamp(token'[p]) /\ StampOK(token[p])'
    BY <1>1, <1>3, <2>1, <2>2 DEF Fine, Shared, StampOK
  <2>4. \/ mem'[p] = mem[p]
        \/ mem'[p] = Remembered(mem[p], Classified(token[p]))
        \/ mem'[p] = Remembered(mem[p], Classified(hot))
    BY <1>1, <1>6 DEF Loads, WarmStart, FullStrings, LoadStrings, WarmRings, Acquire, ReadToken,
                ReadMoved, ReadRings, Confirm, FullRings, Install, Remember, Framed
  <2>5. DOMAIN mem'[p] = MemFields /\ MemOK(mem'[p]) /\ mem'[p].era = None /\ ~mem'[p].fresh
    BY <1>1, <2>1, <2>4, LoadIsSane DEF Fine, Shared
  <2>6. MemOK(mem[p])'
    BY <2>1, <2>5 DEF MemOK
  <2> QED
    BY <1>1, <2>1, <2>3, <2>5, <2>6 DEF Fine
<1>7. CASE Saves(p)
  <2>1. token' = token /\ pc[p] \in Holding
    BY <1>7 DEF Saves, Flush, FlushUnstamped, FlushReplyLost, LeaseLost, Strip, StripReplyLost,
                GroupWrite, GroupReplyLost, Grouped, GivenUp, Release, Ready, Goto, Holding
  <2>2. IsStamp(token'[p]) /\ StampOK(token[p])'
    BY <1>1, <1>2, <2>1 DEF Fine, StampOK, IsStamp
  <2>3. MemOK(mem[p]) /\ rewrite[p] \subseteq Keys
    BY <1>1 DEF Fine
  <2>4. ASSUME mem'[p] = [mem[p] EXCEPT !.bare = TRUE] \/ mem'[p] = mem[p]
        PROVE  DOMAIN mem'[p] = MemFields /\ MemOK(mem[p])'
    BY <1>1, <1>2, <2>4 DEF Fine, MemOK, MemFields
  <2>5. ASSUME mem'[p] \in {AfterRefused, [AfterRefused EXCEPT !.bare = mem[p].bare],
                            AfterUnstamped(p)}
        PROVE  DOMAIN mem'[p] = MemFields /\ MemOK(mem[p])'
    BY <1>4, <2>5 DEF AfterRefused, AfterUnstamped, MemOK, MemFields, NoMemory
  <2>6. ASSUME NEW touched \in SUBSET Keys, Stamped(p, touched), mem'[p] = AfterStamped(p, touched)
        PROVE  DOMAIN mem'[p] = MemFields /\ MemOK(mem[p])'
    <3>1. eras' = IF Overflows(p, touched) \/ NewEra(p) THEN eras + 1 ELSE eras
      BY <2>6 DEF Stamped
    <3>2. Stamp(p, touched).era \in 1..eras'
      BY <3>1, StampIsStamp
    <3>3. /\ DOMAIN mem'[p] = MemFields /\ mem'[p].seq = NextSeq(p)
          /\ mem'[p].seen = Stamp(p, touched).era /\ mem'[p].era = mem'[p].seen
          /\ ~mem'[p].fresh
          /\ mem'[p].base \in 0..NextSeq(p) /\ mem'[p].keySeq # None
          /\ DOMAIN mem'[p].keySeq \subseteq Keys
          /\ \A k \in DOMAIN mem'[p].keySeq : mem'[p].keySeq[k] \in 0..NextSeq(p)
      BY <1>1, <2>3, <2>6, WriterKnows
    <3>4. NextSeq(p) \in Nat
      BY <1>1, <2>3, NextSeqGrows
    <3> QED
      BY <3>2, <3>3, <3>4, KeysAssumption DEF MemOK
  <2>7. CASE Flush(p)
    <3>1. PICK touched \in Touches(p) :
             \/ Stamped(p, touched) /\ mem'[p] = AfterStamped(p, touched)
                /\ rewrite'[p] = {}
             \/ mem'[p] = AfterRefused /\ rewrite'[p] = rewrite[p]
      BY <1>1, <2>7 DEF Flush, Framed
    <3>2. pc'[p] \in Holding /\ unsent'[p] = {} /\ retryAt' = retryAt
      BY <1>1, <2>7 DEF Flush, Framed, Holding
    <3>3. touched \in SUBSET Keys
      BY TouchesAreKeys DEF TypeInv
    <3> QED
      BY <1>1, <2>2, <2>5, <2>6, <3>1, <3>2, <3>3 DEF Fine
  <2>8. CASE FlushUnstamped(p)
    BY <1>1, <2>2, <2>5, <2>8 DEF FlushUnstamped, Framed, Fine, Holding
  <2>9. CASE FlushReplyLost(p)
    <3>1. PICK touched \in Touches(p) :
             /\ unsent'[p] = touched
             /\ mem'[p] \in {mem[p], [AfterRefused EXCEPT !.bare = mem[p].bare]}
      BY <1>1, <2>9 DEF FlushReplyLost, Framed
    <3>2. /\ pc'[p] \in Holding /\ rewrite' = rewrite /\ retryAt'[p] = clock + RetryTicks
      BY <1>1, <2>9 DEF FlushReplyLost, Framed, Holding
    <3>3. touched \in SUBSET Keys /\ clock + RetryTicks \in Nat
      BY <1>1, TouchesAreKeys, NumbersAssumption DEF TypeInv
    <3> QED
      BY <1>1, <2>2, <2>4, <2>5, <3>1, <3>2, <3>3 DEF Fine
  <2>10. CASE LeaseLost(p) \/ Release(p)
    BY <1>1, <1>4, <2>2, <2>10 DEF LeaseLost, Release, Ends, Framed, Fine, MemOK
  <2>11. CASE Strip(p)
    BY <1>1, <2>2, <2>4, <2>11 DEF Strip, Framed, Fine, Holding, Goto
  <2>12. CASE GroupWrite(p)
    <3>1. PICK k \in Keys :
             rewrite'[p] = rewrite[p] \cup {k} /\ unsent'[p] = unsent[p] \ {k}
      BY <1>1, <2>12 DEF GroupWrite, Framed
    <3>2. UNCHANGED <<mem, pc, retryAt>>
      BY <2>12 DEF GroupWrite
    <3> QED
      BY <1>1, <2>2, <2>4, <3>1, <3>2, <2>1 DEF Fine
  <2>13. CASE Fails(p)
    <3>1. PICK wrote \in SUBSET Keys : GivenUp(p, wrote)
      BY <2>13, SavesGivenUp
    <3>2. /\ mem' = mem /\ rewrite' = rewrite /\ unsent'[p] = {} /\ pc'[p] = "holding"
          /\ retryAt'[p] = clock + RetryTicks
      BY <1>1, <3>1 DEF GivenUp, Framed
    <3>3. retryAt'[p] \in Nat /\ pc'[p] \in Holding
      BY <1>1, <3>2, NumbersAssumption DEF Holding
    <3> QED
      BY <1>1, <2>2, <2>4, <3>2, <3>3 DEF Fine
  <2> QED
    BY <1>7, <2>7, <2>8, <2>9, <2>10, <2>11, <2>12, <2>13 DEF Saves, Fails
<1> QED
  BY <1>5, <1>6, <1>7, NextRests

LEMMA TypesLast == TypeInv /\ Sane /\ Next => TypeInv' /\ Sane'
<1> SUFFICES ASSUME TypeInv, Sane, Next PROVE TypeInv' /\ Sane'
  OBVIOUS
<1>1. Framed' /\ Shared' /\ \A q \in Procs : Fine(q)'
  BY FramesLast, SharedLasts, FineLasts, SaneInParts
<1> QED
  BY <1>1 DEF TypeInv, TypeOK, Sane, Framed, Shared, Fine

(* Who loads changes nothing that is stored, and a load under the lease that    *)
(* ends with a sequence has that of p6:hot.                                  *)
LEMMA LoadsMove ==
  ASSUME TypeInv, Sane, HolderKnows, NEW p \in Procs, Loads(p)
  PROVE  Moves
<1>1. Fine(p) /\ Framed /\ Shared
  BY SaneInParts
<1>2. /\ UNCHANGED <<hot, data, eras, strays>>
      /\ \A q \in Procs \ {p} : owner' = q => owner = q
  BY DEF Loads, WarmStart, FullStrings, LoadStrings, WarmRings, Acquire, ReadToken,
         ReadMoved, ReadRings, Confirm, FullRings, stored
<1>3. \A q \in Procs \ {p} : Rests(q)
  BY OthersRest DEF Step, Loads
<1>4. CASE pc'[p] \notin Holding
  BY <1>2, <1>3, <1>4 DEF Moves, Quiet, Rests
<1>5. CASE pc'[p] \in Holding
  <2>1. /\ \/ Confirm(p) /\ hot = token[p]
           \/ FullRings(p)
        /\ owner' = owner
    BY <1>1, <1>5 DEF Loads, WarmStart, FullStrings, LoadStrings, WarmRings, Acquire, ReadToken,
            ReadMoved, ReadRings, Confirm, FullRings, Goto, Framed, Holding, stored
  <2>2. mem'[p] = Remembered(mem[p], Classified(token[p]))
    BY <1>1, <2>1 DEF Confirm, FullRings, Install, Framed
  <2>3. CASE owner # p \/ mem'[p].seq = None
    BY <1>2, <1>3, <2>1, <2>3 DEF Moves, Quiet, Rests
  <2>4. CASE owner = p /\ mem'[p].seq # None
    <3>1. token[p] = hot
      BY <2>1, <2>4 DEF HolderKnows, FullRings, Goto
    <3>2. /\ hot.kind = "ok" /\ mem'[p].seq = hot.seq /\ mem'[p].seen = hot.era
          /\ mem'[p].keySeq = [k \in Plan |-> StampOf(hot, k)]
      BY <1>1, <2>2, <2>4, <3>1, LoadRemembers DEF Fine, Shared
    <3> QED
      BY <1>2, <2>1, <2>4, <3>2 DEF Moves, Installs, Holder
  <2> QED
    BY <2>3, <2>4
<1> QED
  BY <1>4, <1>5

LEMMA SavesMove ==
  ASSUME Steady, TypeInv, Sane, HolderKnows, NEW p \in Procs, Saves(p)
  PROVE  Moves
<1>1. Fine(p) /\ Framed /\ Shared
  BY SaneInParts
<1>2. \A q \in Procs \ {p} : Rests(q) /\ (owner' = q => owner = q)
  <2>1. owner' \in {owner, None}
    BY DEF Saves, Flush, FlushUnstamped, FlushReplyLost, LeaseLost, Strip,
           StripReplyLost, GroupWrite, GroupReplyLost, GivenUp, Release, stored
  <2> QED
    BY <2>1, OthersRest, KeysAssumption DEF Step, Saves
<1>3. /\ clock \in Nat /\ retryAt[p] \in Nat /\ MemOK(mem[p]) /\ rewrite[p] \subseteq Keys
  BY <1>1 DEF Fine, Shared
<1>4. CASE Flush(p)
  <2>1. PICK touched \in Touches(p) :
           /\ Written(touched)
           /\ \/ Stamped(p, touched) /\ mem'[p] = AfterStamped(p, touched)
              \/ Refused(p) /\ mem'[p] = AfterRefused
    BY <1>1, <1>4 DEF Flush, Framed
  <2>2. /\ Holder(p) /\ pc[p] \in Holding /\ retryAt[p] <= clock /\ retryAt' = retryAt
        /\ strays' = strays
    BY <1>3, <1>4 DEF Flush, Holder, Ready, Holding
  <2>3. touched \in SUBSET Keys /\ unsent[p] \cup Always \subseteq touched
    BY TouchesAreKeys DEF TypeInv
  <2>4. CASE Stamped(p, touched) /\ mem'[p] = AfterStamped(p, touched)
    BY <1>3, <2>1, <2>2, <2>3, <2>4 DEF Moves, Publishes, Stamped, Written
  <2>5. CASE Refused(p) /\ mem'[p] = AfterRefused
    BY <2>2, <2>5 DEF Moves, Bares, Refused, Unstamped, AfterRefused, NoMemory
  <2> QED
    BY <2>1, <2>4, <2>5
<1>5. CASE FlushReplyLost(p)
  <2>1. PICK touched \in Touches(p) :
           /\ Written(touched) /\ unsent'[p] = touched
           /\ \/ Stamped(p, touched) /\ mem'[p] = mem[p]
              \/ Refused(p) /\ mem'[p] = [AfterRefused EXCEPT !.bare = mem[p].bare]
    BY <1>1, <1>5 DEF FlushReplyLost, Framed
  <2>2. /\ Holder(p) /\ pc[p] \in Holding /\ retryAt[p] <= clock
        /\ retryAt'[p] = clock + RetryTicks
        /\ strays' = strays /\ rewrite' = rewrite /\ NextSeq(p) = clock
    BY <1>1, <1>3, <1>5 DEF FlushReplyLost, Holder, Ready, Holding, Framed, Steady
  <2>3. touched \in SUBSET Keys /\ unsent[p] \cup Always \subseteq touched
    BY TouchesAreKeys DEF TypeInv
  <2>4. retryAt'[p] \in Nat /\ NextSeq(p) < retryAt'[p]
    BY <1>3, <2>2, NumbersAssumption
  <2>5. CASE Stamped(p, touched) /\ mem'[p] = mem[p]
    <3>1. Publishes(p, touched)
      BY <2>1, <2>2, <2>3, <2>4, <2>5 DEF Publishes, Stamped, Written
    <3> QED
      BY <2>3, <3>1 DEF Moves
  <2>6. CASE Refused(p) /\ mem'[p] = [AfterRefused EXCEPT !.bare = mem[p].bare]
    BY <2>2, <2>6 DEF Moves, Bares, Refused, Unstamped, AfterRefused, NoMemory
  <2> QED
    BY <2>1, <2>5, <2>6
<1>6. CASE FlushUnstamped(p)
  <2>1. /\ Holder(p) /\ UNCHANGED <<eras, strays>> /\ hot'.kind # "ok"
        /\ mem'[p] = AfterUnstamped(p)
    BY <1>1, <1>6 DEF FlushUnstamped, Holder, Framed, Unstamped
  <2> QED
    BY <2>1 DEF Moves, Bares, AfterUnstamped, NoMemory
<1>7. CASE LeaseLost(p) \/ Release(p)
  BY <1>1, <1>2, <1>7, KeysAssumption
     DEF Moves, Quiet, Rests, LeaseLost, Release, Ends, Framed, Holding, stored
<1>8. CASE Strip(p)
  <2>1. /\ hot' = hot \/ hot'.kind # "ok"
        /\ UNCHANGED <<data, eras, strays, owner, rewrite, unsent, retryAt>>
        /\ pc[p] \in Holding
    BY <1>8 DEF Strip, Unstamped, Holding, Goto
  <2>2. /\ mem'[p].seq = mem[p].seq /\ mem'[p].seen = mem[p].seen
        /\ mem'[p].keySeq = mem[p].keySeq /\ mem'[p].base = mem[p].base
    BY <1>1, <1>8 DEF Strip, Framed, Fine, MemFields
  <2> QED
    BY <1>2, <2>1, <2>2 DEF Moves, Quiet, Rests
<1>9. CASE GroupWrite(p)
  <2>1. PICK k \in Keys :
           /\ Grouped(p, k)
           /\ rewrite'[p] = rewrite[p] \cup {k} /\ unsent'[p] = unsent[p] \ {k}
    BY <1>1, <1>9 DEF GroupWrite, Framed
  <2>2. /\ Holder(p) /\ pc[p] = "grouping" /\ UNCHANGED <<hot, eras, mem, retryAt, strays>>
        /\ data' = [j \in Keys |-> IF j \in {k} THEN writes + 1 ELSE data[j]]
    BY <1>9, <2>1 DEF GroupWrite, Grouped, Holder, Written
  <2>3. hot.kind # "ok"
    BY <2>2 DEF HolderKnows, Holder, Holding
  <2>4. data' = [j \in Keys |-> IF j = k THEN writes + 1 ELSE data[j]]
    BY <2>2
  <2>5. Groups(p, k)
    BY <2>1, <2>2, <2>3, <2>4 DEF Groups, Holding
  <2> QED
    BY <2>5 DEF Moves
<1>10. CASE Fails(p)
  <2>1. PICK wrote \in SUBSET Keys :
           /\ GivenUp(p, wrote) /\ pc[p] \in Holding
           /\ \/ wrote = {} /\ UNCHANGED <<data, writes>> /\ hot' \in {hot, Unstamped}
              \/ Written(wrote) /\ pc[p] = "grouping" /\ hot' = hot
           /\ wrote = {} => pc[p] = "grouping" \/ retryAt[p] <= clock
    BY <1>10, SavesGivenUp
  <2>2. /\ Holder(p) /\ UNCHANGED <<eras, mem, rewrite>> /\ retryAt'[p] = clock + RetryTicks
        /\ strays' = strays \cup ((unsent[p] \cup wrote) \ (rewrite[p] \cup Always))
    BY <1>1, <2>1 DEF GivenUp, Holder, Framed
  <2>3. clock + RetryTicks \in Nat /\ clock < clock + RetryTicks /\ retryAt[p] <= clock
    BY <1>3, <2>1, NumbersAssumption DEF HolderKnows
  <2>4. pc[p] = "grouping" => hot.kind # "ok"
    BY <2>2 DEF HolderKnows, Holder, Holding
  <2>5. (hot' = hot \/ hot'.kind # "ok") /\ (wrote # {} => hot'.kind # "ok")
    BY <2>1, <2>4 DEF Unstamped
  <2>6. \A k \in Keys \ wrote : data'[k] = data[k]
    BY <2>1 DEF Written
  <2>7. GivesUp(p, wrote)
    BY <2>1, <2>2, <2>3, <2>5, <2>6 DEF GivesUp
  <2> QED
    BY <2>7 DEF Moves
<1> QED
  BY <1>4, <1>5, <1>6, <1>7, <1>8, <1>9, <1>10 DEF Saves, Fails

LEMMA NextMoves == ASSUME Steady, TypeInv, Sane, HolderKnows, Next PROVE Moves
<1>1. CASE Tick \/ Lapse
  BY <1>1, KeysAssumption DEF Tick, Lapse, Moves, Quiet, locals, stored
<1> QED
  BY <1>1, LoadsMove, SavesMove DEF Next, Step, Loads, Saves

-----------------------------------------------------------------------------
(* The parts of the invariant, one by one.                                    *)

(* Nobody writes but the holder, and it is not loading then.                   *)
LEMMA OnlyTheHolderWrites ==
  ASSUME TypeInv, Next, NEW p \in Procs, owner' = p
  PROVE  \/ /\ UNCHANGED <<hot, data>> /\ strays \subseteq strays'
            /\ owner = p \/ pc'[p] = "reload"
            /\ Rests(p) \/ Loads(p)
         \/ Saves(p) /\ owner = p /\ pc'[p] \in Holding
<1> DEFINE Goal == \/ /\ UNCHANGED <<hot, data>> /\ strays \subseteq strays'
                      /\ owner = p \/ pc'[p] = "reload"
                      /\ Rests(p) \/ Loads(p)
                   \/ Saves(p) /\ owner = p /\ pc'[p] \in Holding
<1>1. CASE Tick \/ Lapse
  BY <1>1, KeysAssumption DEF Tick, Lapse, Rests, locals, stored
<1>2. ASSUME NEW q \in Procs, Loads(q) PROVE Goal
  <2>1. /\ UNCHANGED <<hot, data, strays>>
        /\ owner' = owner \/ (owner' = q /\ pc'[q] = "reload")
    BY <1>2 DEF Loads, WarmStart, FullStrings, LoadStrings, WarmRings, Acquire, ReadToken,
                ReadMoved, ReadRings, Confirm, FullRings, stored, Goto, TypeInv
  <2> QED
    BY <1>2, <2>1, OthersRest DEF Step, Loads
<1>3. ASSUME NEW q \in Procs, Saves(q) PROVE Goal
  <2>1. owner' \in {owner, None}
    BY <1>3 DEF Saves, Flush, FlushUnstamped, FlushReplyLost, LeaseLost, Strip,
           StripReplyLost, GroupWrite, GroupReplyLost, GivenUp, Release, stored
  <2>2. owner = p
    BY <2>1, KeysAssumption
  <2>3. CASE q = p
    BY <1>3, <2>2, <2>3, KeysAssumption
       DEF Saves, Flush, FlushUnstamped, FlushReplyLost, LeaseLost, Strip,
           StripReplyLost, GroupWrite, GroupReplyLost, GivenUp, Release, Goto, Holding, TypeInv
  <2>4. CASE q # p
    <3>1. UNCHANGED <<hot, data, strays>>
      BY <1>3, <2>2, <2>4, KeysAssumption
         DEF Saves, Flush, FlushUnstamped, FlushReplyLost, LeaseLost, Strip,
             StripReplyLost, GroupWrite, GroupReplyLost, GivenUp, Release, stored
    <3> QED
      BY <1>3, <2>2, <2>4, <3>1, OthersRest DEF Step, Saves
  <2> QED
    BY <2>3, <2>4
<1> QED
  BY <1>1, <1>2, <1>3 DEF Next, Step, Loads, Saves

LEMMA ClockGoesOn == ASSUME Next, clock \in Nat PROVE clock' \in {clock, clock + 1}
<1>1. ASSUME NEW p \in Procs, Step(p) PROVE clock' = clock
  BY <1>1 DEF Step, WarmStart, FullStrings, LoadStrings, WarmRings, Acquire, ReadToken,
              ReadMoved, ReadRings, Confirm, FullRings, Flush, FlushUnstamped, FlushReplyLost,
              LeaseLost, Strip, StripReplyLost, GroupWrite, GroupReplyLost, GivenUp, Release
<1> QED
  BY <1>1 DEF Next, Tick, Lapse

LEMMA HolderStillKnows ==
  ASSUME Steady, TypeInv, Sane, HolderKnows, Next
  PROVE  HolderKnows'
<1>1. /\ Framed /\ Shared /\ \A q \in Procs : Fine(q)
      /\ clock \in Nat /\ clock' \in Nat /\ clock' >= clock
  BY SaneInParts, ClockGoesOn DEF Shared
<1>2. ASSUME NEW p \in Procs, pc'[p] = "grouping"
      PROVE  mem'[p].bare /\ retryAt'[p] <= clock'
  <2>1. CASE Rests(p)
    BY <1>1, <1>2, <2>1 DEF Rests, HolderKnows, Fine
  <2>2. CASE Loads(p)
    BY <1>1, <1>2, <2>2
       DEF Loads, WarmStart, FullStrings, LoadStrings, WarmRings, Acquire, ReadToken,
           ReadMoved, ReadRings, Confirm, FullRings, Goto, Framed
  <2>3. CASE Saves(p)
    <3>1. Strip(p) \/ (GroupWrite(p) /\ pc[p] = "grouping")
      BY <1>1, <1>2, <2>3
         DEF Saves, Flush, FlushUnstamped, FlushReplyLost, LeaseLost, Release, Ends,
             StripReplyLost, GroupWrite, GroupReplyLost, GivenUp, Framed
    <3>2. mem'[p].bare /\ retryAt' = retryAt /\ retryAt[p] <= clock
      BY <1>1, <3>1 DEF Strip, GroupWrite, HolderKnows, Framed, Fine, MemFields
    <3> QED
      BY <1>1, <3>2 DEF Fine
  <2> QED
    BY <2>1, <2>2, <2>3, NextRests
<1>3. ASSUME NEW p \in Procs, owner' = p, pc'[p] \in {"keys", "rings", "confirm", "fullRings"}
      PROVE  /\ token'[p] = hot'
             /\ pc'[p] \in {"keys", "rings"} => TokenMatches(p, Classified(hot))'
  <2>1. UNCHANGED <<hot, data>> /\ owner = p /\ (Rests(p) \/ Loads(p))
    BY <1>3, OnlyTheHolderWrites DEF Holding
  <2>2. CASE Rests(p)
    BY <1>3, <2>1, <2>2 DEF Rests, HolderKnows, TokenMatches, Classified, Poisoned, Unstamped
  <2>3. CASE Loads(p)
    <3>1. \/ ReadToken(p) \/ FullStrings(p)
          \/ /\ ReadMoved(p) \/ ReadRings(p)
             /\ pc[p] \in {"keys", "rings"} /\ token' = token
      BY <1>1, <1>3, <2>3
         DEF Loads, WarmStart, FullStrings, LoadStrings, WarmRings, Acquire, ReadToken,
             ReadMoved, ReadRings, Confirm, FullRings, Goto, Framed
    <3>2. CASE ReadToken(p)
      BY <1>1, <1>3, <2>1, <3>2 DEF ReadToken, Framed, TokenMatches, Classified, Poisoned, Unstamped
    <3>3. CASE FullStrings(p)
      BY <1>1, <1>3, <2>1, <3>3 DEF FullStrings, LoadStrings, Goto, Framed
    <3>4. CASE (ReadMoved(p) \/ ReadRings(p)) /\ pc[p] \in {"keys", "rings"} /\ token' = token
      BY <1>1, <1>3, <2>1, <3>4 DEF ReadMoved, ReadRings, Goto, Framed, HolderKnows,
             TokenMatches, Classified, Poisoned, Unstamped
    <3> QED
      BY <3>1, <3>2, <3>3, <3>4
  <2> QED
    BY <2>1, <2>2, <2>3
<1>4. ASSUME NEW p \in Procs, owner' = p, pc'[p] \in Holding, mem'[p].bare
      PROVE  hot'.kind # "ok"
  <2>1. CASE UNCHANGED <<hot, data>> /\ owner = p /\ Rests(p)
    BY <1>4, <2>1 DEF Rests, HolderKnows
  <2>2. CASE UNCHANGED <<hot, data>> /\ owner = p /\ Loads(p)
    <3>1. /\ \/ Confirm(p) /\ hot = token[p]
             \/ FullRings(p)
      BY <1>1, <1>4, <2>2
         DEF Loads, WarmStart, FullStrings, LoadStrings, WarmRings, Acquire, ReadToken,
             ReadMoved, ReadRings, Confirm, FullRings, Goto, Framed, Holding, stored
    <3>2. token[p] = hot /\ mem'[p] = Remembered(mem[p], Classified(hot))
      BY <1>1, <2>2, <3>1 DEF Confirm, FullRings, Install, Framed, HolderKnows, Goto
    <3> QED
      BY <1>1, <1>4, <2>2, <3>2, LoadRemembers DEF Fine, Shared
  <2>3. CASE Saves(p) /\ owner = p
    <3>1. CASE Flush(p)
      <4>1. PICK touched : (Stamped(p, touched) /\ mem'[p] = AfterStamped(p, touched)) \/ Refused(p)
        BY <1>1, <3>1 DEF Flush, Framed
      <4>2. ~AfterStamped(p, touched).bare
        BY DEF AfterStamped
      <4> QED
        BY <1>4, <4>1, <4>2 DEF Refused, Unstamped
    <3>2. CASE FlushReplyLost(p)
      <4>1. PICK touched : (Stamped(p, touched) /\ mem'[p] = mem[p]) \/ Refused(p)
        BY <1>1, <3>2 DEF FlushReplyLost, Framed
      <4>2. ~mem[p].bare
        BY <3>2 DEF FlushReplyLost, Steady
      <4> QED
        BY <1>4, <4>1, <4>2 DEF Refused, Unstamped
    <3>3. CASE FlushUnstamped(p)
      BY <3>3 DEF FlushUnstamped, Unstamped
    <3>4. CASE Strip(p)
      BY <2>3, <3>4 DEF Strip, Goto, Holding, HolderKnows, Unstamped
    <3>5. CASE GroupWrite(p)
      BY <1>4, <2>3, <3>5 DEF GroupWrite, Holding, HolderKnows
    <3>7. CASE Fails(p)
      BY <1>4, <2>3, <3>7, SavesGivenUp DEF GivenUp, HolderKnows, Unstamped
    <3>6. CASE LeaseLost(p) \/ Release(p)
      BY <1>1, <1>4, <3>6 DEF LeaseLost, Release, Ends, Framed, Holding
    <3> QED
      BY <2>3, <3>1, <3>2, <3>3, <3>4, <3>5, <3>6, <3>7 DEF Saves, Fails
  <2> QED
    BY <1>4, <2>1, <2>2, <2>3, OnlyTheHolderWrites DEF Holding
<1> QED
  BY <1>2, <1>3, <1>4 DEF HolderKnows

LEMMA HotStaysLast ==
  ASSUME TypeInv, Sane, HotIsLast, Moves
  PROVE  HotIsLast'
<1> SUFFICES ASSUME hot'.kind = "ok" PROVE Behind(hot.era, hot.seq)'
  BY DEF HotIsLast
<1>1. /\ eras \in Nat /\ clock \in Nat /\ IsStamp(hot) /\ StampOK(hot)
      /\ \A p \in Procs : MemOK(mem[p]) /\ rewrite[p] \subseteq Keys
  BY DEF TypeInv, TypeOK, Sane
<1>2. CASE Quiet
  BY <1>1, <1>2 DEF Quiet, HotIsLast, Behind, Continues
<1>3. ASSUME NEW p \in Procs, Installs(p) PROVE Behind(hot.era, hot.seq)'
  BY <1>1, <1>3 DEF Installs, Holder, Behind, Continues, IsStamp, StampOK
<1>4. ASSUME NEW p \in Procs, NEW touched \in SUBSET Keys, Publishes(p, touched)
      PROVE  Behind(hot.era, hot.seq)'
  <2>1. eras' = IF Overflows(p, touched) \/ NewEra(p) THEN eras + 1 ELSE eras
    BY <1>4 DEF Publishes
  <2>2. hot' = Stamp(p, touched) /\ hot'.seq = NextSeq(p) /\ hot'.era \in 1..eras' /\ eras' \in Nat
    BY <1>4, <2>1, StampIsStamp DEF Publishes
  <2>3. NextSeq(p) \in Nat
    BY <1>1, NextSeqGrows
  <2>4. ASSUME NEW q \in Procs, Continues(q, hot.era)'
        PROVE  hot'.seq <= mem'[q].seq \/ hot'.seq < retryAt'[q]
    <3>1. q = p
      BY <1>4, <2>4 DEF Publishes, Holder, Continues
    <3>2. CASE mem'[p] = AfterStamped(p, touched)
      BY <1>1, <2>2, <2>3, <3>1, <3>2, WriterKnows
    <3>3. CASE NextSeq(p) < retryAt'[p]
      BY <2>2, <3>1, <3>3
    <3> QED
      BY <1>4, <3>2, <3>3 DEF Publishes
  <2> QED
    BY <2>2, <2>3, <2>4 DEF Behind
<1>5. ASSUME NEW p \in Procs, NEW wrote \in SUBSET Keys, GivesUp(p, wrote)
      PROVE  Behind(hot.era, hot.seq)'
  <2>1. \A q \in Procs : retryAt[q] \in Nat
    BY DEF TypeInv, TypeOK
  <2> QED
    BY <1>1, <1>5, <2>1 DEF GivesUp, Holder, HotIsLast, Behind, Continues, IsStamp
<1> QED
  BY <1>2, <1>3, <1>4, <1>5 DEF Moves, Bares, Groups

(* A save has nothing to do with a load.                                      *)
LEMMA SavesAreNoLoads ==
  ASSUME TypeInv, NEW p \in Procs, Saves(p)
  PROVE  pc'[p] \in Holding \cup {"done"}
  BY DEF Saves, Flush, FlushUnstamped, FlushReplyLost, LeaseLost, Strip, GroupWrite,
         StripReplyLost, GroupReplyLost, GivenUp, Release, Ends, Goto, Holding, TypeInv

LEMMA PlansStillPass ==
  ASSUME TypeInv, PlansPass, Next
  PROVE  PlansPass'
<1>1. clock \in Nat /\ clock' \in {clock, clock + 1} /\ Day \in Nat /\ Day' \in Nat /\ Day' >= Day
  <2>1. clock \in Nat
    BY DEF TypeInv, TypeOK
  <2>2. clock' \in {clock, clock + 1}
    BY <2>1, ClockGoesOn
  <2>3. clock' \in Nat
    BY <2>1, <2>2
  <2>4. Day' \in Nat
    BY <2>3, NextDayIsNat
  <2> QED
    BY <2>1, <2>2, <2>4, DayIsNat, DaysPass
<1>2. ASSUME NEW keys, InPlanBefore(keys)
      PROVE  \A k \in keys : k \in Dailies \/ (k \in Days /\ k <= Day')
  <2>1. \A k \in Days : k \in Nat
    BY KeysAssumption
  <2> QED
    BY <1>1, <1>2, <2>1 DEF InPlanBefore
<1>3. \A k \in Plan : k \in Dailies \/ (k \in Days /\ k <= Day')
  <2>1. \A k \in Days : k \in Nat
    BY KeysAssumption
  <2> QED
    BY <1>1, <2>1 DEF Plan, PlanAt
<1>4. ASSUME NEW p \in Procs, pc'[p] = "warmRings"
      PROVE  \A k \in DOMAIN merged'[p] : k \in Dailies \/ (k \in Days /\ k <= Day')
  <2>1. CASE Rests(p)
    BY <1>2, <1>4, <2>1 DEF Rests, PlansPass
  <2>2. CASE Loads(p)
    <3>1. WarmStart(p)
      BY <1>4, <2>2
         DEF Loads, FullStrings, LoadStrings, WarmRings, Acquire, ReadToken,
             ReadMoved, ReadRings, Confirm, FullRings, Goto, TypeInv
    <3>2. DOMAIN merged'[p] \subseteq Plan
      BY <3>1 DEF WarmStart, LoadStrings, TypeInv
    <3> QED
      BY <1>3, <3>2
  <2> QED
    BY <1>4, <2>1, <2>2, NextRests, SavesAreNoLoads DEF Holding
<1>5. ASSUME NEW p \in Procs, pc'[p] \in {"standby", "reload", "keys", "rings"}
      PROVE  \A k \in DOMAIN cache'[p] : k \in Dailies \/ (k \in Days /\ k <= Day')
  <2>1. CASE cache'[p] = cache[p] /\ pc[p] \in {"standby", "reload", "keys", "rings"}
    BY <1>2, <2>1 DEF PlansPass
  <2>2. CASE WarmRings(p)
    <3>1. /\ pc[p] = "warmRings" /\ cache'[p] = Rung(p)
      BY <2>2 DEF WarmRings, Remember, Goto, TypeInv
    <3>2. \A k \in DOMAIN cache'[p] : k \in DOMAIN merged[p] \/ k \in Dailies
      BY <3>1, KeysAssumption DEF Rung
    <3> QED
      BY <1>2, <3>1, <3>2 DEF PlansPass
  <2>3. CASE Loads(p)
    BY <1>5, <2>1, <2>2, <2>3
       DEF Loads, WarmStart, FullStrings, LoadStrings, Acquire, ReadToken,
           ReadMoved, ReadRings, Confirm, FullRings, Goto, TypeInv
  <2> QED
    BY <1>5, <2>1, <2>3, NextRests, SavesAreNoLoads DEF Holding, Rests
<1> QED
  BY <1>4, <1>5 DEF PlansPass, InPlanBefore

(* A key that was read and is in the plan was in it before.                    *)
LEMMA PlanWasBefore ==
  ASSUME TypeInv, Next, NEW k, k \in Plan', k \in Dailies \/ (k \in Days /\ k <= Day)
  PROVE  k \in Plan /\ k \in Keys
<1>1. clock \in Nat /\ clock' \in {clock, clock + 1} /\ Day \in Nat
  BY ClockGoesOn, DayIsNat DEF TypeInv, TypeOK
<1>2. Day' >= Day
  BY <1>1, DaysPass
<1>3. clock' \in Nat
  BY <1>1
<1>4. Day' \in Nat
  BY <1>3, NextDayIsNat
<1>5. k \in Days => k \in Nat
  BY KeysAssumption
<1>6. k \in Days \ Dailies => k \in {Day' - 1, Day'}
  BY DEF Plan, PlanAt
<1> QED
  BY <1>1, <1>2, <1>4, <1>5, <1>6 DEF Plan, PlanAt, Keys

(* What is known of a key in a sequence lasts, in the terms of Reads and Caches. *)
KnownAs(e, n, stamps, values) ==
    /\ Behind(e, n)
    /\ \A k \in DOMAIN values \cap DOMAIN stamps \cap Plan : Pinned(e, k, stamps[k], values[k])

LEMMA KnownLasts ==
  ASSUME TypeInv, Sane, Next, Moves,
         NEW CONSTANT e \in Nat, NEW CONSTANT n \in Nat,
         NEW CONSTANT stamps, \A k \in DOMAIN stamps : stamps[k] \in 0..n,
         NEW CONSTANT values, InPlanBefore(DOMAIN values),
         KnownAs(e, n, stamps, values)
  PROVE  KnownAs(e, n, stamps, values)'
<1>1. Behind(e, n) /\ Behind(e, n)'
  BY BehindLasts DEF KnownAs
<1>2. ASSUME NEW CONSTANT k \in DOMAIN values \cap DOMAIN stamps, k \in Plan'
      PROVE  Pinned(e, k, stamps[k], values[k])'
  <2>1. k \in Plan /\ k \in Keys
    BY <1>2, PlanWasBefore DEF InPlanBefore
  <2>2. Pinned(e, k, stamps[k], values[k])
    BY <1>2, <2>1 DEF KnownAs
  <2>3. stamps[k] \in 0..n
    BY <1>2
  <2> QED
    BY <1>1, <2>1, <2>2, <2>3, PinnedLasts
<1> QED
  BY <1>1, <1>2 DEF KnownAs

LEMMA ReadsLast ==
  ASSUME TypeInv, Sane, HotIsLast, PlansPass, Next, Moves, NEW p \in Procs, Reads(p)
  PROVE  Reads(p)'
<1> SUFFICES ASSUME pc'[p] = "warmRings", token'[p].kind = "ok"
             PROVE  /\ Behind(token[p].era, token[p].seq)'
                    /\ \A k \in DOMAIN merged'[p] \cap Plan' :
                          Pinned(token[p].era, k, StampOf(token[p], k), merged[p][k])'
  BY DEF Reads
<1>1. CASE Rests(p)
  <2>1. /\ pc[p] = "warmRings" /\ token[p].kind = "ok"
        /\ token'[p] = token[p] /\ merged'[p] = merged[p]
    BY <1>1 DEF Rests
  <2>2. PICK e : e = token[p].era
    OBVIOUS
  <2>3. PICK n : n = token[p].seq
    OBVIOUS
  <2>4. PICK stamps : stamps = [k \in Keys |-> StampOf(token[p], k)]
    OBVIOUS
  <2>5. PICK values : values = merged[p]
    OBVIOUS
  <2>6. e \in Nat /\ n \in Nat /\ \A k \in DOMAIN stamps : stamps[k] \in 0..n
    BY <2>1, <2>2, <2>3, <2>4 DEF TypeInv, TypeOK, Sane, StampOK, IsStamp, StampOf
  <2>7. KnownAs(e, n, stamps, values)
    BY <2>1, <2>2, <2>3, <2>4, <2>5 DEF Reads, KnownAs
  <2>8. InPlanBefore(DOMAIN values)
    BY <2>1, <2>5 DEF PlansPass
  <2>9. KnownAs(e, n, stamps, values)'
    BY <2>6, <2>7, <2>8, KnownLasts
  <2>10. /\ token'[p].era = e /\ token'[p].seq = n /\ merged'[p] = values
         /\ \A k \in Keys : StampOf(token'[p], k) = stamps[k]
    BY <2>1, <2>2, <2>3, <2>4, <2>5
  <2>11. Behind(token[p].era, token[p].seq)'
    BY <2>9, <2>10 DEF KnownAs, Behind
  <2>12. ASSUME NEW k \in DOMAIN merged'[p] \cap Plan'
         PROVE  Pinned(token[p].era, k, StampOf(token[p], k), merged[p][k])'
    <3>1. k \in Keys
      BY <2>5, <2>8, <2>10, <2>12, PlanWasBefore DEF InPlanBefore
    <3>2. Pinned(e, k, stamps[k], values[k])'
      BY <2>4, <2>9, <2>10, <2>12, <3>1 DEF KnownAs
    <3>3. StampOf(token[p], k)' = stamps[k]
      BY <2>10, <3>1 DEF StampOf
    <3> QED
      BY <2>10, <3>2, <3>3 DEF Pinned
  <2> QED
    BY <2>11, <2>12
<1>2. CASE Loads(p)
  <2>1. WarmStart(p)
    BY <1>2 DEF Loads, FullStrings, LoadStrings, WarmRings, Acquire, ReadToken,
                ReadMoved, ReadRings, Confirm, FullRings, Goto, TypeInv
  <2>2. /\ token'[p] = hot /\ merged'[p] = [k \in Plan \ Rings |-> data[k]]
        /\ UNCHANGED <<clock, owner, hot, data, eras, mem, rewrite, unsent, retryAt, strays>>
    BY <2>1 DEF WarmStart, LoadStrings, TypeInv, stored
  <2>3. pc'[p] = "warmRings" /\ \A q \in Procs : q # p => pc'[q] = pc[q]
    BY <2>1 DEF WarmStart, LoadStrings, Goto, TypeInv
  <2>4. Behind(token[p].era, token[p].seq)'
    BY <2>2, <2>3 DEF HotIsLast, Behind, Continues, Holding
  <2>5. ASSUME NEW k \in DOMAIN merged'[p] \cap Plan'
        PROVE  Pinned(token[p].era, k, StampOf(token[p], k), merged[p][k])'
    <3>1. merged'[p][k] = data'[k]
      BY <2>2, <2>5
    <3> QED
      BY <3>1 DEF Pinned
  <2> QED
    BY <2>4, <2>5
<1> QED
  BY <1>1, <1>2, NextRests, SavesAreNoLoads DEF Holding

LEMMA CachesLast ==
  ASSUME TypeInv, Sane, PlansPass, Next, Moves, NEW p \in Procs, Reads(p), Caches(p)
  PROVE  Caches(p)'
<1> SUFFICES ASSUME pc'[p] \in {"standby", "reload", "keys", "rings"}, mem'[p].seq # None
             PROVE  /\ Behind(mem[p].seen, mem[p].seq)'
                    /\ \A k \in DOMAIN cache'[p] \cap DOMAIN mem'[p].keySeq \cap Plan' :
                          Pinned(mem[p].seen, k, mem[p].keySeq[k], cache[p][k])'
  BY DEF Caches
<1>1. ASSUME NEW CONSTANT e \in Nat, NEW CONSTANT n \in Nat,
             NEW CONSTANT stamps, \A k \in DOMAIN stamps : stamps[k] \in 0..n,
             NEW CONSTANT values, InPlanBefore(DOMAIN values),
             KnownAs(e, n, stamps, values),
             mem'[p].seen = e, mem'[p].seq = n, mem'[p].keySeq = stamps, cache'[p] = values
      PROVE  /\ Behind(mem[p].seen, mem[p].seq)'
             /\ \A k \in DOMAIN cache'[p] \cap DOMAIN mem'[p].keySeq \cap Plan' :
                   Pinned(mem[p].seen, k, mem[p].keySeq[k], cache[p][k])'
  <2>1. KnownAs(e, n, stamps, values)'
    BY <1>1, KnownLasts
  <2>2. Behind(mem[p].seen, mem[p].seq)'
    BY <1>1, <2>1 DEF KnownAs, Behind
  <2>3. ASSUME NEW k \in DOMAIN cache'[p] \cap DOMAIN mem'[p].keySeq \cap Plan'
        PROVE  Pinned(mem[p].seen, k, mem[p].keySeq[k], cache[p][k])'
    <3>1. Pinned(e, k, stamps[k], values[k])'
      BY <1>1, <2>1, <2>3 DEF KnownAs
    <3> QED
      BY <1>1, <3>1 DEF Pinned
  <2> QED
    BY <2>2, <2>3
<1>2. CASE /\ pc[p] \in {"standby", "reload", "keys", "rings"}
           /\ mem'[p] = mem[p] /\ cache'[p] = cache[p]
  <2>1. PICK e : e = mem[p].seen
    OBVIOUS
  <2>2. PICK n : n = mem[p].seq
    OBVIOUS
  <2>3. PICK stamps : stamps = mem[p].keySeq
    OBVIOUS
  <2>4. PICK values : values = cache[p]
    OBVIOUS
  <2>5. e \in Nat /\ n \in Nat /\ \A k \in DOMAIN stamps : stamps[k] \in 0..n
    BY <1>2, <2>1, <2>2, <2>3 DEF TypeInv, TypeOK, Sane, MemOK
  <2>6. KnownAs(e, n, stamps, values)
    BY <1>2, <2>1, <2>2, <2>3, <2>4 DEF Caches, KnownAs
  <2>7. InPlanBefore(DOMAIN values)
    BY <1>2, <2>4 DEF PlansPass
  <2> QED
    BY <1>1, <1>2, <2>1, <2>2, <2>3, <2>4, <2>5, <2>6, <2>7
<1>3. CASE WarmRings(p)
  <2>1. /\ pc[p] = "warmRings" /\ cache'[p] = Rung(p)
        /\ mem'[p] = Remembered(mem[p], Classified(token[p]))
    BY <1>3 DEF WarmRings, Remember, Goto, TypeInv
  <2>2. /\ token[p].kind = "ok" /\ mem'[p].seq = token[p].seq /\ mem'[p].seen = token[p].era
        /\ mem'[p].keySeq = [k \in Plan |-> StampOf(token[p], k)]
        /\ \A k \in Plan : mem'[p].keySeq[k] \in 0..token[p].seq
    BY <2>1, LoadRemembers DEF TypeInv, TypeOK, Sane
  <2>3. PICK e : e = token[p].era
    OBVIOUS
  <2>4. PICK n : n = token[p].seq
    OBVIOUS
  <2>5. PICK stamps : stamps = [k \in Plan |-> StampOf(token[p], k)]
    OBVIOUS
  <2>6. PICK values : values = Rung(p)
    OBVIOUS
  <2>7. e \in Nat /\ n \in Nat /\ \A k \in DOMAIN stamps : stamps[k] \in 0..n
    BY <2>2, <2>3, <2>4, <2>5 DEF TypeInv, TypeOK, Sane, StampOK, IsStamp
  <2>8. InPlanBefore(DOMAIN values)
    <3>1. \A k \in DOMAIN values : k \in DOMAIN merged[p] \/ k \in Dailies
      BY <2>6, KeysAssumption DEF Rung
    <3> QED
      BY <2>1, <3>1 DEF PlansPass, InPlanBefore
  <2>9. KnownAs(e, n, stamps, values)
    <3>1. Behind(e, n)
      BY <2>1, <2>2, <2>3, <2>4 DEF Reads
    <3>2. ASSUME NEW k \in DOMAIN values \cap DOMAIN stamps \cap Plan
          PROVE  Pinned(e, k, stamps[k], values[k])
      <4>1. CASE k \in Rings
        <5>1. values[k] = data[k]
          BY <2>6, <3>2, <4>1 DEF Rung
        <5> QED
          BY <5>1 DEF Pinned
      <4>2. CASE k \notin Rings
        <5>1. k \in DOMAIN merged[p] \cap Plan /\ values[k] = merged[p][k]
          BY <2>6, <3>2, <4>2 DEF Rung
        <5>2. stamps[k] = StampOf(token[p], k)
          BY <2>5, <3>2
        <5> QED
          BY <2>1, <2>2, <2>3, <5>1, <5>2 DEF Reads
      <4> QED
        BY <4>1, <4>2
    <3> QED
      BY <3>1, <3>2 DEF KnownAs
  <2> QED
    BY <1>1, <2>1, <2>2, <2>3, <2>4, <2>5, <2>6, <2>7, <2>8, <2>9
<1>4. CASE Loads(p)
  BY <1>2, <1>3, <1>4 DEF Loads, WarmStart, FullStrings, LoadStrings, Acquire, ReadToken,
                     ReadMoved, ReadRings, Confirm, FullRings, Goto, TypeInv
<1> QED
  BY <1>2, <1>4, NextRests, SavesAreNoLoads DEF Holding, Rests

(* A string that is reused is the one that is stored.                          *)
LEMMA ReusedIsStored ==
  ASSUME TypeInv, Sane, HolderKnows, NEW p \in Procs, Caches(p), owner = p,
         pc[p] \in {"keys", "rings"}, NEW k, Reuse(p, k), k \notin strays
  PROVE  k \in DOMAIN cache[p] /\ cache[p][k] = data[k]
<1>1. token[p] = hot /\ TokenMatches(p, Classified(hot))
  BY DEF HolderKnows
<1>2. /\ hot.kind = "ok" /\ hot.era = mem[p].seen /\ mem[p].seq # None
  BY <1>1 DEF TokenMatches, Classified, Poisoned, Unstamped
<1>3. /\ k \in Plan /\ k \in DOMAIN mem[p].keySeq /\ k \in DOMAIN cache[p]
      /\ StampOf(hot, k) = mem[p].keySeq[k]
  BY <1>1 DEF Reuse, Expanded, StampOf
<1>4. Pinned(mem[p].seen, k, mem[p].keySeq[k], cache[p][k])
  BY <1>2, <1>3 DEF Caches
<1> QED
  BY <1>2, <1>3, <1>4 DEF Pinned

LEMMA LoadStaysTrue ==
  ASSUME TypeInv, Sane, HolderKnows, LoadIsTrue, \A p \in Procs : Caches(p), Next
  PROVE  LoadIsTrue'
<1> SUFFICES ASSUME NEW p \in Procs, owner' = p, pc'[p] \in {"rings", "confirm", "fullRings"}
             PROVE
        /\ pc'[p] \in {"rings", "fullRings"} => Dailies \ Rings \subseteq DOMAIN merged'[p]
        /\ pc'[p] = "confirm" => Dailies \subseteq DOMAIN merged'[p]
        /\ pc'[p] \in {"confirm", "fullRings"} =>
              \A k \in DOMAIN merged'[p] \ strays' : merged'[p][k] = data'[k]
        /\ pc'[p] = "rings" =>
              /\ Rings \cap DOMAIN cache'[p] \subseteq DOMAIN merged'[p]
              /\ \A k \in DOMAIN merged'[p] \ strays' :
                    IF k \in Rings THEN k \in DOMAIN cache'[p] => merged'[p][k] = cache'[p][k]
                    ELSE merged'[p][k] = data'[k]
  BY DEF LoadIsTrue
<1>1. /\ data' = data /\ strays \subseteq strays' /\ owner = p
      /\ Rests(p) \/ Loads(p)
  BY OnlyTheHolderWrites DEF Holding
<1>2. Dailies \subseteq Plan /\ Rings \subseteq Dailies
  BY PlansAreKeys, KeysAssumption
<1>3. CASE Rests(p)
  BY <1>1, <1>3 DEF Rests, LoadIsTrue
<1>4. CASE FullStrings(p)
  <2>1. pc'[p] = "fullRings" /\ merged'[p] = [k \in Plan \ Rings |-> data[k]]
    BY <1>4 DEF FullStrings, LoadStrings, Goto, TypeInv
  <2> QED
    BY <1>1, <1>2, <2>1
<1>5. CASE ReadMoved(p)
  <2>1. /\ pc[p] = "keys" /\ pc'[p] = "rings" /\ cache' = cache
        /\ merged'[p] = [k \in (Plan \ Rings) \cup (Rings \cap DOMAIN cache[p]) |->
                           IF k \in Rings \/ Reuse(p, k) THEN cache[p][k] ELSE data[k]]
    BY <1>5 DEF ReadMoved, Goto, TypeInv
  <2>2. ASSUME NEW k \in DOMAIN merged'[p] \ strays', k \notin Rings
        PROVE  merged'[p][k] = data'[k]
    <3>1. Reuse(p, k) => cache[p][k] = data[k]
      BY <1>1, <2>1, <2>2, ReusedIsStored
    <3> QED
      BY <1>1, <2>1, <2>2, <3>1
  <2> QED
    BY <1>2, <2>1, <2>2
<1>6. CASE ReadRings(p)
  <2>1. /\ pc[p] = "rings" /\ pc'[p] = "confirm"
        /\ merged'[p] = [k \in DOMAIN merged[p] \cup Rings |->
                           IF k \in Rings /\ ~Reuse(p, k) THEN data[k] ELSE merged[p][k]]
    BY <1>6 DEF ReadRings, Goto, TypeInv
  <2>2. /\ Dailies \ Rings \subseteq DOMAIN merged[p]
        /\ Rings \cap DOMAIN cache[p] \subseteq DOMAIN merged[p]
        /\ \A k \in DOMAIN merged[p] \ strays :
              IF k \in Rings THEN k \in DOMAIN cache[p] => merged[p][k] = cache[p][k]
              ELSE merged[p][k] = data[k]
    BY <1>1, <2>1 DEF LoadIsTrue
  <2>3. ASSUME NEW k \in DOMAIN merged'[p] \ strays' PROVE merged'[p][k] = data'[k]
    <3>1. CASE k \in Rings /\ Reuse(p, k)
      <4>1. k \in DOMAIN cache[p] /\ cache[p][k] = data[k]
        BY <1>1, <2>1, <2>3, <3>1, ReusedIsStored
      <4>2. k \in DOMAIN merged[p] /\ merged[p][k] = cache[p][k]
        BY <1>1, <2>2, <2>3, <3>1, <4>1
      <4> QED
        BY <1>1, <2>1, <3>1, <4>1, <4>2
    <3>2. CASE ~(k \in Rings /\ Reuse(p, k))
      BY <1>1, <2>1, <2>2, <2>3, <3>2
    <3> QED
      BY <3>1, <3>2
  <2> QED
    BY <1>2, <2>1, <2>2, <2>3
<1>7. CASE Loads(p)
  BY <1>4, <1>5, <1>6, <1>7
     DEF Loads, WarmStart, LoadStrings, WarmRings, Acquire, ReadToken, Confirm, FullRings,
         Goto, TypeInv
<1> QED
  BY <1>1, <1>3, <1>7

LEMMA NextHolds == ASSUME Steady, IInv, [Next]_vars PROVE IInv'
<1> USE DEF IInv
<1>1. CASE Next
  <2>1. Moves
    BY <1>1, NextMoves
  <2>2. TypeInv' /\ Sane'
    BY <1>1, TypesLast
  <2>3. HolderKnows' /\ HotIsLast'
    BY <1>1, <2>1, HolderStillKnows, HotStaysLast
  <2>4. \A p \in Procs : Reads(p)' /\ Caches(p)'
    BY <1>1, <2>1, ReadsLast, CachesLast
  <2>5. PlansPass' /\ LoadIsTrue'
    BY <1>1, PlansStillPass, LoadStaysTrue
  <2> QED
    BY <2>2, <2>3, <2>4, <2>5
<1>2. CASE UNCHANGED vars
  <2> USE <1>2 DEF vars, stored, locals
  <2>1. TypeInv' /\ Sane'
    BY DEF TypeInv, TypeOK, Sane, StampOK, MemOK, IsStamp
  <2>2. HolderKnows' /\ HotIsLast'
    BY DEF HolderKnows, HotIsLast, Behind, Continues, TokenMatches, Classified, Poisoned, Unstamped
  <2>3. \A p \in Procs : Reads(p)' /\ Caches(p)'
    BY DEF Reads, Caches, Behind, Pinned, Continues, StampOf, Plan, PlanAt, Day
  <2>4. PlansPass' /\ LoadIsTrue'
    BY DEF PlansPass, InPlanBefore, LoadIsTrue, Day
  <2> QED
    BY <2>1, <2>2, <2>3, <2>4
<1> QED
  BY <1>1, <1>2

-----------------------------------------------------------------------------
(* Every variable of the model keeps its type, whatever fault shows: stamps are  *)
(* numbers and maps of numbers, whatever a process knows when it flushes.      *)
THEOREM TypeCorrect == Spec => []TypeOK
<1>1. Init => TypeInv /\ Sane
  BY InitHolds DEF IInv
<1>2. TypeInv /\ Sane /\ [Next]_vars => TypeInv' /\ Sane'
  <2>1. CASE Next
    BY <2>1, TypesLast
  <2>2. CASE UNCHANGED vars
    BY <2>2 DEF TypeInv, TypeOK, Sane, StampOK, MemOK, IsStamp, vars, stored, locals
  <2> QED
    BY <2>1, <2>2
<1>3. TypeInv => TypeOK
  BY DEF TypeInv
<1> QED
  BY <1>1, <1>2, <1>3, PTL DEF Spec

(* A flush that changes the book and leaves a stamp on p6:hot leaves one that    *)
(* differs from the one it found.                                           *)
THEOREM StampsDiffer == ASSUME Steady PROVE Spec => StampsAreNew
<1> DEFINE New == data' # data /\ hot'.kind = "ok" /\ hot.kind = "ok"
                     => hot'.era # hot.era \/ hot'.seq > hot.seq
<1>1. ASSUME IInv, Next PROVE New
  <2>1. Moves
    BY <1>1, NextMoves DEF IInv
  <2>2. ASSUME NEW p \in Procs, NEW touched \in SUBSET Keys, Publishes(p, touched)
        PROVE  New
    <3>1. eras' = IF Overflows(p, touched) \/ NewEra(p) THEN eras + 1 ELSE eras
      BY <2>2 DEF Publishes
    <3>2. hot' = Stamp(p, touched) /\ hot'.seq = NextSeq(p)
      BY <1>1, <2>2, <3>1, StampIsStamp DEF Publishes, IInv
    <3>3. SUFFICES ASSUME hot.kind = "ok", hot'.era = hot.era PROVE hot'.seq > hot.seq
      OBVIOUS
    <3>4. PICK e : e = hot.era
      OBVIOUS
    <3>5. PICK n : n = hot.seq
      OBVIOUS
    <3>6. e \in Nat /\ n \in Nat /\ Behind(e, n)
      BY <1>1, <3>3, <3>4, <3>5 DEF IInv, HotIsLast, TypeInv, TypeOK, Sane, StampOK, IsStamp
    <3>7. n < NextSeq(p)
      BY <1>1, <2>2, <3>2, <3>3, <3>4, <3>6, PublishedIsAbove DEF IInv
    <3>8. NextSeq(p) \in Nat
      BY <1>1, NextSeqGrows DEF IInv, TypeInv, TypeOK, Sane
    <3> QED
      BY <3>2, <3>5, <3>6, <3>7, <3>8
  <2>3. ASSUME NEW p \in Procs, NEW wrote \in SUBSET Keys, GivesUp(p, wrote), data' # data
        PROVE  hot'.kind # "ok"
    <3>1. data \in [Keys -> Nat] /\ data' \in [Keys -> Nat]
      BY <1>1, TypesLast DEF IInv, TypeInv, TypeOK
    <3>2. wrote # {}
      BY <2>3, <3>1 DEF GivesUp
    <3> QED
      BY <2>3, <3>2 DEF GivesUp
  <2> QED
    BY <2>1, <2>2, <2>3 DEF Moves, Quiet, Installs, Bares, Groups
<1>2. IInv /\ [Next]_vars => [New]_vars
  BY <1>1
<1>3. Init => IInv
  BY InitHolds
<1>4. IInv /\ [Next]_vars => IInv'
  BY NextHolds
<1> QED
  BY <1>2, <1>3, <1>4, PTL DEF Spec, StampsAreNew

(* What the processes of AtomicBook are unsure of.                            *)
Unsure == UNION {unsent[q] : q \in Procs}

LEMMA UnsureOfOne ==
  ASSUME TypeInv, NEW p \in Procs, \A q \in Procs \ {p} : unsent'[q] = unsent[q],
         unsent' \in [Procs -> SUBSET Keys]
  PROVE  /\ unsent[p] \subseteq Unsure
         /\ unsent'[p] = unsent[p] => Unsure' = Unsure
         /\ \A K : unsent'[p] \subseteq Unsure \cup K => Unsure' \subseteq Unsure \cup K
<1>1. \A k : k \in Unsure <=> \E q \in Procs : k \in unsent[q]
  BY DEF Unsure
<1>2. \A k : k \in Unsure' <=> \E q \in Procs : k \in unsent'[q]
  BY DEF Unsure
<1> QED
  BY <1>1, <1>2

(* A load that ends under the lease returns every daily key, and each key it     *)
(* returns as it is stored, but for those a save wrote and gave up: loadSplit   *)
(* and reloadSplit with their four commands, reused strings and fallback       *)
(* implement the one step of AtomicBook.                                     *)
THEOREM LoadsAreWhole == ASSUME Steady PROVE Spec => ReloadsTheBook
<1> DEFINE Same == UNCHANGED <<owner, data, loaded, Unsure, strays>>
<1>1. Init => AB!Init
  BY DEF Init, AB!Init
<1>2. ASSUME IInv, IInv', Next PROVE AB!Next \/ Same
  <2>1. Framed /\ Shared /\ unsent' \in [Procs -> SUBSET Keys]
    BY <1>2, SaneInParts DEF IInv, TypeInv, TypeOK
  <2>2. CASE Tick
    BY <2>2 DEF Tick, stored, locals, Unsure
  <2>3. CASE Lapse
    BY <2>3 DEF Lapse, locals, AB!Next, AB!Turn
  <2>4. ASSUME NEW p \in Procs, Loads(p) PROVE AB!Next \/ Same
    <3>0. UNCHANGED unsent
      BY <2>4 DEF Loads, WarmStart, FullStrings, LoadStrings, WarmRings, Acquire, ReadToken,
                  ReadMoved, ReadRings, Confirm, FullRings
    <3>1. CASE Confirm(p) /\ hot = token[p]
      <4>1. /\ pc[p] = "confirm" /\ loaded' = [loaded EXCEPT ![p] = merged[p]]
            /\ UNCHANGED <<owner, data, strays>>
        BY <3>1 DEF Confirm, Install, Goto, stored
      <4>2. owner = p => /\ Dailies \subseteq DOMAIN loaded'[p]
                         /\ \A k \in DOMAIN loaded'[p] \ strays : loaded'[p][k] = data[k]
        BY <1>2, <2>1, <4>1 DEF IInv, LoadIsTrue, Framed
      <4>3. \A q \in Procs \ {p} : loaded'[q] = loaded[q]
        BY <2>1, <4>1 DEF Framed
      <4> QED
        BY <3>0, <4>1, <4>2, <4>3 DEF AB!Next, AB!Load
    <3>2. CASE FullRings(p)
      <4>1. /\ pc[p] = "fullRings" /\ loaded' = [loaded EXCEPT ![p] = Rung(p)]
            /\ UNCHANGED <<owner, data, strays>>
        BY <3>2 DEF FullRings, Install, Goto, stored
      <4>2. loaded'[p] = [k \in DOMAIN merged[p] \cup Rings |->
                             IF k \in Rings THEN data[k] ELSE merged[p][k]]
        BY <2>1, <4>1 DEF Framed, Rung
      <4>3. owner = p => /\ Dailies \subseteq DOMAIN loaded'[p]
                         /\ \A k \in DOMAIN loaded'[p] \ strays : loaded'[p][k] = data[k]
        BY <1>2, <4>1, <4>2 DEF IInv, LoadIsTrue
      <4>4. \A q \in Procs \ {p} : loaded'[q] = loaded[q]
        BY <2>1, <4>1 DEF Framed
      <4> QED
        BY <3>0, <4>1, <4>3, <4>4 DEF AB!Next, AB!Load
    <3>3. CASE Acquire(p)
      BY <3>0, <3>3 DEF Acquire, AB!Next, AB!Turn
    <3> QED
      BY <2>4, <3>0, <3>1, <3>2, <3>3
         DEF Loads, WarmStart, FullStrings, LoadStrings, WarmRings, ReadToken,
             ReadMoved, ReadRings, Confirm, stored, Unsure
  <2>5. ASSUME NEW p \in Procs, Saves(p) PROVE AB!Next \/ Same
    <3> DEFINE Changed == {k \in Keys : data'[k] # data[k]}
    <3>1. /\ unsent[p] \subseteq Unsure
          /\ unsent'[p] = unsent[p] => Unsure' = Unsure
          /\ \A K : unsent'[p] \subseteq Unsure \cup K => Unsure' \subseteq Unsure \cup K
      <4>1. \A q \in Procs \ {p} : unsent'[q] = unsent[q]
        BY <1>2, <2>5, OthersRest DEF Step, Saves, IInv, Rests
      <4> QED
        BY <1>2, <2>1, <4>1, UnsureOfOne DEF IInv
    <3>2. ASSUME NEW keys \in SUBSET Keys, Written(keys)
          PROVE  data' \in [Keys -> Nat] /\ keys \subseteq Changed
      BY <2>1, <3>2 DEF Written, Shared
    <3>3. ASSUME owner = p, UNCHANGED <<owner, loaded>>, data' \in [Keys -> Nat],
                 strays \subseteq strays', strays' \ strays \subseteq Unsure \cup Changed,
                 unsent'[p] \subseteq Unsure \cup Changed
          PROVE  AB!Next
      <4>1. Unsure' \subseteq Unsure \cup Changed
        BY <3>1, <3>3
      <4>2. AB!Write
        BY <3>3, <4>1, KeysAssumption DEF AB!Write, Unsure
      <4> QED
        BY <4>2 DEF AB!Next
    <3>4. CASE Flush(p) \/ FlushUnstamped(p) \/ FlushReplyLost(p)
      <4>1. PICK touched \in Touches(p) : Written(touched) /\ unsent'[p] \subseteq touched
        BY <2>1, <3>4 DEF Flush, FlushUnstamped, FlushReplyLost, Framed
      <4>2. owner = p /\ UNCHANGED <<owner, loaded, strays>>
        BY <3>4 DEF Flush, FlushUnstamped, FlushReplyLost
      <4>3. touched \in SUBSET Keys
        BY <1>2, TouchesAreKeys DEF IInv, TypeInv
      <4> QED
        BY <3>2, <3>3, <4>1, <4>2, <4>3
    <3>5. CASE GroupWrite(p)
      <4>1. PICK k \in Keys : Written({k}) /\ unsent'[p] \subseteq unsent[p]
        BY <2>1, <3>5 DEF GroupWrite, Grouped, Framed
      <4>2. owner = p /\ UNCHANGED <<owner, loaded, strays>>
        BY <3>5 DEF GroupWrite
      <4> QED
        BY <3>1, <3>2, <3>3, <4>1, <4>2
    <3>6. CASE Fails(p)
      <4>1. PICK wrote \in SUBSET Keys :
               /\ GivenUp(p, wrote)
               /\ Written(wrote) \/ (wrote = {} /\ UNCHANGED data)
        BY <3>6, SavesGivenUp
      <4>2. /\ owner = p /\ UNCHANGED <<owner, loaded>> /\ unsent'[p] = {}
            /\ strays' = strays \cup ((unsent[p] \cup wrote) \ (rewrite[p] \cup Always))
        BY <2>1, <4>1 DEF GivenUp, Framed
      <4>3. data' \in [Keys -> Nat] /\ wrote \subseteq Changed
        BY <2>1, <3>2, <4>1 DEF Shared
      <4> QED
        BY <3>1, <3>3, <4>2, <4>3
    <3>7. CASE Strip(p)
      BY <3>1, <3>7 DEF Strip
    <3>8. CASE LeaseLost(p) \/ Release(p)
      <4>1. /\ UNCHANGED <<data, loaded, strays>> /\ unsent'[p] = {}
            /\ owner' \in Procs \cup {None}
        BY <2>1, <3>8 DEF LeaseLost, Release, Ends, stored, Shared, Framed
      <4>2. Unsure' \subseteq Unsure
        BY <3>1, <4>1
      <4> QED
        BY <4>1, <4>2 DEF AB!Next, AB!Turn, Unsure
    <3> QED
      BY <2>5, <3>4, <3>5, <3>6, <3>7, <3>8 DEF Saves, Fails
  <2> QED
    BY <1>2, <2>2, <2>3, <2>4, <2>5 DEF Next, Step, Loads, Saves
<1>3. ASSUME IInv, UNCHANGED vars PROVE Same
  BY <1>3 DEF vars, stored, locals, Unsure
<1>5. Init => IInv
  BY InitHolds
<1>6. IInv /\ [Next]_vars => IInv'
  BY NextHolds
<1>4. IInv /\ IInv' /\ [Next]_vars
        => [AB!Next]_<<owner, data, loaded, UNION {unsent[p] : p \in Procs}, strays>>
  BY <1>2, <1>3 DEF Unsure
<1> QED
  BY <1>1, <1>4, <1>5, <1>6, PTL DEF Spec, ReloadsTheBook, AB!Spec
=============================================================================
