-------------------------- MODULE JevQueueProofs --------------------------
(***************************************************************************)
(* Theorems about JevQueue, for every set of invocations, pairs, bars and     *)
(* environments, every cap, reserve and price: the meter keeps its caps and   *)
(* covers what was spent, and no stored outcome is paid for again.            *)
(***************************************************************************)
EXTENDS JevQueue, TLAPS

USE DEF stored, histories

-----------------------------------------------------------------------------
(* The inductive invariant, in parts.                                        *)

Fields == {"queue", "done", "first", "caught", "bar", "through", "skip", "meter"}

MeterOK(m) ==
    /\ DOMAIN m = {"total", "month", "label"}
    /\ m.total \in 0..Cap
    /\ m.month \in 0..m.total

BookOK(m) == DOMAIN m = Fields /\ MeterOK(m.meter)

(* A call in flight has its reserve on the meter.                            *)
Holds(h) ==
    pc[h] = "calling" => mem[h].meter.total >= Reserve /\ mem[h].meter.month >= Reserve

MeterInv ==
    /\ scenario \in Scenarios
    /\ DOMAIN mem = Procs
    /\ DOMAIN pc = Procs
    /\ BookOK(saved)
    /\ \A h \in Procs : BookOK(mem[h]) /\ Holds(h)

(* While nothing is lost, who runs is the owner.                             *)
OwnerRuns ==
    /\ \A h \in Procs : Running(h) => owner = h
    /\ owner # None => owner \in Procs /\ Running(owner)

(* The meter without the hold of the call in flight.                         *)
Booked ==
    IF owner # None /\ pc[owner] = "calling" THEN Meter.total - Reserve ELSE Meter.total

Covers(amount, total) ==
    \/ amount <= total
    \/ \E price \in Prices : price > Reserve /\ total + price - Reserve > Cap

SpendInv == losses = 0 => OwnerRuns /\ Covers(spent - blind, Booked)

(* The answer key the drain read still says what it said.                    *)
ReadStays ==
    \A h \in Procs :
        (pc[h] = "answer" /\ owner = h /\ ~found[h]) => row[h] \notin answers

(* DOMAINs of the per-process variables that the drain uses.                 *)
DrainInv ==
    /\ DOMAIN pc = Procs /\ DOMAIN row = Procs /\ DOMAIN found = Procs
    /\ ReadStays

-----------------------------------------------------------------------------
(* What the operators on the meter do.                                       *)

(* A fresh book has a fresh meter, and a book from the store brings its own.  *)
LEMMA FreshOK == BookOK(Fresh)
  BY MoneyAssumption DEF BookOK, MeterOK, Fresh, FreshMeter, Fields

LEMMA InstalledMeter ==
  ASSUME NEW m, NEW s, NEW readable
  PROVE  DOMAIN Installed(m, s, readable) = Fields /\ Installed(m, s, readable).meter = s.meter
  BY DEF Installed, Fields

LEMMA SnapshotMeter ==
  ASSUME NEW m, DOMAIN m = Fields, NEW t, NEW shed
  PROVE  DOMAIN Snapshot(m, t, shed) = Fields /\ Snapshot(m, t, shed).meter = m.meter
  BY DEF Snapshot, Fields

LEMMA SettledStampsMeter ==
  ASSUME NEW m, DOMAIN m = Fields
  PROVE  DOMAIN SettledStamps(m) = Fields /\ SettledStamps(m).meter = m.meter
  BY DEF SettledStamps, Fields

LEMMA StampedMeter ==
  ASSUME NEW m, DOMAIN m = Fields, NEW bar, NEW pairs
  PROVE  DOMAIN Stamped(m, bar, pairs) = Fields /\ Stamped(m, bar, pairs).meter = m.meter
  BY DEF Stamped, Fields

LEMMA CaughtUpMeter ==
  ASSUME NEW m, DOMAIN m = Fields, NEW bar, NEW pairs
  PROVE  DOMAIN CaughtUp(m, bar, pairs) = Fields /\ CaughtUp(m, bar, pairs).meter = m.meter
<1> DEFINE c == [m EXCEPT !.caught = @ \cup {bar}]
<1>1. DOMAIN c = Fields /\ c.meter = m.meter
  BY DEF Fields
<1> HIDE DEF c
<1>2. DOMAIN Stamped(c, bar, pairs) = Fields /\ Stamped(c, bar, pairs).meter = m.meter
  BY <1>1, StampedMeter
<1>3. CaughtUp(m, bar, pairs) = [Stamped(c, bar, pairs) EXCEPT !.bar = bar]
  BY DEF CaughtUp, c
<1> QED
  BY <1>2, <1>3 DEF Fields

LEMMA ScheduledMeter ==
  ASSUME NEW m, DOMAIN m = Fields, NEW bar, NEW pairs, NEW complete
  PROVE  /\ DOMAIN Scheduled(m, bar, pairs, complete) = Fields
         /\ Scheduled(m, bar, pairs, complete).meter = m.meter
<1>1. DOMAIN Stamped(m, bar, pairs) = Fields /\ Stamped(m, bar, pairs).meter = m.meter
  BY StampedMeter
<1> QED
  BY <1>1 DEF Scheduled, Fields

(* A hold that fits keeps the caps.                                          *)
LEMMA SpendKeeps ==
  ASSUME NEW m, MeterOK(m), NEW cost \in Nat, NEW label, Fits(m, cost, label)
  PROVE  /\ MeterOK(Spend(m, cost, label))
         /\ Spend(m, cost, label).total = m.total + cost
         /\ Spend(m, cost, label).month >= cost
  BY MoneyAssumption DEF MeterOK, Fits, Spend, MonthSpend

(* Settling replaces the hold by the price, when it fits.                    *)
LEMMA SettledKeeps ==
  ASSUME NEW m, MeterOK(m), m.total >= Reserve, m.month >= Reserve,
         NEW price \in Nat, Settles(m, price)
  PROVE  /\ MeterOK(Settled(m, price))
         /\ Settled(m, price).total = m.total - Reserve + price
<1>1. CASE price > Reserve
  <2>1. Fits(m, price - Reserve, m.label) /\ price - Reserve \in Nat
    BY <1>1, MoneyAssumption DEF Settles
  <2> QED
    BY <1>1, <2>1, SpendKeeps, MoneyAssumption DEF Settled, MeterOK
<1>2. CASE ~(price > Reserve)
  <2>1. Settled(m, price) = [m EXCEPT !.total = @ - (Reserve - price), !.month = @ - (Reserve - price)]
    BY <1>2 DEF Settled
  <2> QED
    BY <1>2, <2>1, MoneyAssumption DEF MeterOK
<1> QED
  BY <1>1, <1>2

(* A failure's price is charged when it fits; else the hold stays, and the    *)
(* price is one that could not be charged in full.                           *)
LEMMA ChargedKeeps ==
  ASSUME NEW m, MeterOK(m), m.total >= Reserve, m.month >= Reserve, NEW price \in Nat
  PROVE  /\ MeterOK(Charged(m, price))
         /\ \/ Charged(m, price).total = m.total - Reserve + price
            \/ /\ Charged(m, price) = m
               /\ price > Reserve
               /\ m.total + price - Reserve > Cap
<1>1. CASE Settles(m, price)
  BY <1>1, SettledKeeps DEF Charged
<1>2. CASE ~Settles(m, price)
  <2>1. price > Reserve /\ ~Fits(m, price - Reserve, m.label) /\ Charged(m, price) = m
    BY <1>2 DEF Settles, Charged
  <2>2. m.total + price - Reserve > Cap
    BY <2>1, MoneyAssumption DEF Fits, MonthSpend, MeterOK
  <2> QED
    BY <2>1, <2>2
<1> QED
  BY <1>1, <1>2

-----------------------------------------------------------------------------
(* What one step does.                                                       *)

(* A step of process h leaves the books and places of the others alone.       *)
StepOf(h) ==
    /\ scenario' = scenario
    /\ DOMAIN mem' = Procs /\ DOMAIN pc' = Procs
    /\ \A g \in Procs \ {h} : mem'[g] = mem[g] /\ pc'[g] = pc[g]

(* A step that neither starts nor ends a call, nor moves the lease.           *)
Quiet(h) ==
    /\ StepOf(h)
    /\ DOMAIN mem'[h] = Fields /\ mem'[h].meter = mem[h].meter
    /\ pc'[h] = "calling" <=> pc[h] = "calling"
    /\ Running(h) /\ Running(h)'
    /\ UNCHANGED <<owner, spent, blind, losses>>
    /\ \/ saved' = saved
       \/ owner = h /\ DOMAIN saved' = Fields /\ saved'.meter = mem[h].meter

LEMMA BarClosesQuiet ==
  ASSUME MeterInv, NEW h \in Procs, BarCloses(h)
  PROVE  Quiet(h)
<1> PICK bar \in scenario.bars, pairs \in SUBSET scenario.pairs :
        \E complete \in SUBSET pairs : Schedule(h, bar, pairs, complete)
  BY DEF BarCloses
<1> PICK complete \in SUBSET pairs : Schedule(h, bar, pairs, complete)
  OBVIOUS
<1> DEFINE m == SettledStamps(mem[h])
<1> DEFINE x == IF ~New(m, bar, pairs) THEN m
                ELSE IF Expired(bar, clock) THEN CaughtUp(m, bar, pairs)
                ELSE Scheduled(m, bar, pairs, complete)
<1>1. DOMAIN m = Fields /\ m.meter = mem[h].meter
  BY SettledStampsMeter DEF MeterInv, BookOK
<1>2. mem' = [mem EXCEPT ![h] = x] /\ Running(h) /\ UNCHANGED <<scenario, owner, saved, pc, losses, spent, blind>>
  BY DEF Schedule
<1> HIDE DEF m
<1>3. DOMAIN x = Fields /\ x.meter = mem[h].meter
  BY <1>1, CaughtUpMeter, ScheduledMeter
<1> HIDE DEF x
<1> QED
  BY <1>2, <1>3 DEF Quiet, StepOf, MeterInv, Running

LEMMA SavesQuiet ==
  ASSUME MeterInv, NEW h \in Procs,
         (Save(h) /\ owner = h) \/ SaveReply(h) \/ SaveReplyLost(h)
  PROVE  Quiet(h)
<1>1. CASE Save(h) /\ owner = h
  <2>1. PICK shed \in BOOLEAN : saved' = Snapshot(mem[h], clock, shed)
    BY <1>1 DEF Save, Flush
  <2>2. DOMAIN saved' = Fields /\ saved'.meter = mem[h].meter
    BY <2>1, SnapshotMeter DEF MeterInv, BookOK
  <2> QED
    BY <1>1, <2>2 DEF Save, Quiet, StepOf, MeterInv, BookOK, Running
<1>2. CASE SaveReply(h)
  BY <1>2 DEF SaveReply, Goto, Quiet, StepOf, MeterInv, BookOK, Running
<1>3. CASE SaveReplyLost(h)
  BY <1>3 DEF SaveReplyLost, Goto, Quiet, StepOf, MeterInv, BookOK, Running
<1> QED
  BY <1>1, <1>2, <1>3

LEMMA DrainsQuiet ==
  ASSUME MeterInv, NEW h \in Procs,
         \/ DrainStart(h) \/ DrainNext(h) \/ AlreadyAnswered(h)
         \/ TimedOut(h) \/ TooLate(h) \/ NotCalled(h)
  PROVE  Quiet(h)
<1> DOMAIN mem[h] = Fields
  BY DEF MeterInv, BookOK
<1>1. CASE DrainStart(h)
  BY <1>1 DEF DrainStart, Goto, Quiet, StepOf, MeterInv, BookOK, Running
<1>2. CASE DrainNext(h)
  <2> DEFINE x == [mem[h] EXCEPT !.done = Bounded(mem[h].done, now[h]),
                                 !.queue = Undone(mem[h].queue, Bounded(mem[h].done, now[h]))]
  <2>1. DOMAIN x = Fields /\ x.meter = mem[h].meter
    BY DEF Fields
  <2>2. DOMAIN mem' = Procs /\ mem'[h] = x /\ \A g \in Procs \ {h} : mem'[g] = mem[g]
    BY <1>2 DEF DrainNext, MeterInv
  <2>3. /\ DOMAIN pc' = Procs /\ pc[h] = "lease" /\ pc'[h] \in {"idle", "answer"}
        /\ \A g \in Procs \ {h} : pc'[g] = pc[g]
    BY <1>2 DEF DrainNext, MeterInv
  <2>4. UNCHANGED <<scenario, owner, saved, spent, blind, losses>>
    BY <1>2 DEF DrainNext
  <2> HIDE DEF x
  <2> QED
    BY <2>1, <2>2, <2>3, <2>4 DEF Quiet, StepOf, Running
<1>3. CASE AlreadyAnswered(h)
  <2> DEFINE x == Removed([mem[h] EXCEPT !.done = @ \cup {row[h]}], row[h])
  <2>1. DOMAIN x = Fields /\ x.meter = mem[h].meter
    BY DEF Removed, Fields
  <2>2. mem' = [mem EXCEPT ![h] = x]
    BY <1>3 DEF AlreadyAnswered
  <2> HIDE DEF x
  <2> QED
    BY <1>3, <2>1, <2>2 DEF AlreadyAnswered, DrainEnds, Goto, Quiet, StepOf, MeterInv, Running
<1>4. CASE TimedOut(h)
  <2> DEFINE x == Removed(SkippedIn(mem[h], {row[h]}), row[h])
  <2>1. DOMAIN x = Fields /\ x.meter = mem[h].meter
    BY DEF Removed, SkippedIn, Fields
  <2>2. mem' = [mem EXCEPT ![h] = x]
    BY <1>4 DEF TimedOut
  <2> HIDE DEF x
  <2> QED
    BY <1>4, <2>1, <2>2 DEF TimedOut, DrainEnds, Goto, Quiet, StepOf, MeterInv, Running
<1>5. CASE TooLate(h)
  BY <1>5 DEF TooLate, DrainEnds, Goto, Quiet, StepOf, MeterInv, BookOK, Running
<1>6. CASE NotCalled(h)
  <2> DEFINE packets == Range(mem[h].queue) \ mem[h].done
  <2> DEFINE x == [SkippedIn(mem[h], packets) EXCEPT !.queue = <<>>]
  <2>1. DOMAIN x = Fields /\ x.meter = mem[h].meter
    BY DEF SkippedIn, Fields
  <2>2. mem' = [mem EXCEPT ![h] = x]
    BY <1>6 DEF NotCalled
  <2> HIDE DEF x
  <2> QED
    BY <1>6, <2>1, <2>2 DEF NotCalled, DrainEnds, Goto, Quiet, StepOf, MeterInv, Running
<1> QED
  BY <1>1, <1>2, <1>3, <1>4, <1>5, <1>6

(* The call's reserve goes on the meter.                                     *)
LEMMA CallStartsStep ==
  ASSUME MeterInv, NEW h \in Procs, CallStarts(h)
  PROVE  /\ StepOf(h) /\ BookOK(mem'[h])
         /\ pc[h] = "answer" /\ pc'[h] = "calling"
         /\ mem'[h].meter.total = mem[h].meter.total + Reserve
         /\ mem'[h].meter.month >= Reserve
         /\ UNCHANGED <<saved, owner, spent, blind, losses>>
<1> DEFINE meter == mem[h].meter
           label == Month(now[h])
<1>1. MeterOK(meter) /\ DOMAIN mem[h] = Fields /\ Reserve \in Nat
  BY MoneyAssumption DEF MeterInv, BookOK
<1>2. Fits(meter, Reserve, label)
  BY DEF CallStarts
<1>3. /\ MeterOK(Spend(meter, Reserve, label))
      /\ Spend(meter, Reserve, label).total = meter.total + Reserve
      /\ Spend(meter, Reserve, label).month >= Reserve
  BY <1>1, <1>2, SpendKeeps
<1>4. mem' = [mem EXCEPT ![h] = [mem[h] EXCEPT !.meter = Spend(meter, Reserve, label)]]
  BY DEF CallStarts
<1>5. mem'[h] = [mem[h] EXCEPT !.meter = Spend(meter, Reserve, label)]
  BY <1>4 DEF MeterInv
<1>6. DOMAIN mem'[h] = Fields /\ mem'[h].meter = Spend(meter, Reserve, label)
  BY <1>1, <1>5 DEF Fields
<1>7. StepOf(h) /\ pc[h] = "answer" /\ pc'[h] = "calling" /\ UNCHANGED <<saved, owner, spent, blind, losses>>
  BY <1>4 DEF CallStarts, InTime, Goto, StepOf, MeterInv
<1> QED
  BY <1>3, <1>6, <1>7 DEF BookOK

(* What the end of a call makes of the meter and of the sum spent: the price  *)
(* replaces the hold, or the hold stays.                                     *)
CallEnded(h, m) ==
    /\ StepOf(h)
    /\ pc[h] = "calling" /\ pc'[h] = "idle"
    /\ DOMAIN mem'[h] = Fields /\ mem'[h].meter = m
    /\ UNCHANGED <<saved, owner, losses>>

LEMMA CallEndsStep ==
  ASSUME MeterInv, NEW h \in Procs, NEW m, DOMAIN m = Fields, CallEnds(h, m)
  PROVE  CallEnded(h, m.meter)
<1>1. DOMAIN Removed(m, row[h]) = Fields /\ Removed(m, row[h]).meter = m.meter
  BY DEF Removed, Fields
<1>2. mem' = [mem EXCEPT ![h] = Removed(m, row[h])]
  BY DEF CallEnds
<1> QED
  BY <1>1, <1>2 DEF CallEnds, DrainEnds, Goto, CallEnded, StepOf, MeterInv

(* The four ways a call ends.                                                *)
LEMMA CallEndings ==
  ASSUME MeterInv, NEW h \in Procs,
         \/ \E price \in scenario.prices : Answered(h, price) \/ FailedAt(h, price)
         \/ \E price \in scenario.prices \cup {Reserve} : FailedUnpriced(h, price)
         \/ NeverLeft(h)
  PROVE  \/ \E price \in Prices : /\ CallEnded(h, Charged(mem[h].meter, price))
                                  /\ spent' = spent + price /\ blind' = blind
         \/ \E price \in Prices \cup {Reserve} :
               /\ CallEnded(h, mem[h].meter)
               /\ spent' = spent + price /\ blind' = blind + Larger(0, price - Reserve)
         \/ CallEnded(h, Settled(mem[h].meter, 0)) /\ spent' = spent /\ blind' = blind
<1> DEFINE b == mem[h]
<1>0. DOMAIN b = Fields /\ scenario.prices \subseteq Prices
  BY ScenariosAssumption DEF MeterInv, BookOK
<1>1. ASSUME NEW price \in scenario.prices, Answered(h, price)
      PROVE  /\ CallEnded(h, Charged(mem[h].meter, price))
             /\ spent' = spent + price /\ blind' = blind
  <2> DEFINE m == [b EXCEPT !.meter = Settled(@, price), !.done = @ \cup {row[h]},
                            !.skip.answered = @ + 1]
  <2>1. DOMAIN m = Fields /\ m.meter = Settled(b.meter, price)
    BY <1>0 DEF Fields
  <2>2. CallEnds(h, m) /\ spent' = spent + price /\ blind' = blind /\ Settles(b.meter, price)
    BY <1>1 DEF Answered
  <2> HIDE DEF m
  <2> QED
    BY <2>1, <2>2, CallEndsStep DEF Charged
<1>2. ASSUME NEW price \in scenario.prices, FailedAt(h, price)
      PROVE  /\ CallEnded(h, Charged(mem[h].meter, price))
             /\ spent' = spent + price /\ blind' = blind
  <2> DEFINE m == SkippedIn([b EXCEPT !.meter = Charged(@, price)], {row[h]})
  <2>1. DOMAIN m = Fields /\ m.meter = Charged(b.meter, price)
    BY <1>0 DEF SkippedIn, Fields
  <2>2. CallEnds(h, m) /\ spent' = spent + price /\ blind' = blind
    BY <1>2 DEF FailedAt
  <2> HIDE DEF m
  <2> QED
    BY <2>1, <2>2, CallEndsStep
<1>3. ASSUME NEW price \in scenario.prices \cup {Reserve}, FailedUnpriced(h, price)
      PROVE  /\ CallEnded(h, mem[h].meter)
             /\ spent' = spent + price /\ blind' = blind + Larger(0, price - Reserve)
  <2> DEFINE m == SkippedIn(b, {row[h]})
  <2>1. DOMAIN m = Fields /\ m.meter = b.meter
    BY <1>0 DEF SkippedIn, Fields
  <2>2. /\ CallEnds(h, m)
        /\ spent' = spent + price /\ blind' = blind + Larger(0, price - Reserve)
    BY <1>3 DEF FailedUnpriced
  <2> HIDE DEF m
  <2> QED
    BY <2>1, <2>2, CallEndsStep
<1>4. ASSUME NeverLeft(h)
      PROVE  CallEnded(h, Settled(mem[h].meter, 0)) /\ spent' = spent /\ blind' = blind
  <2> DEFINE m == SkippedIn([b EXCEPT !.meter = Settled(@, 0)], {row[h]})
  <2>1. DOMAIN m = Fields /\ m.meter = Settled(b.meter, 0)
    BY <1>0 DEF SkippedIn, Fields
  <2>2. CallEnds(h, m) /\ spent' = spent /\ blind' = blind
    BY <1>4 DEF NeverLeft
  <2> HIDE DEF m
  <2> QED
    BY <2>1, <2>2, CallEndsStep
<1> QED
  BY <1>0, <1>1, <1>2, <1>3, <1>4

(* The lease moves: a standby installs the book, takes the lease, gives it    *)
(* up, or is gone.                                                          *)
LEMMA WarmStep ==
  ASSUME MeterInv, NEW h \in Procs, Warm(h)
  PROVE  /\ StepOf(h) /\ BookOK(mem'[h])
         /\ pc[h] = "off" /\ pc'[h] = "standby"
         /\ UNCHANGED <<saved, owner, spent, blind, losses>>
<1>1. BookOK(Installed(Fresh, saved, FALSE))
  BY InstalledMeter DEF MeterInv, BookOK
<1> QED
  BY <1>1 DEF Warm, Goto, StepOf, MeterInv

LEMMA ReloadStep ==
  ASSUME MeterInv, NEW h \in Procs, Reload(h)
  PROVE  /\ StepOf(h) /\ DOMAIN mem'[h] = Fields /\ mem'[h].meter = saved.meter
         /\ pc[h] = "standby" /\ pc'[h] = "idle"
         /\ owner = None /\ owner' = h
         /\ UNCHANGED <<saved, spent, blind, losses>>
<1>1. /\ DOMAIN Installed(mem[h], saved, TRUE) = Fields
      /\ Installed(mem[h], saved, TRUE).meter = saved.meter
  BY InstalledMeter
<1> QED
  BY <1>1 DEF Reload, Goto, StepOf, MeterInv

LEMMA ReleaseStep ==
  ASSUME MeterInv, NEW h \in Procs, Release(h)
  PROVE  /\ StepOf(h) /\ mem'[h] = Fresh
         /\ pc[h] = "idle" /\ pc'[h] = "off"
         /\ owner = h /\ owner' = None
         /\ DOMAIN saved' = Fields /\ saved'.meter = mem[h].meter
         /\ UNCHANGED <<spent, blind, losses>>
<1>1. PICK shed \in BOOLEAN : saved' = Snapshot(mem[h], clock, shed)
  BY DEF Release, Flush
<1>2. DOMAIN saved' = Fields /\ saved'.meter = mem[h].meter
  BY <1>1, SnapshotMeter DEF MeterInv, BookOK
<1> QED
  BY <1>2 DEF Release, Forget, Goto, StepOf, MeterInv

(* A save that finds the lease gone ends the invocation.                     *)
LEMMA StandsDownStep ==
  ASSUME MeterInv, NEW h \in Procs, Save(h), owner # h
  PROVE  /\ StepOf(h) /\ mem'[h] = Fresh
         /\ pc[h] = "idle" /\ pc'[h] = "off"
         /\ UNCHANGED <<saved, owner, spent, blind, losses>>
  BY DEF Save, Forget, StepOf, MeterInv

LEMMA KillStep ==
  ASSUME MeterInv, NEW h \in Procs, Kill(h)
  PROVE  StepOf(h) /\ mem'[h] = Fresh /\ pc'[h] = "off" /\ saved' = saved
  BY DEF Kill, Forget, StepOf, MeterInv

-----------------------------------------------------------------------------
(* The caps.                                                                *)

LEMMA MeterInvInit == Init => MeterInv
  BY FreshOK DEF Init, MeterInv, Holds

(* A step of one process that leaves its own book and the saved one good.     *)
LEMMA StepKeepsMeterInv ==
  ASSUME MeterInv, NEW h \in Procs, StepOf(h),
         BookOK(saved'), BookOK(mem'[h]), Holds(h)'
  PROVE  MeterInv'
  BY DEF StepOf, MeterInv, Holds

LEMMA QuietKeepsMeterInv ==
  ASSUME MeterInv, NEW h \in Procs, Quiet(h)
  PROVE  MeterInv'
<1>1. BookOK(saved') /\ BookOK(mem'[h])
  BY DEF Quiet, MeterInv, BookOK
<1>2. Holds(h)'
  BY DEF Quiet, MeterInv, Holds
<1> QED
  BY <1>1, <1>2, StepKeepsMeterInv DEF Quiet

LEMMA CallEndedKeepsMeterInv ==
  ASSUME MeterInv, NEW h \in Procs, NEW m, MeterOK(m), CallEnded(h, m)
  PROVE  MeterInv'
<1>1. BookOK(saved') /\ BookOK(mem'[h]) /\ Holds(h)'
  BY DEF CallEnded, MeterInv, BookOK, Holds
<1> QED
  BY <1>1, StepKeepsMeterInv DEF CallEnded

(* The meter of a process whose call is in flight, and what ends leave of it. *)
LEMMA HeldMeter ==
  ASSUME MeterInv, NEW h \in Procs, pc[h] = "calling"
  PROVE  LET m == mem[h].meter IN
         /\ MeterOK(m) /\ m.total >= Reserve /\ m.month >= Reserve
         /\ MeterOK(Settled(m, 0)) /\ Settled(m, 0).total = m.total - Reserve
<1> DEFINE m == mem[h].meter
<1>1. MeterOK(m) /\ m.total >= Reserve /\ m.month >= Reserve
  BY DEF MeterInv, BookOK, Holds
<1>2. Settles(m, 0)
  BY MoneyAssumption DEF Settles
<1> HIDE DEF m
<1>3. MeterOK(Settled(m, 0)) /\ Settled(m, 0).total = m.total - Reserve + 0
  BY <1>1, <1>2, SettledKeeps
<1>4. m.total \in Int /\ Reserve \in Int
  BY <1>1, MoneyAssumption DEF MeterOK
<1> QED
  BY <1>1, <1>3, <1>4 DEF m

LEMMA MeterInvNext == MeterInv /\ [Next]_vars => MeterInv'
<1> SUFFICES ASSUME MeterInv, [Next]_vars PROVE MeterInv'
  OBVIOUS
<1>1. CASE Tick
  BY <1>1 DEF Tick, MeterInv, Holds
<1>2. CASE UNCHANGED vars
  BY <1>2 DEF vars, MeterInv, Holds
<1>3. ASSUME NEW h \in Procs, Quiet(h) PROVE MeterInv'
  BY <1>3, QuietKeepsMeterInv
<1>4. ASSUME NEW h \in Procs, Warm(h) PROVE MeterInv'
  <2> BookOK(saved')
    BY <1>4, WarmStep DEF MeterInv, BookOK
  <2> QED
    BY <1>4, WarmStep, StepKeepsMeterInv DEF Holds
<1>5. ASSUME NEW h \in Procs, Reload(h) PROVE MeterInv'
  <2> BookOK(mem'[h]) /\ BookOK(saved')
    BY <1>5, ReloadStep DEF MeterInv, BookOK
  <2> QED
    BY <1>5, ReloadStep, StepKeepsMeterInv DEF Holds
<1>6. ASSUME NEW h \in Procs, Release(h) PROVE MeterInv'
  <2> BookOK(mem'[h]) /\ BookOK(saved')
    BY <1>6, ReleaseStep, FreshOK DEF MeterInv, BookOK
  <2> QED
    BY <1>6, ReleaseStep, StepKeepsMeterInv DEF Holds
<1>7. ASSUME NEW h \in Procs, Save(h) PROVE MeterInv'
  <2>1. CASE owner = h
    BY <1>3, <1>7, <2>1, SavesQuiet
  <2>2. CASE owner # h
    <3> BookOK(mem'[h]) /\ BookOK(saved')
      BY <1>7, <2>2, StandsDownStep, FreshOK DEF MeterInv, BookOK
    <3> QED
      BY <1>7, <2>2, StandsDownStep, StepKeepsMeterInv DEF Holds
  <2> QED
    BY <2>1, <2>2
<1>8. ASSUME NEW h \in Procs, Kill(h) PROVE MeterInv'
  <2> BookOK(mem'[h]) /\ BookOK(saved')
    BY <1>8, KillStep, FreshOK DEF MeterInv, BookOK
  <2> QED
    BY <1>8, KillStep, StepKeepsMeterInv DEF Holds
<1>9. ASSUME NEW h \in Procs, Lapse(h) PROVE MeterInv'
  BY <1>9 DEF Lapse, MeterInv, Holds
<1>10. ASSUME NEW h \in Procs, CallStarts(h) PROVE MeterInv'
  <2> BookOK(saved')
    BY <1>10, CallStartsStep DEF MeterInv, BookOK
  <2> mem'[h].meter.total >= Reserve
    BY <1>10, CallStartsStep, MoneyAssumption DEF MeterInv, BookOK, MeterOK
  <2> QED
    BY <1>10, CallStartsStep, StepKeepsMeterInv DEF Holds
<1>11. ASSUME NEW h \in Procs,
              \/ \E price \in scenario.prices : Answered(h, price) \/ FailedAt(h, price)
              \/ \E price \in scenario.prices \cup {Reserve} : FailedUnpriced(h, price)
              \/ NeverLeft(h)
       PROVE  MeterInv'
  <2>1. ASSUME NEW price \in Prices, CallEnded(h, Charged(mem[h].meter, price)) PROVE MeterInv'
    <3>1. MeterOK(Charged(mem[h].meter, price))
      BY <2>1, HeldMeter, ChargedKeeps, MoneyAssumption DEF CallEnded
    <3> QED
      BY <2>1, <3>1, CallEndedKeepsMeterInv
  <2>2. ASSUME CallEnded(h, mem[h].meter) PROVE MeterInv'
    BY <2>2, HeldMeter, CallEndedKeepsMeterInv DEF CallEnded
  <2>3. ASSUME CallEnded(h, Settled(mem[h].meter, 0)) PROVE MeterInv'
    BY <2>3, HeldMeter, CallEndedKeepsMeterInv DEF CallEnded
  <2> QED
    BY <1>11, <2>1, <2>2, <2>3, CallEndings
<1> QED
  BY <1>1, <1>2, <1>3, <1>4, <1>5, <1>6, <1>7, <1>8, <1>9, <1>10, <1>11,
     BarClosesQuiet, SavesQuiet, DrainsQuiet DEF Next, Invocation, Drain

(* No meter, in memory or saved, passes a cap, goes below zero or shows more   *)
(* for the month than in total (jev-shadow.ts noteJevSpend, adjustJevReserve). *)
THEOREM CapsHoldAlways == Spec => []CapsHold
<1>1. MeterInv => CapsHold
  BY DEF MeterInv, BookOK, MeterOK, CapsHold
<1> QED
  BY <1>1, MeterInvInit, MeterInvNext, PTL DEF Spec

-----------------------------------------------------------------------------
(* What was spent is on the meter.                                           *)

LEMMA CoversMore ==
  ASSUME NEW amount \in Int, NEW total \in Int, Covers(amount, total),
         NEW more \in Nat
  PROVE  /\ Covers(amount + more, total + more)
         /\ Covers(amount, total + more)
<1>1. CASE amount <= total
  BY <1>1 DEF Covers
<1>2. CASE \E price \in Prices : price > Reserve /\ total + price - Reserve > Cap
  <2>1. PICK price \in Prices : price > Reserve /\ total + price - Reserve > Cap
    BY <1>2
  <2>2. total + more + price - Reserve > Cap
    BY <2>1, MoneyAssumption
  <2> QED
    BY <2>1, <2>2 DEF Covers
<1> QED
  BY <1>1, <1>2 DEF Covers

LEMMA SpendInvInit == Init => SpendInv /\ spent \in Nat /\ blind \in Nat
  BY PairsAssumption, FreshOK, MoneyAssumption
     DEF Init, SpendInv, OwnerRuns, Running, Covers, Booked, Meter, Fresh, FreshMeter

(* The step of one owner that goes on.                                       *)
LEMMA OwnersStep ==
  ASSUME MeterInv, MeterInv', NEW h \in Procs, StepOf(h), OwnerRuns, owner = h,
         owner' = owner, Running(h)'
  PROVE  /\ OwnerRuns'
         /\ Meter = mem[h].meter /\ Meter' = mem'[h].meter
         /\ Meter.total \in Int /\ Meter'.total \in Int
         /\ Booked = IF pc[h] = "calling" THEN Meter.total - Reserve ELSE Meter.total
         /\ Booked' = IF pc'[h] = "calling" THEN Meter'.total - Reserve ELSE Meter'.total
<1>1. h # None
  BY PairsAssumption
<1>2. OwnerRuns'
  BY <1>1 DEF OwnerRuns, Running, StepOf
<1>3. Meter = mem[h].meter /\ Meter' = mem'[h].meter
  BY <1>1 DEF Meter
<1>4. Meter.total \in Int /\ Meter'.total \in Int
  BY <1>3 DEF MeterInv, BookOK, MeterOK
<1> QED
  BY <1>1, <1>2, <1>3, <1>4 DEF Booked

LEMMA SpendInvNext ==
  MeterInv /\ MeterInv' /\ SpendInv /\ spent \in Nat /\ blind \in Nat /\ losses \in Nat /\ [Next]_vars
      => SpendInv' /\ spent' \in Nat /\ blind' \in Nat /\ losses' \in Nat
<1> SUFFICES ASSUME MeterInv, MeterInv', SpendInv, spent \in Nat /\ blind \in Nat, losses \in Nat, [Next]_vars
             PROVE  SpendInv' /\ spent' \in Nat /\ blind' \in Nat /\ losses' \in Nat
  OBVIOUS
<1> DEFINE Goal == SpendInv' /\ spent' \in Nat /\ blind' \in Nat /\ losses' \in Nat
<1>0. Reserve \in Nat /\ Prices \subseteq Nat /\ None \notin Procs
  BY MoneyAssumption, PairsAssumption
<1>1. CASE Tick
  BY <1>1 DEF Tick, SpendInv, OwnerRuns, Running, Covers, Booked, Meter
<1>2. CASE UNCHANGED vars
  BY <1>2 DEF vars, SpendInv, OwnerRuns, Running, Covers, Booked, Meter
<1>3. ASSUME NEW h \in Procs, Quiet(h) PROVE Goal
  <2>1. SUFFICES ASSUME losses' = 0 PROVE SpendInv'
    BY <1>3 DEF Quiet, SpendInv
  <2>2. OwnerRuns /\ Covers(spent - blind, Booked) /\ owner = h
    BY <1>3, <2>1 DEF Quiet, SpendInv, OwnerRuns
  <2>3. StepOf(h) /\ owner' = owner /\ Running(h)'
    BY <1>3 DEF Quiet
  <2>4. OwnerRuns' /\ Booked' = Booked
    BY <1>3, <2>2, <2>3, OwnersStep DEF Quiet
  <2> QED
    BY <1>3, <2>2, <2>4 DEF Quiet, SpendInv, Covers
<1>4. ASSUME NEW h \in Procs, Warm(h) PROVE Goal
  <2>1. SUFFICES ASSUME losses' = 0 PROVE SpendInv'
    BY <1>4, WarmStep DEF SpendInv
  <2>2. OwnerRuns /\ Covers(spent - blind, Booked) /\ ~Running(h) /\ ~Running(h)'
    BY <1>4, <2>1, WarmStep DEF SpendInv, Running
  <2>3. OwnerRuns'
    BY <1>4, <2>2, WarmStep DEF OwnerRuns, StepOf, Running
  <2>4. Booked' = Booked
    BY <1>4, <2>2, WarmStep DEF OwnerRuns, StepOf, Booked, Meter
  <2> QED
    BY <1>4, <2>2, <2>3, <2>4, WarmStep DEF SpendInv, Covers
<1>5. ASSUME NEW h \in Procs, Reload(h) PROVE Goal
  <2>1. SUFFICES ASSUME losses' = 0 PROVE SpendInv'
    BY <1>5, ReloadStep DEF SpendInv
  <2>2. OwnerRuns /\ Covers(spent - blind, Booked)
    BY <1>5, <2>1, ReloadStep DEF SpendInv
  <2>3. OwnerRuns'
    BY <1>0, <1>5, <2>2, ReloadStep DEF OwnerRuns, StepOf, Running
  <2>4. Booked' = Booked
    BY <1>0, <1>5, ReloadStep DEF StepOf, Booked, Meter
  <2> QED
    BY <1>5, <2>2, <2>3, <2>4, ReloadStep DEF SpendInv, Covers
<1>6. ASSUME NEW h \in Procs, Release(h) PROVE Goal
  <2>1. SUFFICES ASSUME losses' = 0 PROVE SpendInv'
    BY <1>6, ReleaseStep DEF SpendInv
  <2>2. OwnerRuns /\ Covers(spent - blind, Booked)
    BY <1>6, <2>1, ReleaseStep DEF SpendInv
  <2>3. OwnerRuns'
    BY <1>0, <1>6, <2>2, ReleaseStep DEF OwnerRuns, StepOf, Running
  <2>4. Booked' = Booked
    BY <1>0, <1>6, ReleaseStep DEF StepOf, Booked, Meter
  <2> QED
    BY <1>6, <2>2, <2>3, <2>4, ReleaseStep DEF SpendInv, Covers
<1>7. ASSUME NEW h \in Procs, Save(h) PROVE Goal
  <2>1. CASE owner = h
    BY <1>3, <1>7, <2>1, SavesQuiet
  <2>2. CASE owner # h
    <3>1. losses # 0
      BY <1>7, <2>2, StandsDownStep DEF SpendInv, OwnerRuns, Running
    <3> QED
      BY <1>7, <2>2, <3>1, StandsDownStep DEF SpendInv
  <2> QED
    BY <2>1, <2>2
<1>8. ASSUME NEW h \in Procs, Kill(h) \/ Lapse(h) PROVE Goal
  BY <1>8 DEF Kill, Lapse, SpendInv
<1>9. ASSUME NEW h \in Procs, CallStarts(h) PROVE Goal
  <2>1. SUFFICES ASSUME losses' = 0 PROVE SpendInv'
    BY <1>9, CallStartsStep DEF SpendInv
  <2>2. OwnerRuns /\ Covers(spent - blind, Booked) /\ owner = h /\ Running(h)'
    BY <1>9, <2>1, CallStartsStep DEF SpendInv, OwnerRuns, Running
  <2>3. OwnerRuns' /\ Booked' = Booked
    BY <1>0, <1>9, <2>2, CallStartsStep, OwnersStep
  <2> QED
    BY <1>9, <2>2, <2>3, CallStartsStep DEF SpendInv, Covers
<1>10. ASSUME NEW h \in Procs, NEW m, CallEnded(h, m), NEW cost \in Nat,
              spent' \in Nat, blind' \in Nat, spent' - blind' <= spent - blind + cost,
              \/ m.total = mem[h].meter.total - Reserve + cost
              \/ /\ m = mem[h].meter
                 /\ \E price \in Prices : price > Reserve /\ m.total + price - Reserve > Cap
       PROVE  Goal
  <2>1. SUFFICES ASSUME losses' = 0 PROVE SpendInv'
    BY <1>10 DEF CallEnded, SpendInv
  <2>2. OwnerRuns /\ Covers(spent - blind, Booked) /\ owner = h /\ Running(h)'
    BY <1>10, <2>1 DEF CallEnded, SpendInv, OwnerRuns, Running
  <2>3. /\ OwnerRuns'
        /\ Meter = mem[h].meter /\ Meter' = m
        /\ Booked = Meter.total - Reserve /\ Booked' = m.total
        /\ Meter.total \in Int /\ m.total \in Int
    BY <1>10, <2>2, OwnersStep DEF CallEnded
  <2>4. CASE m.total = mem[h].meter.total - Reserve + cost
    <3>1. Booked' = Booked + cost /\ Booked \in Int
      BY <1>0, <2>3, <2>4
    <3> HIDE DEF Goal
    <3>2. Covers(spent - blind + cost, Booked + cost)
      BY <2>2, <3>1, CoversMore
    <3>3. Covers(spent' - blind', Booked')
      <4>1. CASE spent - blind + cost <= Booked + cost
        BY <1>10, <3>1, <4>1 DEF Covers
      <4>2. CASE \E price \in Prices : price > Reserve /\ Booked + cost + price - Reserve > Cap
        BY <3>1, <4>2 DEF Covers
      <4> QED
        BY <3>2, <4>1, <4>2 DEF Covers
    <3> QED
      BY <2>3, <3>3 DEF SpendInv, Covers
  <2>5. CASE \E price \in Prices : price > Reserve /\ m.total + price - Reserve > Cap
    BY <2>3, <2>5 DEF SpendInv, Covers
  <2> QED
    BY <1>10, <2>4, <2>5
<1>11. ASSUME NEW h \in Procs,
              \/ \E price \in scenario.prices : Answered(h, price) \/ FailedAt(h, price)
              \/ \E price \in scenario.prices \cup {Reserve} : FailedUnpriced(h, price)
              \/ NeverLeft(h)
       PROVE  Goal
  <2> HIDE DEF Goal
  <2> DEFINE m == mem[h].meter
  <2>1. ASSUME NEW price \in Prices, CallEnded(h, Charged(m, price)),
               spent' = spent + price, blind' = blind
        PROVE  Goal
    <3>1. pc[h] = "calling" /\ price \in Nat
      BY <1>0, <2>1 DEF CallEnded
    <3>2. MeterOK(m) /\ m.total >= Reserve /\ m.month >= Reserve
      BY <3>1, HeldMeter
    <3>3. \/ Charged(m, price).total = m.total - Reserve + price
          \/ Charged(m, price) = m /\ price > Reserve /\ m.total + price - Reserve > Cap
      BY <3>1, <3>2, ChargedKeeps
    <3>4. spent' \in Nat /\ blind' \in Nat /\ spent' - blind' <= spent - blind + price
      BY <2>1, <3>1
    <3> QED
      BY <1>10, <2>1, <3>1, <3>3, <3>4
  <2>2. ASSUME NEW price \in Prices \cup {Reserve}, CallEnded(h, m),
               spent' = spent + price, blind' = blind + Larger(0, price - Reserve)
        PROVE  Goal
    <3>1. m.total \in Int
      BY DEF MeterInv, BookOK, MeterOK
    <3>2. m.total = m.total - Reserve + Reserve
      BY <1>0, <3>1
    <3>3. spent' \in Nat /\ blind' \in Nat /\ spent' - blind' <= spent - blind + Reserve
      BY <1>0, <2>2 DEF Larger
    <3> QED
      BY <1>0, <1>10, <2>2, <3>2, <3>3
  <2>3. ASSUME CallEnded(h, Settled(m, 0)), spent' = spent, blind' = blind PROVE Goal
    <3>1. pc[h] = "calling"
      BY <2>3 DEF CallEnded
    <3>2. m.total \in Int /\ Settled(m, 0).total = m.total - Reserve
      BY <3>1, HeldMeter DEF MeterOK
    <3>3. Settled(m, 0).total = m.total - Reserve + 0
      BY <1>0, <3>2
    <3>4. spent' \in Nat /\ blind' \in Nat /\ spent' - blind' <= spent - blind + 0
      BY <2>3
    <3> QED
      BY <1>10, <2>3, <3>3, <3>4
  <2> QED
    BY <1>11, <2>1, <2>2, <2>3, CallEndings
<1> QED
  BY <1>1, <1>2, <1>3, <1>4, <1>5, <1>6, <1>7, <1>8, <1>9, <1>11,
     BarClosesQuiet, SavesQuiet, DrainsQuiet DEF Next, Invocation, Drain

(* While no process was lost the meter covers what the calls really cost,      *)
(* timeouts included up to their hold, unless it is so near the cap that a     *)
(* dearer answer could not be charged in full (jev-call.ts chargeFailure and   *)
(* the settle of an answer).  The part above the hold of a call that named no  *)
(* price is on no meter: blind counts it.                                     *)
THEOREM SpendIsMeteredAlways == Spec => []SpendIsMetered
<1> DEFINE IInv == MeterInv /\ SpendInv /\ spent \in Nat /\ blind \in Nat /\ losses \in Nat
<1>1. Init => IInv
  BY MeterInvInit, SpendInvInit DEF Init
<1>2. IInv /\ [Next]_vars => IInv'
  BY MeterInvNext, SpendInvNext
<1>3. IInv => SpendIsMetered
  <2> SUFFICES ASSUME IInv, losses = 0 PROVE
          \/ spent - blind <= Meter.total
          \/ \E price \in Prices : price > Reserve /\ Meter.total + price - Reserve > Cap
    BY DEF SpendIsMetered
  <2>1. Covers(spent - blind, Booked)
    BY DEF SpendInv
  <2>2. Meter.total \in Int
    BY DEF SpendInv, OwnerRuns, Meter, MeterInv, BookOK, MeterOK
  <2>3. Booked = Meter.total \/ Booked = Meter.total - Reserve
    BY DEF Booked
  <2>4. Booked \in Int /\ spent - blind \in Int
    BY <2>2, <2>3, MoneyAssumption
  <2>5. PICK more \in Nat : Meter.total = Booked + more
    BY <2>2, <2>3, MoneyAssumption
  <2>6. Covers(spent - blind, Meter.total)
    BY <2>1, <2>4, <2>5, CoversMore
  <2> QED
    BY <2>6 DEF Covers
<1> QED
  BY <1>1, <1>2, <1>3, PTL DEF Spec

-----------------------------------------------------------------------------
(* No stored outcome is paid for again.                                      *)

(* A step of h that stores no answer and leaves the lease and the others'     *)
(* reads alone; its own read is not open afterwards.                         *)
ReadsNothing(h) ==
    /\ DOMAIN pc' = Procs /\ DOMAIN row' = Procs /\ DOMAIN found' = Procs
    /\ \A g \in Procs \ {h} : pc'[g] = pc[g] /\ row'[g] = row[g] /\ found'[g] = found[g]
    /\ owner' \in {owner, h, None}
    /\ answers' = answers \/ owner = h
    /\ pc'[h] # "answer"

LEMMA ReadsNothingKeeps ==
  ASSUME DrainInv, NEW h \in Procs, ReadsNothing(h)
  PROVE  DrainInv'
<1>1. ASSUME NEW g \in Procs, pc'[g] = "answer", owner' = g, ~found'[g]
      PROVE  row'[g] \notin answers'
  <2>1. g # h /\ owner = g
    BY <1>1, PairsAssumption DEF ReadsNothing
  <2>2. pc[g] = "answer" /\ ~found[g] /\ row'[g] = row[g] /\ answers' = answers
    BY <1>1, <2>1 DEF ReadsNothing
  <2> QED
    BY <2>1, <2>2 DEF DrainInv, ReadStays
<1> QED
  BY <1>1 DEF ReadsNothing, DrainInv, ReadStays

LEMMA DrainInvNext == DrainInv /\ [Next]_vars => DrainInv'
<1> SUFFICES ASSUME DrainInv, [Next]_vars PROVE DrainInv'
  OBVIOUS
<1>1. CASE Tick
  BY <1>1 DEF Tick, DrainInv, ReadStays
<1>2. CASE UNCHANGED vars
  BY <1>2 DEF vars, DrainInv, ReadStays
<1>3. ASSUME NEW h \in Procs, ReadsNothing(h) PROVE DrainInv'
  BY <1>3, ReadsNothingKeeps
<1>4. ASSUME NEW h \in Procs, Warm(h) \/ Reload(h) PROVE DrainInv'
  <2> ReadsNothing(h)
    BY <1>4 DEF Warm, Reload, Goto, ReadsNothing, DrainInv
  <2> QED
    BY <1>3
<1>5. ASSUME NEW h \in Procs, Save(h) \/ SaveReply(h) \/ SaveReplyLost(h) PROVE DrainInv'
  <2>1. CASE Save(h)
    <3> ReadsNothing(h)
      BY <2>1 DEF Save, Forget, ReadsNothing, DrainInv
    <3> QED
      BY <1>3
  <2>2. CASE SaveReply(h) \/ SaveReplyLost(h)
    <3> ReadsNothing(h)
      BY <2>2 DEF SaveReply, SaveReplyLost, Goto, ReadsNothing, DrainInv
    <3> QED
      BY <1>3
  <2> QED
    BY <1>5, <2>1, <2>2
<1>6. ASSUME NEW h \in Procs, Release(h) PROVE DrainInv'
  <2> ReadsNothing(h)
    BY <1>6 DEF Release, Forget, Goto, ReadsNothing, DrainInv
  <2> QED
    BY <1>3
<1>7. ASSUME NEW h \in Procs, Kill(h) PROVE DrainInv'
  <2> ReadsNothing(h)
    BY <1>7 DEF Kill, Forget, ReadsNothing, DrainInv
  <2> QED
    BY <1>3
<1>8. ASSUME NEW h \in Procs, Lapse(h) \/ BarCloses(h) PROVE DrainInv'
  BY <1>8, PairsAssumption DEF Lapse, BarCloses, Schedule, DrainInv, ReadStays
<1>9. ASSUME NEW h \in Procs, DrainStart(h) \/ CallStarts(h) PROVE DrainInv'
  <2> ReadsNothing(h)
    BY <1>9 DEF DrainStart, CallStarts, Goto, ReadsNothing, DrainInv
  <2> QED
    BY <1>3
<1>10. ASSUME NEW h \in Procs, DrainNext(h) PROVE DrainInv'
  <2> DEFINE queue == Undone(mem[h].queue, Bounded(mem[h].done, now[h]))
  <2>1. CASE queue = <<>>
    <3> ReadsNothing(h)
      BY <1>10, <2>1 DEF DrainNext, ReadsNothing, DrainInv
    <3> QED
      BY <1>3
  <2>2. CASE queue # <<>>
    <3>1. /\ pc' = [pc EXCEPT ![h] = "answer"]
          /\ row' = [row EXCEPT ![h] = Head(queue)]
          /\ found' = [found EXCEPT ![h] = Head(queue) \in answers]
          /\ UNCHANGED <<owner, answers>>
      BY <1>10, <2>2 DEF DrainNext
    <3> HIDE DEF queue
    <3> QED
      BY <3>1 DEF DrainInv, ReadStays
  <2> QED
    BY <2>1, <2>2
<1>11. ASSUME NEW h \in Procs, NEW from, DrainEnds(h, from), UNCHANGED <<owner, answers>>
       PROVE  DrainInv'
  <2> ReadsNothing(h)
    BY <1>11 DEF DrainEnds, Goto, ReadsNothing, DrainInv
  <2> QED
    BY <1>3
<1>12. ASSUME NEW h \in Procs,
              AlreadyAnswered(h) \/ TimedOut(h) \/ TooLate(h) \/ NotCalled(h)
       PROVE  DrainInv'
  BY <1>11, <1>12 DEF AlreadyAnswered, TimedOut, TooLate, NotCalled
<1>13. ASSUME NEW h \in Procs,
              \/ \E price \in scenario.prices : Answered(h, price) \/ FailedAt(h, price)
              \/ \E price \in scenario.prices \cup {Reserve} : FailedUnpriced(h, price)
              \/ NeverLeft(h)
       PROVE  DrainInv'
  <2> PICK m : CallEnds(h, m)
    BY <1>13 DEF Answered, FailedAt, FailedUnpriced, NeverLeft
  <2> QED
    BY <1>11 DEF CallEnds
<1> QED
  BY <1>1, <1>2, <1>4, <1>5, <1>6, <1>7, <1>8, <1>9, <1>10, <1>12, <1>13
     DEF Next, Invocation, Drain

(* A holder starts no call for a packet whose outcome is stored              *)
(* (jev-call.ts drainJevShadow: the answer key is read before the call, and    *)
(* nobody else may store an answer until the call has started).               *)
THEOREM NoCallAfterAnswerHolds == Spec => NoCallAfterAnswer
<1>1. Init => DrainInv
  BY DEF Init, DrainInv, ReadStays
<1>2. DrainInv /\ [Next]_vars
        => [\A h \in Procs :
              (pc[h] = "answer" /\ pc'[h] = "calling" /\ owner = h) => row[h] \notin answers]_vars
  <2> SUFFICES ASSUME DrainInv, Next, NEW h \in Procs,
                      pc[h] = "answer", pc'[h] = "calling", owner = h
               PROVE  row[h] \notin answers
    OBVIOUS
  <2>1. ~found[h]
    <3>1. PICK g \in Procs : Invocation(g) \/ BarCloses(g) \/ SaveReplyLost(g) \/ Lapse(g) \/ Kill(g)
      BY DEF Next, Tick
    <3>2. ~(Warm(g) \/ Reload(g) \/ SaveReply(g) \/ Release(g) \/ DrainStart(g) \/ SaveReplyLost(g))
      BY DEF Warm, Reload, SaveReply, Release, DrainStart, SaveReplyLost, Goto, DrainInv
    <3>3. ~Save(g)
      BY DEF Save, DrainInv
    <3>4. ~(BarCloses(g) \/ Lapse(g) \/ Kill(g))
      BY DEF BarCloses, Schedule, Lapse, Kill, DrainInv
    <3>5. ~DrainNext(g)
      BY DEF DrainNext, DrainInv
    <3>6. ASSUME NEW from PROVE ~DrainEnds(g, from)
      BY DEF DrainEnds, Goto, DrainInv
    <3>7. ~(AlreadyAnswered(g) \/ TimedOut(g) \/ TooLate(g) \/ NotCalled(g))
      BY <3>6 DEF AlreadyAnswered, TimedOut, TooLate, NotCalled
    <3>8. ~(\/ \E price \in scenario.prices : Answered(g, price) \/ FailedAt(g, price)
            \/ \E price \in scenario.prices \cup {Reserve} : FailedUnpriced(g, price)
            \/ NeverLeft(g))
      BY <3>6 DEF Answered, FailedAt, FailedUnpriced, NeverLeft, CallEnds
    <3>9. CallStarts(g)
      BY <3>1, <3>2, <3>3, <3>4, <3>5, <3>7, <3>8 DEF Invocation, Drain
    <3> QED
      BY <3>9 DEF CallStarts, InTime, Goto, DrainInv
  <2> QED
    BY <2>1 DEF DrainInv, ReadStays
<1> QED
  BY <1>1, <1>2, DrainInvNext, PTL DEF Spec, NoCallAfterAnswer

=============================================================================
