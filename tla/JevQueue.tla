------------------------------- MODULE JevQueue -------------------------------
(***************************************************************************)
(* The shadow calls of P6 (research/src/p6/jev-call.ts): the packets a bar   *)
(* schedules, the queue, the spend meter and the drain, with the saves that   *)
(* carry them from one lease holder to the next.                             *)
(*                                                                          *)
(* A packet is a pair and a bar start.  The drain and the heartbeat save run  *)
(* in one guarded tick, so they exclude each other; a bar arrives from a      *)
(* socket at any await of either.  A save is one EVAL.  The lease is the      *)
(* owner the owned commands test: RelayLease says how it moves.              *)
(***************************************************************************)
EXTENDS Integers, Sequences, FiniteSets, SequencesExt

CONSTANTS
    Procs, None,
    Pairs, Btc,          \* products; Btc is scheduled with every bar
    Bars,                \* bar starts
    Bar, Expiry,         \* 900 s, and 900 s + 600 s
    DoneBars,            \* JEV_DONE_BARS
    Cap, MonthCap, Reserve,
    Prices,              \* what a call may turn out to cost
    MonthTicks,
    Scenarios            \* bars, pairs, faults and bounds of one environment

ASSUME PairsAssumption == Btc \in Pairs /\ IsFiniteSet(Pairs) /\ None \notin Procs
ASSUME TimesAssumption ==
    /\ Bar \in Nat \ {0} /\ Expiry \in Nat /\ Bar < Expiry
    /\ Bars \subseteq Nat /\ DoneBars \in Nat
    /\ MonthTicks \in Nat \ {0}
ASSUME MoneyAssumption ==
    /\ Cap \in Nat /\ MonthCap \in Nat /\ Reserve \in Nat \ {0}
    /\ Cap <= MonthCap
    /\ Prices \subseteq Nat \ {0}
FaultNames == {"kill", "lapse", "lostReply", "shed", "noCaller"}

ASSUME ScenariosAssumption ==
    Scenarios \subseteq [bars : SUBSET Bars, pairs : SUBSET Pairs, prices : SUBSET Prices,
                         faults : SUBSET FaultNames, maxClock : Nat,
                         maxLosses : Nat, maxSheds : Nat]

Packets == Pairs \X Bars

VARIABLES
    scenario,   \* chosen at the start: what this environment may do
    clock,
    owner,      \* whose token p6:lease holds
    saved,      \* the Jev fields of p6:hot
    answers,    \* packets with a p6:jev:ans key
    pc,
    mem,        \* the Jev fields of the host
    writes,     \* jevPacketWrites
    sent,       \* jevPacketSent
    row,        \* the packet the drain is busy with
    found,      \* the answer key the drain read was there
    now,        \* the clock at the start of the tick
    losses,     \* history: kills and lapses
    sheds,      \* history: saves that shed the done keys and the stamps
    calls,      \* history: packet -> calls that reached the model
    spent,      \* history: what those calls cost
    blind       \* history: the part of it above the hold of calls that named no price

histories == <<losses, sheds, calls, spent, blind>>
stored == <<saved, answers>>
vars == <<scenario, clock, owner, stored, pc, mem, writes, sent, row, found, now, histories>>

-----------------------------------------------------------------------------
Larger(a, b) == IF a > b THEN a ELSE b

(* Stamps live through expiry plus three bars.                               *)
Window == Expiry + 3 * Bar

Expired(bar, t) == t >= bar + Expiry

Month(t) == t \div MonthTicks

-----------------------------------------------------------------------------
(* The meter (jev-shadow.ts).                                               *)

FreshMeter == [total |-> 0, month |-> 0, label |-> None]

MonthSpend(m, label) == IF m.label = label THEN m.month ELSE 0

(* noteJevSpend: refused when it would pass either cap.                      *)
Fits(m, cost, label) ==
    /\ m.total + cost <= Cap
    /\ MonthSpend(m, label) + cost <= MonthCap

Spend(m, cost, label) ==
    [total |-> m.total + cost, month |-> MonthSpend(m, label) + cost, label |-> label]

(* Mutant: a dearer answer is charged without asking the caps again.         *)
AlwaysSettles(m, price) == TRUE

(* adjustJevReserve, where the hold becomes the price.                       *)
Settles(m, price) == price > Reserve => Fits(m, price - Reserve, m.label)

Settled(m, price) ==
    IF price > Reserve
    THEN Spend(m, price - Reserve, m.label)
    ELSE [m EXCEPT !.total = @ - (Reserve - price), !.month = @ - (Reserve - price)]

(* chargeFailure: a price that does not fit leaves the hold.                 *)
Charged(m, price) == IF Settles(m, price) THEN Settled(m, price) ELSE m

-----------------------------------------------------------------------------
(* The ledger: on-time bars, packets scheduled, answered and skipped.        *)

FreshSkip == [onTime |-> [b \in Bars |-> 0], scheduled |-> 0, answered |-> 0, skipped |-> 0]

(* Mutant: the skips of the warm book and of the reload are added up.        *)
SkipsAdded(a, b) ==
    [onTime |-> a.onTime, scheduled |-> Larger(a.scheduled, b.scheduled),
     answered |-> Larger(a.answered, b.answered), skipped |-> a.skipped + b.skipped]

(* mergeJevSkip: the larger of each field.                                  *)
MergedSkip(a, b) ==
    [onTime |-> [x \in Bars |-> Larger(a.onTime[x], b.onTime[x])],
     scheduled |-> Larger(a.scheduled, b.scheduled),
     answered |-> Larger(a.answered, b.answered),
     skipped |-> Larger(a.skipped, b.skipped)]

Fresh == [queue |-> <<>>, done |-> {}, first |-> {}, caught |-> {}, bar |-> None,
          through |-> [p \in Pairs |-> -1], skip |-> FreshSkip, meter |-> FreshMeter]

(* boundJevDone: the last bars, and every packet that has not expired.       *)
Bounded(done, t) ==
    LET bars == {k[2] : k \in done} IN
    {k \in done : \/ Cardinality({b \in bars : b > k[2]}) < DoneBars
                  \/ t < k[2] + Expiry}

Undone(queue, done) ==
    FoldLeft(LAMBDA kept, k : IF k \in done THEN kept ELSE Append(kept, k), <<>>, queue)

Pending(m) == Undone(m.queue, m.done)

(* captureHot and hotSnapshot: over the size limit the done keys and then    *)
(* the stamps are left out.                                                  *)
Snapshot(m, t, shed) ==
    [m EXCEPT !.queue = Pending(m),
              !.done = IF shed THEN {} ELSE Bounded(@, t),
              !.first = IF shed THEN {} ELSE @]

(* installPaperState: done keys and queue only for the lease holder.         *)
Installed(m, s, readable) ==
    LET done == IF readable THEN s.done ELSE m.done IN
    [queue   |-> IF readable THEN Undone(s.queue, done) ELSE m.queue,
     done    |-> done,
     first   |-> s.first,
     caught  |-> s.caught,
     bar     |-> IF s.bar # None THEN s.bar ELSE m.bar,
     through |-> [p \in Pairs |-> Larger(m.through[p], s.through[p])],
     skip    |-> MergedSkip(m.skip, s.skip),
     meter   |-> s.meter]

Init ==
    /\ scenario \in Scenarios
    /\ clock = Bar
    /\ owner = None
    /\ saved = Fresh
    /\ answers = {}
    /\ pc = [h \in Procs |-> "off"]
    /\ mem = [h \in Procs |-> Fresh]
    /\ writes = [h \in Procs |-> {}]
    /\ sent = [h \in Procs |-> {}]
    /\ row = [h \in Procs |-> None]
    /\ found = [h \in Procs |-> FALSE]
    /\ now = [h \in Procs |-> 0]
    /\ losses = 0 /\ sheds = 0
    /\ calls = [k \in Packets |-> 0]
    /\ spent = 0 /\ blind = 0

Goto(h, from, to) == pc[h] = from /\ pc' = [pc EXCEPT ![h] = to]

-----------------------------------------------------------------------------
(* Takeover.                                                                *)

(* warm: a standby installs the book before it has the lease.                *)
Warm(h) ==
    /\ Goto(h, "off", "standby")
    /\ mem' = [mem EXCEPT ![h] = Installed(Fresh, saved, FALSE)]
    /\ UNCHANGED <<scenario, clock, owner, stored, writes, sent, row, found, now, histories>>

(* reload: the lease is taken and the book installed over the warm one.      *)
Reload(h) ==
    /\ Goto(h, "standby", "idle")
    /\ owner = None
    /\ owner' = h
    /\ mem' = [mem EXCEPT ![h] = Installed(@, saved, TRUE)]
    /\ UNCHANGED <<scenario, clock, stored, writes, sent, row, found, now, histories>>

Forget(h) ==
    /\ mem' = [mem EXCEPT ![h] = Fresh]
    /\ writes' = [writes EXCEPT ![h] = {}]
    /\ sent' = [sent EXCEPT ![h] = {}]
    /\ row' = [row EXCEPT ![h] = None]
    /\ found' = [found EXCEPT ![h] = FALSE]
    /\ now' = [now EXCEPT ![h] = 0]

Running(h) == pc[h] \notin {"off", "standby"}

-----------------------------------------------------------------------------
(* A bar has closed (scheduleLiveJev).                                      *)

(* settleStamps: aged or covered stamps become the watermark.                *)
Old(m, stamp) ==
    \/ clock >= stamp.bar + Window
    \/ \A p \in stamp.pairs : stamp.bar <= m.through[p]

Watermark(through, stamps) ==
    [p \in Pairs |->
        LET bars == {s.bar : s \in {x \in stamps : p \in x.pairs}} \cup {through[p]} IN
        CHOOSE b \in bars : \A c \in bars : c <= b]

SettledStamps(m) ==
    LET old == {s \in m.first : Old(m, s)} IN
    [m EXCEPT !.first = @ \ old, !.through = Watermark(@, old)]

(* noteStamp: a bar outside the window goes straight to the watermark.       *)
Stamped(m, bar, pairs) ==
    LET stamp == [bar |-> bar, pairs |-> pairs] IN
    IF clock >= bar + Window
    THEN [m EXCEPT !.through = Watermark(@, {stamp})]
    ELSE IF \E s \in m.first : s.bar = bar
         THEN m
         ELSE [m EXCEPT !.first = @ \cup {stamp}]

AtOrBelowWatermark(m, bar, pairs) ==
    LET known == {p \in pairs : m.through[p] # -1} IN
    known # {} /\ \A p \in known : bar <= m.through[p]

(* Mutant: only catch-up bars are looked up.                                 *)
CaughtOnly(m, bar) == bar \in m.caught

(* firstOf and catchUpCovers.                                               *)
Classified(m, bar) == bar \in {s.bar : s \in m.first} \cup m.caught

CaughtUp(m, bar, pairs) ==
    [Stamped([m EXCEPT !.caught = @ \cup {bar}], bar, pairs) EXCEPT !.bar = bar]

(* An on-time bar: the pairs whose minutes are complete are queued and the   *)
(* others are skipped at once (no_1m_input).                                 *)
Scheduled(m, bar, pairs, complete) ==
    LET fresh == (pairs \X {bar}) \ (m.done \cup Range(m.queue))
        full == fresh \cap (complete \X {bar})
        bare == fresh \ full
    IN [Stamped(m, bar, pairs) EXCEPT
            !.bar = bar,
            !.queue = @ \o SetToSeq(full),
            !.done = @ \cup bare,
            !.skip.onTime[bar] = @ + 1,
            !.skip.scheduled = @ + Cardinality(fresh),
            !.skip.skipped = @ + Cardinality(bare)]

(* Mutant: the list holds the last outcome only.                            *)
LastWritten(h, packets) == [writes EXCEPT ![h] = packets \ sent[h]]

(* remember: the packet is written with the next flush, once.                *)
Written(h, packets) == [writes EXCEPT ![h] = @ \cup (packets \ sent[h])]

(* The test that the bar has not been looked at yet.                         *)
New(m, bar, pairs) ==
    /\ ~AtOrBelowWatermark(m, bar, pairs)
    /\ ~Classified(m, bar)

Schedule(h, bar, pairs, complete) ==
    LET m == SettledStamps(mem[h]) IN
    /\ Running(h)
    /\ clock >= bar + Bar
    /\ mem[h].bar # bar
    /\ mem' = [mem EXCEPT ![h] =
                  IF ~New(m, bar, pairs) THEN m
                  ELSE IF Expired(bar, clock) THEN CaughtUp(m, bar, pairs)
                  ELSE Scheduled(m, bar, pairs, complete)]
    /\ writes' = Written(h, mem'[h].done \ mem[h].done)
    /\ UNCHANGED <<scenario, clock, owner, stored, pc, sent, row, found, now, histories>>

BarCloses(h) ==
    \E bar \in scenario.bars, pairs \in SUBSET scenario.pairs :
        \E complete \in SUBSET pairs :
            Btc \in pairs /\ Schedule(h, bar, pairs, complete)

-----------------------------------------------------------------------------
(* Saves.                                                                   *)

(* What a flush stores: hot and the answer keys in one EVAL.                 *)
Flush(h) ==
    /\ \E shed \in BOOLEAN :
          /\ shed => "shed" \in scenario.faults /\ sheds < scenario.maxSheds
          /\ sheds' = sheds + (IF shed THEN 1 ELSE 0)
          /\ saved' = Snapshot(mem[h], clock, shed)
    /\ answers' = answers \cup writes[h]

(* persistSplit: the payload is built and the EVAL runs.                     *)
Save(h) ==
    /\ pc[h] = "idle"
    /\ IF owner = h
       THEN /\ pc' = [pc EXCEPT ![h] = "saving"]
            /\ Flush(h)
            /\ UNCHANGED <<mem, writes, sent, row, found, now>>
       ELSE /\ pc' = [pc EXCEPT ![h] = "off"]
            /\ Forget(h)
            /\ UNCHANGED <<stored, sheds>>
    /\ UNCHANGED <<scenario, clock, owner, losses, calls, spent, blind>>

(* The reply: every packet in the list counts as sent.                       *)
SaveReply(h) ==
    /\ Goto(h, "saving", "idle")
    /\ sent' = [sent EXCEPT ![h] = @ \cup writes[h]]
    /\ writes' = [writes EXCEPT ![h] = {}]
    /\ UNCHANGED <<scenario, clock, owner, stored, mem, row, found, now, histories>>

(* The reply is lost: the heartbeat notes it and goes on.                    *)
SaveReplyLost(h) ==
    /\ "lostReply" \in scenario.faults
    /\ Goto(h, "saving", "idle")
    /\ UNCHANGED <<scenario, clock, owner, stored, mem, writes, sent, row, found, now, histories>>

(* The deadline: the last save and the release.                              *)
Release(h) ==
    /\ Goto(h, "idle", "off")
    /\ owner = h
    /\ owner' = None
    /\ Flush(h)
    /\ Forget(h)
    /\ UNCHANGED <<scenario, clock, losses, calls, spent, blind>>

-----------------------------------------------------------------------------
(* The drain (drainJevShadow): at most one call a tick.                      *)

(* The lease is read.                                                       *)
DrainStart(h) ==
    /\ Goto(h, "idle", "lease")
    /\ mem[h].queue # <<>>
    /\ owner = h
    /\ now' = [now EXCEPT ![h] = clock]
    /\ UNCHANGED <<scenario, clock, owner, stored, mem, writes, sent, row, found, histories>>

(* Mutant: the drain does not look for a stored answer.                      *)
DrainUnread(h) ==
    LET queue == Undone(mem[h].queue, mem[h].done) IN
    /\ queue # <<>>
    /\ Goto(h, "lease", "answer")
    /\ row' = [row EXCEPT ![h] = Head(queue)]
    /\ UNCHANGED <<scenario, clock, owner, stored, mem, writes, sent, found, now, histories>>

(* The first packet of the queue is chosen and its answer key is read.       *)
DrainNext(h) ==
    LET done == Bounded(mem[h].done, now[h])
        queue == Undone(mem[h].queue, done)
    IN
    /\ pc[h] = "lease"
    /\ mem' = [mem EXCEPT ![h].done = done, ![h].queue = queue]
    /\ IF queue = <<>>
       THEN /\ pc' = [pc EXCEPT ![h] = "idle"]
            /\ now' = [now EXCEPT ![h] = 0]
            /\ UNCHANGED <<row, found>>
       ELSE /\ pc' = [pc EXCEPT ![h] = "answer"]
            /\ row' = [row EXCEPT ![h] = Head(queue)]
            /\ found' = [found EXCEPT ![h] = Head(queue) \in answers]
            /\ UNCHANGED now
    /\ UNCHANGED <<scenario, clock, owner, stored, writes, sent, histories>>

DrainEnds(h, from) ==
    /\ Goto(h, from, "idle")
    /\ row' = [row EXCEPT ![h] = None]
    /\ found' = [found EXCEPT ![h] = FALSE]
    /\ now' = [now EXCEPT ![h] = 0]

(* skipOne and remember, for the packets that reach a terminal outcome.      *)
SkippedIn(m, packets) ==
    [m EXCEPT !.done = @ \cup packets, !.skip.skipped = @ + Cardinality(packets)]

Removed(m, packet) == [m EXCEPT !.queue = Undone(@, {packet})]

(* A stored answer takes the packet off the queue without a count.           *)
AlreadyAnswered(h) ==
    /\ found[h]
    /\ DrainEnds(h, "answer")
    /\ mem' = [mem EXCEPT ![h] = Removed([mem[h] EXCEPT !.done = @ \cup {row[h]}], row[h])]
    /\ UNCHANGED <<scenario, clock, owner, stored, writes, sent, histories>>

(* Mutant: the deadline is looked at before the expiry.                      *)
AnyTime(h) == pc[h] = "answer" /\ ~found[h]

TimedOut(h) ==
    /\ pc[h] = "answer" /\ ~found[h]
    /\ Expired(row[h][2], now[h])
    /\ DrainEnds(h, "answer")
    /\ mem' = [mem EXCEPT ![h] = Removed(SkippedIn(@, {row[h]}), row[h])]
    /\ writes' = Written(h, {row[h]})
    /\ UNCHANGED <<scenario, clock, owner, stored, sent, histories>>

InTime(h) == pc[h] = "answer" /\ ~found[h] /\ ~Expired(row[h][2], now[h])

(* refuseLateCall: too near the end of the lease, the packet stays queued.   *)
TooLate(h) ==
    /\ InTime(h)
    /\ DrainEnds(h, "answer")
    /\ UNCHANGED <<scenario, clock, owner, stored, mem, writes, sent, histories>>

(* No key, or no room under the cap: the whole queue is skipped.             *)
NotCalled(h) ==
    LET packets == Range(mem[h].queue) \ mem[h].done IN
    /\ InTime(h)
    /\ "noCaller" \in scenario.faults \/ ~Fits(mem[h].meter, Reserve, Month(now[h]))
    /\ DrainEnds(h, "answer")
    /\ mem' = [mem EXCEPT ![h] = [SkippedIn(@, packets) EXCEPT !.queue = <<>>]]
    /\ writes' = Written(h, packets)
    /\ UNCHANGED <<scenario, clock, owner, stored, sent, histories>>

CallStarts(h) ==
    /\ InTime(h)
    /\ Fits(mem[h].meter, Reserve, Month(now[h]))
    /\ Goto(h, "answer", "calling")
    /\ mem' = [mem EXCEPT ![h].meter = Spend(@, Reserve, Month(now[h]))]
    /\ calls' = [calls EXCEPT ![row[h]] = @ + 1]
    /\ UNCHANGED <<scenario, clock, owner, stored, writes, sent, row, found, now, losses, sheds, spent, blind>>

CallEnds(h, m) ==
    /\ DrainEnds(h, "calling")
    /\ mem' = [mem EXCEPT ![h] = Removed(m, row[h])]
    /\ writes' = Written(h, {row[h]})
    /\ UNCHANGED <<scenario, clock, owner, stored, sent, losses, sheds>>

Answered(h, price) ==
    LET m == mem[h] IN
    /\ pc[h] = "calling"
    /\ Settles(m.meter, price)
    /\ CallEnds(h, [m EXCEPT !.meter = Settled(@, price), !.done = @ \cup {row[h]},
                             !.skip.answered = @ + 1])
    /\ spent' = spent + price
    /\ UNCHANGED <<calls, blind>>

(* A priced failure, and an answer whose price does not fit the cap.         *)
FailedAt(h, price) ==
    /\ CallEnds(h, SkippedIn([mem[h] EXCEPT !.meter = Charged(@, price)], {row[h]}))
    /\ spent' = spent + price
    /\ UNCHANGED <<calls, blind>>

(* Mutant: a call without a price gives its hold back.                       *)
FailedForFree(h, price) ==
    /\ CallEnds(h, SkippedIn([mem[h] EXCEPT !.meter = Settled(@, 0)], {row[h]}))
    /\ spent' = spent + price
    /\ blind' = blind + Larger(0, price - Reserve)
    /\ UNCHANGED calls

(* No price came back: the hold stays on the meter whatever the call cost.     *)
FailedUnpriced(h, price) ==
    /\ CallEnds(h, SkippedIn(mem[h], {row[h]}))
    /\ spent' = spent + price
    /\ blind' = blind + Larger(0, price - Reserve)
    /\ UNCHANGED calls

(* The call never left: the hold is given back.                              *)
NeverLeft(h) ==
    /\ CallEnds(h, SkippedIn([mem[h] EXCEPT !.meter = Settled(@, 0)], {row[h]}))
    /\ calls' = [calls EXCEPT ![row[h]] = @ - 1]
    /\ UNCHANGED <<spent, blind>>

Drain(h) ==
    \/ DrainNext(h) \/ AlreadyAnswered(h) \/ TimedOut(h) \/ TooLate(h)
    \/ NotCalled(h) \/ CallStarts(h)
    \/ \E price \in scenario.prices : Answered(h, price) \/ FailedAt(h, price)
    \/ \E price \in scenario.prices \cup {Reserve} : FailedUnpriced(h, price)
    \/ NeverLeft(h)

-----------------------------------------------------------------------------
(* The environment.                                                         *)

Tick ==
    /\ clock < scenario.maxClock
    /\ clock' = clock + 1
    /\ UNCHANGED <<scenario, owner, stored, pc, mem, writes, sent, row, found, now, histories>>

(* The lease key runs out under a holder that does not notice.               *)
Lapse(h) ==
    /\ "lapse" \in scenario.faults /\ losses < scenario.maxLosses
    /\ owner = h
    /\ owner' = None
    /\ losses' = losses + 1
    /\ UNCHANGED <<scenario, clock, stored, pc, mem, writes, sent, row, found, now, sheds, calls, spent, blind>>

(* The platform ends the invocation; its lease runs out.                     *)
Kill(h) ==
    /\ "kill" \in scenario.faults /\ losses < scenario.maxLosses
    /\ Running(h)
    /\ pc' = [pc EXCEPT ![h] = "off"]
    /\ owner' = IF owner = h THEN None ELSE owner
    /\ Forget(h)
    /\ losses' = losses + 1
    /\ UNCHANGED <<scenario, clock, stored, sheds, calls, spent, blind>>

Invocation(h) ==
    \/ Warm(h) \/ Reload(h) \/ Save(h) \/ SaveReply(h) \/ Release(h)
    \/ DrainStart(h) \/ Drain(h)

Next ==
    \/ Tick
    \/ \E h \in Procs :
          \/ Invocation(h) \/ BarCloses(h)
          \/ SaveReplyLost(h) \/ Lapse(h) \/ Kill(h)

(* The tick loop runs while the lease is held and cron starts invocations.   *)
Fairness ==
    /\ WF_vars(Tick)
    /\ \A h \in Procs :
          /\ WF_vars(Warm(h)) /\ SF_vars(Reload(h))
          /\ WF_vars(SaveReply(h))
          /\ SF_vars(Save(h)) /\ SF_vars(DrainStart(h)) /\ WF_vars(Drain(h))

Spec == Init /\ [][Next]_vars
FairSpec == Spec /\ Fairness

-----------------------------------------------------------------------------
(* Properties.                                                              *)

(* The ledger of the lease holder adds up: every on-time packet that was     *)
(* scheduled is queued, or was counted once as answered or skipped, through   *)
(* handovers, refused calls and bars that close during a call.  A save over   *)
(* the size limit drops the done keys, and then a packet may go uncounted,    *)
(* never be counted twice.                                                  *)
PacketsAddUp ==
    \A h \in Procs : owner = h =>
        LET m == mem[h]
            known == m.skip.answered + m.skip.skipped + Len(Pending(m))
        IN /\ known <= m.skip.scheduled
           /\ sheds = 0 => known = m.skip.scheduled

(* No bar is counted on time twice in one ledger, whatever order the bars of  *)
(* several products arrive in and whoever holds the lease, as long as the     *)
(* stamps were kept.                                                        *)
OnTimeOnce ==
    \A h \in Procs : (owner = h /\ sheds = 0) =>
        \A b \in Bars : mem[h].skip.onTime[b] <= 1

(* A meter never passes a cap, never goes below zero, and never shows more    *)
(* for the month than in total, across holds, refunds, months and handovers.  *)
CapsHold ==
    \A m \in {saved.meter} \cup {mem[h].meter : h \in Procs} :
        /\ m.total \in 0..Cap
        /\ m.month \in 0..m.total

Meter == IF owner = None THEN saved.meter ELSE mem[owner].meter

(* While no process is lost the meter covers what was really spent, timeouts  *)
(* included, unless it is so near the cap that a dearer answer could not be   *)
(* charged in full.  What it cannot cover is the part above the hold of a     *)
(* call that named no price: no price bounds a call (jev-shadow.ts).          *)
SpendIsMetered ==
    losses = 0 =>
        \/ spent - blind <= Meter.total
        \/ \E price \in Prices : price > Reserve /\ Meter.total + price - Reserve > Cap

(* A packet goes to the model again only when a loss cost its last outcome:    *)
(* never because of a handover, a lost reply, or keys that were shed.         *)
RepeatsAreLosses == \A k \in Packets : calls[k] <= 1 + losses

(* A holder starts no call for a packet whose outcome is stored.             *)
NoCallAfterAnswer ==
    [][\A h \in Procs :
          (pc[h] = "answer" /\ pc'[h] = "calling" /\ owner = h) => row[h] \notin answers]_vars

(* The flush that saves a called packet as done stores its answer key.       *)
AnswersAreStored ==
    losses = 0 => \A k \in saved.done : calls[k] > 0 => k \in answers

(* jev-1m-spec.md: any terminal outcome stores the key.                      *)
OutcomesAreStored == saved.done \subseteq answers

(* A packet that was saved as queued does not stay queued: some holder calls  *)
(* it or counts it, at the latest when it has expired.                       *)
QueueDrains ==
    \A k \in Packets :
        (k \in Range(saved.queue) /\ Expired(k[2], scenario.maxClock))
            ~> (k \notin Range(saved.queue))

=============================================================================
