----------------------------- MODULE RelayLease -----------------------------
(***************************************************************************)
(* The cron relay of the P6 paper host: invocations of one serverless       *)
(* function take turns holding a lease in Redis, and the holder saves one    *)
(* book (research/src/p6/relay.ts, vercel-live.ts, hot-store.ts).            *)
(*                                                                          *)
(* Every await on Redis is a step of its own, so the steps of two            *)
(* invocations interleave exactly where the code lets them.  Time is in      *)
(* ticks of about one minute: the margins of the code are a minute or more.  *)
(* An invocation is named by `self`, which the handler makes fresh from the  *)
(* start time, so the branches of planRelay for a lease that is already      *)
(* held by `self` ("hold", "handover") cannot be reached and are left out.   *)
(* The token `${self}:${nowMs}` is fixed by its holder, so the holder field  *)
(* stands for both.                                                         *)
(***************************************************************************)
EXTENDS Integers, FiniteSets

CONSTANTS
    Invocations,          \* the values of `self`
    None,                 \* a missing Redis key
    MAX_DURATION,         \* ticks of one function invocation
    HANDOVER_MARGIN,      \* ticks kept before the deadline for the release
    LEASE_TTL,            \* PX of the live lease
    CRON_EVERY,           \* ticks between two cron fires
    DUPLICATE_WINDOW,     \* a fire this soon after the last one is a duplicate
    MaxClock,             \* bound on the clock, for model checking
    MaxActive,            \* bound on the invocations alive at one time
    Enabled               \* which faults and features the environment shows

Faults == {"kill", "throw", "timeout", "oversize", "rest"}

ASSUME TimesAssumption ==
    /\ MAX_DURATION \in Nat /\ HANDOVER_MARGIN \in Nat /\ LEASE_TTL \in Nat \ {0}
    /\ CRON_EVERY \in Nat /\ DUPLICATE_WINDOW \in Nat /\ MaxClock \in Nat /\ MaxActive \in Nat
    /\ HANDOVER_MARGIN < MAX_DURATION

ASSUME EnabledAssumption == Enabled \subseteq Faults

Causes == {"crash", "handover", "handover_micro", "save failed", "missed-cron",
           "uncovered", "none"}

Gap == [start: Nat, end: Nat, cause: Causes]

Lease == [holder: Invocations, until: Nat, release: {"none", "deadline", "crash"},
          saved: Nat, saveFailed: BOOLEAN, released: BOOLEAN]

ASSUME NoneAssumption == None \notin Invocations /\ None \notin Lease

(* What a save stores, as far as the relay is concerned: the ticks the       *)
(* holders up to now have sampled, and the gaps they recorded.               *)
Book == [held: SUBSET Nat, gaps: SUBSET Gap]

VARIABLES
    clock,
    lease, expires,   \* p6:lease, and when Redis drops it (0: no PX)
    meta,             \* p6:lease-meta
    cron,             \* p6:cron
    book,             \* p6:hot
    unfenced,         \* history: some save went out without a lease token
    pc,
    startMs,          \* opts.nowMs
    nowMs,            \* runInvocation's nowMs, moved once after a watch
    lastCronMs,
    raw,              \* the lease value this invocation read last
    plan,             \* planRelay: feedGapMs and cause
    staged,           \* gaps to record once the lease is held
    host,             \* the PaperHost's book
    leaseToken,       \* host.leaseToken != null
    stopped,          \* host.stopped
    release,          \* arguments of the releaseLease in progress
    lane              \* the REST lane's renewLease in progress

redis == <<lease, expires, meta, cron, book, unfenced>>
locals == <<startMs, nowMs, lastCronMs, raw, plan, staged, host, leaseToken,
            stopped, release, lane>>
vars == <<clock, redis, pc, locals>>

-----------------------------------------------------------------------------
Larger(a, b) == IF a > b THEN a ELSE b
Smaller(a, b) == IF a < b THEN a ELSE b

deadlineMs(i) == startMs[i] + MAX_DURATION
ReleaseAt(i) == deadlineMs(i) - HANDOVER_MARGIN

(* Mutant: the PX runs to the deadline.                                      *)
PxToDeadline(until, now) == Larger(1, until - now)

leasePx(until, now) == Smaller(LEASE_TTL, Larger(1, until - now))

(* A lease value another invocation must respect, as tryAcquire and          *)
(* planRelay test it.                                                       *)
Held(l, now) == l # None /\ ~l.released /\ l.until > now

(* The cron before this one is more than a period and a minute ago.          *)
MissedCron(last, now) == last # None /\ now - last > CRON_EVERY + DUPLICATE_WINDOW

PlanAction(now, l, last) ==
    IF ~Held(l, now) THEN "acquire"
    ELSE IF last # None /\ now - last < DUPLICATE_WINDOW THEN "duplicate"
    ELSE "overlap"

(* feedGapMs and cause of planRelay, for a lease that is not held.           *)
PlanGap(now, l, last) ==
    IF Held(l, now) \/ l = None THEN [feedGap |-> 0, cause |-> "none"]
    ELSE LET uncovered == Larger(0, now - l.until)
         IN CASE l.until > now -> [feedGap |-> 0, cause |-> "none"]
              [] l.release = "deadline" /\ uncovered = 0 ->
                     [feedGap |-> 0, cause |-> "none"]
              [] l.release = "deadline" ->
                     [feedGap |-> uncovered,
                      cause |-> IF MissedCron(last, now) THEN "missed-cron"
                                                         ELSE "uncovered"]
              [] l.release = "crash" -> [feedGap |-> uncovered, cause |-> "crash"]
              [] OTHER -> [feedGap |-> 0, cause |-> "none"]

(* Mutant: the gap is read off the lease key alone.                          *)
GapsOfTheLeaseKey(i, l, m) ==
    IF plan[i].feedGap > 0
    THEN {[start |-> nowMs[i] - plan[i].feedGap, end |-> nowMs[i], cause |-> plan[i].cause]}
    ELSE {}

(* The gap a taker stages from the lease and the meta key it read.           *)
StagedGaps(i, l, m) ==
    LET now == nowMs[i]
        heldByOther == l # None /\ l.holder # i /\ l.until > now
        g(from, to, why) == {[start |-> from, end |-> to, cause |-> why]}
    IN CASE ~heldByOther /\ m # None /\ m.release = "none" /\ m.holder # i ->
                g(m.saved, Larger(m.saved, now), "crash")
         [] m # None /\ m.release = "deadline" /\ m.holder # i ->
                LET width == Larger(0, now - m.until)
                IN g(IF width = 0 THEN now ELSE m.until, now,
                     CASE m.saveFailed -> "save failed"
                       [] width = 0 -> "handover"
                       [] MissedCron(lastCronMs[i], now) -> "missed-cron"
                       [] OTHER -> "uncovered")
         [] OTHER ->
                IF plan[i].feedGap > 0
                THEN g(IF l # None THEN l.until ELSE now - plan[i].feedGap, now,
                       plan[i].cause)
                ELSE {}

(* Mutant: a cause outside the registered ones.                              *)
RecordedAsMicro(g, feedOk) == IF feedOk THEN [g EXCEPT !.cause = "micro"] ELSE g

(* recordGap and handoverCause: what becomes of a staged gap.                *)
Recorded(g, feedOk) ==
    [g EXCEPT !.cause =
        CASE g.cause \in {"handover", "uncovered"} ->
                 IF feedOk /\ g.end - g.start < 1 THEN "handover_micro" ELSE "uncovered"
          [] g.cause = "save failed" -> "uncovered"
          [] OTHER -> g.cause]

(* The book as invocation i would save it now: everything it loaded, and the *)
(* ticks since it took the lease.                                            *)
Snapshot(i) == [held |-> host[i].held \cup (nowMs[i] .. clock - 1),
                gaps |-> host[i].gaps]

(* Mutant: any live lease will do.                                           *)
AnyLease(i) == lease # None /\ lease.release = "none"

(* The check of FLUSH_LUA and of every owned write.                          *)
OwnsLease(i) == lease # None /\ lease.holder = i /\ lease.release = "none"

-----------------------------------------------------------------------------
NewLease(i) == [holder |-> i, until |-> deadlineMs(i), release |-> "none",
                saved |-> nowMs[i], saveFailed |-> FALSE, released |-> FALSE]

NoRelease == [at |-> 0, cause |-> "none", saveFailed |-> FALSE]
NoPlan == [feedGap |-> 0, cause |-> "none"]
NoLane == [step |-> "off", at |-> 0, value |-> None]
NoBook == [held |-> {}, gaps |-> {}]

Init ==
    /\ clock = 0
    /\ lease = None /\ expires = 0 /\ meta = None /\ cron = None
    /\ book = NoBook /\ unfenced = FALSE
    /\ pc = [i \in Invocations |-> "idle"]
    /\ startMs = [i \in Invocations |-> 0]
    /\ nowMs = [i \in Invocations |-> 0]
    /\ lastCronMs = [i \in Invocations |-> None]
    /\ raw = [i \in Invocations |-> None]
    /\ plan = [i \in Invocations |-> NoPlan]
    /\ staged = [i \in Invocations |-> {}]
    /\ host = [i \in Invocations |-> NoBook]
    /\ leaseToken = [i \in Invocations |-> FALSE]
    /\ stopped = [i \in Invocations |-> FALSE]
    /\ release = [i \in Invocations |-> NoRelease]
    /\ lane = [i \in Invocations |-> NoLane]

Alive(i) == pc[i] \notin {"idle", "done"}

Goto(i, from, to) == pc[i] = from /\ pc' = [pc EXCEPT ![i] = to]

(* The invocation is over and the memory of its process is gone; of `host`   *)
(* a record is kept of the gaps it had noticed.                              *)
Leave(i) ==
    /\ pc' = [pc EXCEPT ![i] = "done"]
    /\ startMs' = [startMs EXCEPT ![i] = 0]
    /\ nowMs' = [nowMs EXCEPT ![i] = 0]
    /\ lastCronMs' = [lastCronMs EXCEPT ![i] = None]
    /\ raw' = [raw EXCEPT ![i] = None]
    /\ plan' = [plan EXCEPT ![i] = NoPlan]
    /\ staged' = [staged EXCEPT ![i] = {}]
    /\ host' = [host EXCEPT ![i] = [held |-> {}, gaps |-> @.gaps \cup staged[i]]]
    /\ leaseToken' = [leaseToken EXCEPT ![i] = FALSE]
    /\ stopped' = [stopped EXCEPT ![i] = FALSE]
    /\ release' = [release EXCEPT ![i] = NoRelease]
    /\ lane' = [lane EXCEPT ![i] = NoLane]

-----------------------------------------------------------------------------
(* runInvocation up to the takeover.  A local that the code does not read    *)
(* again is reset, so that it does not tell states apart.                    *)

(* A cron fire, or any other request: the handler stamps nowMs and reads the *)
(* lease.                                                                   *)
Start(i) ==
    /\ Goto(i, "idle", "cron")
    /\ clock + MAX_DURATION + LEASE_TTL <= MaxClock
    /\ Cardinality({j \in Invocations : Alive(j)}) < MaxActive
    /\ startMs' = [startMs EXCEPT ![i] = clock]
    /\ nowMs' = [nowMs EXCEPT ![i] = clock]
    /\ raw' = [raw EXCEPT ![i] = lease]
    /\ UNCHANGED <<clock, redis, lastCronMs, plan, staged, host, leaseToken,
                   stopped, release, lane>>

ReadCron(i) ==
    /\ Goto(i, "cron", "mark")
    /\ lastCronMs' = [lastCronMs EXCEPT ![i] = cron]
    /\ UNCHANGED <<clock, redis, startMs, nowMs, raw, plan, staged, host,
                   leaseToken, stopped, release, lane>>

(* The cron key is written, then the plan is made of what was read before.   *)
MarkCron(i) ==
    LET action == PlanAction(nowMs[i], raw[i], lastCronMs[i]) IN
    /\ pc[i] = "mark"
    /\ cron' = nowMs[i]
    /\ \/ action = "duplicate" /\ Leave(i)
       \/ /\ action # "duplicate"
          /\ Goto(i, "mark", IF action = "overlap" THEN "watch" ELSE "look")
          /\ plan' = [plan EXCEPT ![i] = PlanGap(nowMs[i], raw[i], lastCronMs[i])]
          /\ raw' = [raw EXCEPT ![i] = None]
          /\ UNCHANGED <<startMs, nowMs, lastCronMs, staged, host, leaseToken,
                         stopped, release, lane>>
    /\ UNCHANGED <<clock, lease, expires, meta, book, unfenced>>

(* watchUntil polls the lease until it is free or the watch is over.         *)
WatchEnds(i) ==
    /\ Goto(i, "watch", "replan")
    /\ ~Held(lease, clock) \/ clock >= ReleaseAt(i)
    /\ nowMs' = [nowMs EXCEPT ![i] = clock]
    /\ UNCHANGED <<clock, redis, startMs, lastCronMs, raw, plan, staged, host,
                   leaseToken, stopped, release, lane>>

(* The second plan: its action is not looked at, only its gap.               *)
Replan(i) ==
    /\ Goto(i, "replan", "look")
    /\ plan' = [plan EXCEPT ![i] = PlanGap(nowMs[i], lease, lastCronMs[i])]
    /\ UNCHANGED <<clock, redis, startMs, nowMs, lastCronMs, raw, staged, host,
                   leaseToken, stopped, release, lane>>

ReadLease(i, from, to) ==
    /\ Goto(i, from, to)
    /\ raw' = [raw EXCEPT ![i] = lease]
    /\ UNCHANGED <<clock, redis, startMs, nowMs, lastCronMs, plan, staged, host,
                   leaseToken, stopped, release, lane>>

Look(i) == ReadLease(i, "look", "stage")

(* The meta key is read after the lease, and a gap is staged from the two.   *)
Stage(i) ==
    /\ Goto(i, "stage", "get")
    /\ staged' = [staged EXCEPT ![i] = StagedGaps(i, raw[i], meta)]
    /\ raw' = [raw EXCEPT ![i] = None]
    /\ plan' = [plan EXCEPT ![i] = NoPlan]
    /\ lastCronMs' = [lastCronMs EXCEPT ![i] = None]
    /\ UNCHANGED <<clock, redis, startMs, nowMs, host, leaseToken, stopped,
                   release, lane>>

(* tryAcquire: read, compare and swap, then the meta key on its own.         *)
Refused(i) ==
    /\ pc[i] = "get" /\ Held(lease, nowMs[i])
    /\ Leave(i)
    /\ UNCHANGED <<clock, redis>>

AcquireGet(i) ==
    /\ ~Held(lease, nowMs[i])
    /\ ReadLease(i, "get", "swap")

(* Mutant: SET instead of compare and swap.                                  *)
AcquireSet(i) ==
    /\ Goto(i, "swap", "meta")
    /\ lease' = NewLease(i)
    /\ expires' = clock + leasePx(deadlineMs(i), nowMs[i])
    /\ raw' = [raw EXCEPT ![i] = None]
    /\ UNCHANGED <<clock, meta, cron, book, unfenced, startMs, nowMs, lastCronMs,
                   plan, staged, host, leaseToken, stopped, release, lane>>

AcquireCas(i) ==
    /\ lease = raw[i]
    /\ Goto(i, "swap", "meta")
    /\ lease' = NewLease(i)
    /\ expires' = clock + leasePx(deadlineMs(i), nowMs[i])
    /\ raw' = [raw EXCEPT ![i] = None]
    /\ UNCHANGED <<clock, meta, cron, book, unfenced, startMs, nowMs, lastCronMs,
                   plan, staged, host, leaseToken, stopped, release, lane>>

AcquireLost(i) ==
    /\ pc[i] = "swap" /\ lease # raw[i]
    /\ Leave(i)
    /\ UNCHANGED <<clock, redis>>

AcquireMeta(i) ==
    /\ Goto(i, "meta", "token")
    /\ meta' = NewLease(i)
    /\ UNCHANGED <<clock, lease, expires, cron, book, unfenced, locals>>

(* The holder takes its token from the lease key, if the key still says so.  *)
AdoptToken(i, from, to, visible) ==
    /\ Goto(i, from, to)
    /\ leaseToken' = [leaseToken EXCEPT ![i] = @ \/ visible]
    /\ UNCHANGED <<clock, redis, startMs, nowMs, lastCronMs, raw, plan, staged,
                   host, stopped, release, lane>>

(* reload: the token, then the snapshot the last holder saved.               *)
ReloadToken(i) == AdoptToken(i, "token", "load", OwnsLease(i) /\ lease.until > clock)

LoadBook(i) ==
    /\ Goto(i, "load", "confirm")
    /\ host' = [host EXCEPT ![i] = book]
    /\ UNCHANGED <<clock, redis, startMs, nowMs, lastCronMs, raw, plan, staged,
                   leaseToken, stopped, release, lane>>

(* confirmHandover reads the lease once more and replays the overlap buffer; *)
(* then the staged gaps enter the book, in memory.                           *)
ConfirmHandover(i) ==
    /\ Goto(i, "confirm", IF nowMs[i] < ReleaseAt(i) THEN "adopt" ELSE "hold")
    /\ leaseToken' = [leaseToken EXCEPT ![i] = @ \/ OwnsLease(i)]
    /\ \E feedOk \in BOOLEAN :
         /\ feedOk => leaseToken'[i]
         /\ host' = [host EXCEPT ![i].gaps =
                        @ \cup {Recorded(g, feedOk) : g \in staged[i]}]
    /\ staged' = [staged EXCEPT ![i] = {}]
    /\ UNCHANGED <<clock, redis, startMs, nowMs, lastCronMs, raw, plan, stopped,
                   release, lane>>

-----------------------------------------------------------------------------
(* Saves: persistSplit with its outcomes.                                   *)

(* Mutant: the lease is renewed without its PX.                              *)
FlushWithoutPx(i) ==
    /\ OwnsLease(i)
    /\ lease' = [lease EXCEPT !.saved = clock]
    /\ expires' = 0
    /\ meta' = lease'
    /\ book' = Snapshot(i)
    /\ UNCHANGED <<cron, unfenced>>

(* ownedFlush, one EVAL: renew the lease, copy it to the meta key, write.    *)
OwnedFlush(i) ==
    /\ OwnsLease(i)
    /\ lease' = [lease EXCEPT !.saved = clock]
    /\ expires' = clock + leasePx(lease.until, clock)
    /\ meta' = lease'
    /\ book' = Snapshot(i)
    /\ UNCHANGED <<cron, unfenced>>

(* A host without a token writes with plain SETs (applyUnowned).             *)
UnownedFlush(i) ==
    /\ book' = Snapshot(i)
    /\ unfenced' = TRUE
    /\ UNCHANGED <<lease, expires, meta, cron>>

Flush(i) == IF leaseToken[i] THEN OwnedFlush(i) ELSE UnownedFlush(i)

(* Mutant: a transport error is swallowed.                                   *)
SaveSwallowing(i, outcome) ==
    /\ outcome = "saved" /\ ~stopped[i]
    /\ Flush(i) \/ UNCHANGED redis

(* "saved": persistSplit returns.  "lost": it throws "lease lost".  "failed": *)
(* it throws a transport error, and the write may have landed all the same.   *)
(* An oversize plan, like held entries and every other error, only leaves an  *)
(* incident: nothing is written, but the call returns.                       *)
Save(i, outcome) ==
    \/ outcome = "saved" /\ ~stopped[i] /\ Flush(i)
    \/ outcome = "saved" /\ ~stopped[i] /\ "oversize" \in Enabled /\ UNCHANGED redis
    \/ /\ outcome = "lost" /\ (stopped[i] \/ (leaseToken[i] /\ ~OwnsLease(i)))
       /\ UNCHANGED redis
    \/ /\ outcome = "failed" /\ ~stopped[i] /\ "timeout" \in Enabled
       /\ Flush(i) \/ UNCHANGED redis

-----------------------------------------------------------------------------
(* sampleUntil: REST warmup, then driveHost until the release time.          *)

AdoptBeforeSampling(i) ==
    AdoptToken(i, "adopt", IF leaseToken[i] \/ OwnsLease(i) THEN "seed" ELSE "drive",
               OwnsLease(i))

SeedEnds(i) ==
    /\ Goto(i, "seed", "drive")
    /\ lane[i].step = "off"
    /\ UNCHANGED <<clock, redis, locals>>

(* The 60 s heartbeat: an error is an incident, a lost lease stops the host. *)
Heartbeat(i) ==
    /\ pc[i] = "drive" /\ ~stopped[i]
    /\ \E outcome \in {"saved", "lost", "failed"} :
         /\ Save(i, outcome)
         /\ stopped' = [stopped EXCEPT ![i] = outcome = "lost"]
    /\ UNCHANGED <<clock, pc, startMs, nowMs, lastCronMs, raw, plan, staged,
                   host, leaseToken, release, lane>>

(* driveHost returns at once when the host was stopped, else at the release  *)
(* time after one more save whose error is swallowed.                        *)
StopsEarly(i) ==
    /\ Goto(i, "drive", "final")
    /\ stopped[i]
    /\ UNCHANGED <<clock, redis, locals>>

DriveEnds(i) ==
    /\ Goto(i, "drive", "final")
    /\ ~stopped[i] /\ clock >= ReleaseAt(i)
    /\ \E outcome \in {"saved", "lost", "failed"} : Save(i, outcome)
    /\ UNCHANGED <<clock, locals>>

(* coinbaseGet renews the lease before each attempt, beside the heartbeat.   *)
RenewGet(i) ==
    /\ "rest" \in Enabled
    /\ pc[i] \in {"seed", "drive"} /\ lane[i].step = "off"
    /\ leaseToken[i] /\ ~stopped[i]
    /\ IF OwnsLease(i)
       THEN /\ lane' = [lane EXCEPT ![i] = [step |-> "cas", at |-> clock, value |-> lease]]
            /\ UNCHANGED stopped
       ELSE /\ stopped' = [stopped EXCEPT ![i] = TRUE]
            /\ UNCHANGED lane
    /\ UNCHANGED <<clock, redis, pc, startMs, nowMs, lastCronMs, raw, plan, staged,
                   host, leaseToken, release>>

Renewed(i) == [lane[i].value EXCEPT !.saved = lane[i].at]

(* Mutant: SET instead of compare and swap.                                  *)
RenewSet(i) ==
    /\ lane[i].step = "cas" /\ pc[i] # "done"
    /\ lease' = Renewed(i)
    /\ expires' = clock + leasePx(lane[i].value.until, lane[i].at)
    /\ lane' = [lane EXCEPT ![i].step = "meta"]
    /\ UNCHANGED <<clock, meta, cron, book, unfenced, pc, startMs, nowMs, lastCronMs,
                   raw, plan, staged, host, leaseToken, stopped, release>>

(* A failed compare and swap is taken for a lost lease.                      *)
RenewCas(i) ==
    /\ lane[i].step = "cas" /\ pc[i] # "done"
    /\ IF lease = lane[i].value
       THEN /\ lease' = Renewed(i)
            /\ expires' = clock + leasePx(lease.until, lane[i].at)
            /\ lane' = [lane EXCEPT ![i].step = "meta"]
            /\ UNCHANGED stopped
       ELSE /\ stopped' = [stopped EXCEPT ![i] = TRUE]
            /\ lane' = [lane EXCEPT ![i] = NoLane]
            /\ UNCHANGED <<lease, expires>>
    /\ UNCHANGED <<clock, meta, cron, book, unfenced, pc, startMs, nowMs,
                   lastCronMs, raw, plan, staged, host, leaseToken, release>>

RenewMeta(i) ==
    /\ lane[i].step = "meta" /\ pc[i] # "done"
    /\ meta' = Renewed(i)
    /\ lane' = [lane EXCEPT ![i] = NoLane]
    /\ UNCHANGED <<clock, lease, expires, cron, book, unfenced, pc, startMs, nowMs,
                   lastCronMs, raw, plan, staged, host, leaseToken, stopped, release>>

-----------------------------------------------------------------------------
(* releaseFinal, the crash path of runInvocation, and releaseLease.          *)

RecordGap(i, from, to, why) ==
    host' = [host EXCEPT ![i].gaps = @ \cup {[start |-> from, end |-> to, cause |-> why]}]

(* persistFinal retries a transport error until shortly before the deadline. *)
FinalRetry(i) ==
    /\ pc[i] = "final"
    /\ Save(i, "failed")
    /\ UNCHANGED <<clock, pc, locals>>

(* The last attempt: the handover gap is recorded after it, in memory only.  *)
FinalSave(i) ==
    /\ Goto(i, "final", "relGet")
    /\ \E outcome \in {"saved", "lost", "failed"} :
         /\ Save(i, outcome)
         /\ outcome = "failed" => clock >= ReleaseAt(i)
         /\ RecordGap(i, ReleaseAt(i), ReleaseAt(i),
                      IF outcome = "saved" THEN "handover" ELSE "uncovered")
         /\ release' = [release EXCEPT ![i] =
                           [at |-> ReleaseAt(i), cause |-> "deadline",
                            saveFailed |-> outcome # "saved"]]
    /\ UNCHANGED <<clock, startMs, nowMs, lastCronMs, raw, plan, staged,
                   leaseToken, stopped, lane>>

(* sampleUntil rejects during the REST warmup: a crash gap from the last     *)
(* save to now.                                                             *)
SampleThrows(i) ==
    LET savedAt == IF meta = None THEN nowMs[i] ELSE meta.saved IN
    /\ "throw" \in Enabled
    /\ pc[i] \in {"adopt", "seed"} /\ pc' = [pc EXCEPT ![i] = "crashed"]
    /\ lane[i].step = "off"
    /\ RecordGap(i, savedAt, Larger(savedAt, clock), "crash")
    /\ release' = [release EXCEPT ![i] =
                      [at |-> clock, cause |-> "crash", saveFailed |-> FALSE]]
    /\ UNCHANGED <<clock, redis, startMs, nowMs, lastCronMs, raw, plan, staged,
                   leaseToken, stopped, lane>>

CrashSave(i) ==
    /\ Goto(i, "crashed", "relGet")
    /\ \E outcome \in {"saved", "lost", "failed"} : Save(i, outcome)
    /\ UNCHANGED <<clock, locals>>

(* releaseLease: get, compare and swap, get again, meta key, delete.         *)
Released(i) ==
    [raw[i] EXCEPT !.until = release[i].at, !.release = release[i].cause,
                   !.saveFailed = release[i].saveFailed, !.released = TRUE]

ReleaseGet(i) ==
    /\ lease # None /\ lease.holder = i
    /\ ReadLease(i, "relGet", "relCas")

ReleaseCas(i) ==
    /\ lease = raw[i]
    /\ Goto(i, "relCas", "relStill")
    /\ lease' = Released(i)
    /\ expires' = 0
    /\ UNCHANGED <<clock, meta, cron, book, unfenced, locals>>

ReleaseStill(i) ==
    /\ lease # None /\ lease.holder = i
    /\ Goto(i, "relStill", "relMeta")
    /\ UNCHANGED <<clock, redis, locals>>

(* Each of the three gives up when the lease is no longer its own.           *)
ReleaseLost(i) ==
    /\ \/ pc[i] \in {"relGet", "relStill"} /\ ~(lease # None /\ lease.holder = i)
       \/ pc[i] = "relCas" /\ lease # raw[i]
    /\ Leave(i)
    /\ UNCHANGED <<clock, redis>>

ReleaseMeta(i) ==
    /\ Goto(i, "relMeta", "relDel")
    /\ meta' = Released(i)
    /\ UNCHANGED <<clock, lease, expires, cron, book, unfenced, locals>>

ReleaseDel(i) ==
    /\ pc[i] = "relDel"
    /\ lease' = None /\ expires' = 0
    /\ Leave(i)
    /\ UNCHANGED <<clock, meta, cron, book, unfenced>>

(* Taken over too late to sample: one save, noteLeaseSave, and the lease is  *)
(* left to run out.                                                         *)
HoldSave(i) ==
    /\ pc[i] = "hold"
    /\ \/ Save(i, "lost") /\ Leave(i)
       \/ /\ Save(i, "saved") \/ Save(i, "failed")
          /\ Goto(i, "hold", "noteGet")
          /\ UNCHANGED locals
    /\ UNCHANGED clock

NoteGet(i) ==
    /\ pc[i] = "noteGet"
    /\ IF meta = None \/ meta.release # "none" \/ nowMs[i] < meta.saved
       THEN Leave(i)
       ELSE /\ Goto(i, "noteGet", "noteSet")
            /\ raw' = [raw EXCEPT ![i] = meta]
            /\ UNCHANGED <<startMs, nowMs, lastCronMs, plan, staged, host,
                           leaseToken, stopped, release, lane>>
    /\ UNCHANGED <<clock, redis>>

NoteSet(i) ==
    /\ pc[i] = "noteSet"
    /\ meta' = [raw[i] EXCEPT !.saved = nowMs[i]]
    /\ Leave(i)
    /\ UNCHANGED <<clock, lease, expires, cron, book, unfenced>>

-----------------------------------------------------------------------------
(* The platform: a kill at any await, the function deadline, and time.       *)

Dies(i) == Alive(i) /\ Leave(i) /\ UNCHANGED <<clock, redis>>

Kill(i) == "kill" \in Enabled /\ Dies(i)

Timeout(i) == clock >= deadlineMs(i) /\ Dies(i)

(* Time passes; Redis drops the lease when its PX runs out.  The platform    *)
(* lets no process live past its deadline.                                   *)
Tick ==
    /\ clock < MaxClock
    /\ \A i \in Invocations : Alive(i) => clock < deadlineMs(i)
    /\ clock' = clock + 1
    /\ IF lease # None /\ expires # 0 /\ clock + 1 >= expires
       THEN lease' = None /\ expires' = 0
       ELSE UNCHANGED <<lease, expires>>
    /\ UNCHANGED <<meta, cron, book, unfenced, pc, locals>>

Takeover(i) ==
    \/ Start(i) \/ ReadCron(i) \/ MarkCron(i) \/ WatchEnds(i) \/ Replan(i)
    \/ Look(i) \/ Stage(i) \/ Refused(i) \/ AcquireGet(i) \/ AcquireCas(i)
    \/ AcquireLost(i) \/ AcquireMeta(i) \/ ReloadToken(i) \/ LoadBook(i) \/ ConfirmHandover(i)

Sampling(i) ==
    \/ AdoptBeforeSampling(i) \/ SeedEnds(i) \/ Heartbeat(i) \/ StopsEarly(i)
    \/ DriveEnds(i) \/ RenewGet(i) \/ RenewCas(i) \/ RenewMeta(i)

Ending(i) ==
    \/ FinalRetry(i) \/ FinalSave(i) \/ SampleThrows(i) \/ CrashSave(i)
    \/ ReleaseGet(i) \/ ReleaseCas(i) \/ ReleaseStill(i) \/ ReleaseLost(i)
    \/ ReleaseMeta(i) \/ ReleaseDel(i) \/ HoldSave(i) \/ NoteGet(i) \/ NoteSet(i)

Step(i) == Takeover(i) \/ Sampling(i) \/ Ending(i)

Next == Tick \/ \E i \in Invocations : Step(i) \/ Kill(i) \/ Timeout(i)

Spec == Init /\ [][Next]_vars

(* Time passes, and an invocation that is alive and on time makes progress.  *)
FairSpec == Spec /\ WF_vars(Tick)
                 /\ \A i \in Invocations : WF_vars(Step(i)) /\ WF_vars(Timeout(i))

-----------------------------------------------------------------------------
(* Properties.                                                              *)

Steps == {"idle", "cron", "mark", "watch", "replan", "look", "stage", "get",
          "swap", "meta", "token", "load", "confirm", "adopt", "seed", "drive",
          "final", "crashed", "relGet", "relCas", "relStill", "relMeta", "relDel",
          "hold", "noteGet", "noteSet", "done"}

LeaseOrNone == Lease \cup {None}

RedisOK ==
    /\ expires \in Nat
    /\ lease \in LeaseOrNone /\ meta \in LeaseOrNone
    /\ cron \in Nat \cup {None}
    /\ book \in Book /\ unfenced \in BOOLEAN

LocalsOK ==
    /\ pc \in [Invocations -> Steps]
    /\ startMs \in [Invocations -> Nat] /\ nowMs \in [Invocations -> Nat]
    /\ lastCronMs \in [Invocations -> Nat \cup {None}]
    /\ raw \in [Invocations -> LeaseOrNone]
    /\ plan \in [Invocations -> [feedGap: Nat, cause: Causes]]
    /\ staged \in [Invocations -> SUBSET Gap]
    /\ host \in [Invocations -> Book]
    /\ leaseToken \in [Invocations -> BOOLEAN]
    /\ stopped \in [Invocations -> BOOLEAN]
    /\ release \in [Invocations -> [at: Nat, cause: {"none", "deadline", "crash"},
                                    saveFailed: BOOLEAN]]
    /\ lane \in [Invocations -> [step: {"off", "cas", "meta"}, at: Nat,
                                 value: LeaseOrNone]]

(* Every variable of the relay stays in its domain.                          *)
TypeOK == clock \in Nat /\ RedisOK /\ LocalsOK

(* tryAcquire never takes a lease from a holder who has not released it and  *)
(* whose time has not run out, however old the value it decided on.          *)
NoSteal ==
    [][Held(lease, clock) /\ lease' # None => lease'.holder = lease.holder]_vars

(* A lease that is neither released nor run out only goes away with time:    *)
(* releaseLease "does not overwrite" what its caller no longer owns.         *)
OnlyTimeDropsALiveLease ==
    [][Held(lease, clock) /\ lease' = None => clock' > clock]_vars

(* "A crash drops the key inside this window": a lease that is not released  *)
(* never outlives LEASE_TTL without being renewed.                           *)
LeaseIsShort ==
    lease # None /\ ~lease.released => expires > clock /\ expires <= clock + LEASE_TTL

(* While every save went out under a token, the durable book only grows: no  *)
(* save of an earlier holder, and no stale copy, replaces a later one.       *)
BookGrows ==
    [][~unfenced' => /\ book.held \subseteq book'.held
                     /\ book.gaps \subseteq book'.gaps]_vars

TicksOf(gaps) == UNION {g.start .. (g.end - 1) : g \in gaps}

(* The ticks inside the saved history that no holder sampled and no recorded *)
(* gap covers.                                                              *)
Holes(b) == {t \in 0 .. MaxClock : /\ t \notin b.held \cup TicksOf(b.gaps)
                                   /\ \E lo \in b.held : lo < t
                                   /\ \E hi \in b.held : t < hi}

(* A hole in the saved history was at least noticed: some taker had staged a *)
(* gap over it, and went down before its first save.                         *)
HolesWereNoticed ==
    Holes(book) \subseteq UNION {TicksOf(host[i].gaps) : i \in Invocations}

(* saveFailed: a deadline release that does not say so has everything up to  *)
(* the release time in the book.                                            *)
ReleaseTellsOfALostSave ==
    [][\A i \in Invocations :
          pc[i] = "final" /\ pc'[i] = "relGet" /\ ~release'[i].saveFailed
             => nowMs[i] .. (ReleaseAt(i) - 1) \subseteq book'.held]_vars

(* The key of an invocation that is over goes, wherever in its last steps it *)
(* went down: time takes it (every write of it carries a PX) or a successor.  *)
DeadHoldersLeaseEnds ==
    \A i \in Invocations :
        LET left == pc[i] = "done" /\ lease # None /\ lease.holder = i /\ ~lease.released
        IN left ~> ~left

=============================================================================
