-------------------------- MODULE RelayLeaseProofs --------------------------
(***************************************************************************)
(* Theorems about RelayLease, for every set of invocations, every length of *)
(* the lease, the margins and the clock, and every set of enabled faults.    *)
(***************************************************************************)
EXTENDS RelayLease, FiniteSetTheorems, TLAPS

USE DEF redis, locals

-----------------------------------------------------------------------------
(* The inductive invariant, in parts.                                        *)

(* No invocation is ahead of the clock, and a plan's gap began after time 0. *)
Timely == \A i \in Invocations : nowMs[i] <= clock /\ plan[i].feedGap <= nowMs[i]

(* A lease value kept for a later write is a lease.                          *)
KeptLeases ==
    \A i \in Invocations :
        /\ lane[i].step # "off" => lane[i].value \in Lease
        /\ pc[i] \in {"relCas", "relStill", "relMeta", "noteSet"} => raw[i] \in Lease

(* The value a taker compares with was free when it was read.                *)
SwapsAFreeLease ==
    \A i \in Invocations : pc[i] = "swap" => ~Held(raw[i], nowMs[i])

TypeInv == TypeOK /\ Timely /\ KeptLeases /\ SwapsAFreeLease

-----------------------------------------------------------------------------
(* Operators.                                                               *)

(* The PX of the lease is positive and at most LEASE_TTL.                     *)
LEMMA PxInRange ==
    ASSUME NEW until \in Nat, NEW now \in Nat
    PROVE  leasePx(until, now) \in Nat /\ leasePx(until, now) \in 1 .. LEASE_TTL
BY TimesAssumption DEF leasePx, Smaller, Larger

(* The times a holder is given lie after its start.                          *)
LEMMA DeadlineInNat ==
    ASSUME LocalsOK, NEW i \in Invocations
    PROVE  /\ deadlineMs(i) \in Nat
           /\ ReleaseAt(i) \in Nat
BY TimesAssumption DEF LocalsOK, deadlineMs, ReleaseAt

(* A plan's gap is never longer than the time there has been.                *)
LEMMA PlanGapType ==
    ASSUME NEW now \in Nat, NEW l \in LeaseOrNone, NEW last
    PROVE  /\ PlanGap(now, l, last) \in [feedGap: Nat, cause: Causes]
           /\ PlanGap(now, l, last).feedGap <= now
<1>1. CASE Held(l, now) \/ l = None
    BY <1>1 DEF PlanGap, Causes
<1>2. CASE ~(Held(l, now) \/ l = None)
    <2>1. l.until \in Nat
        BY <1>2 DEF LeaseOrNone, Lease
    <2>2. /\ Larger(0, now - l.until) \in Nat
          /\ Larger(0, now - l.until) <= now
        BY <2>1 DEF Larger
    <2> QED
        BY <1>2, <2>1, <2>2 DEF PlanGap, Causes
<1> QED
    BY <1>1, <1>2

(* What a taker stages is a set of gaps.                                     *)
LEMMA StagedGapsType ==
    ASSUME TypeOK, Timely, NEW i \in Invocations,
           NEW l \in LeaseOrNone, NEW m \in LeaseOrNone
    PROVE  StagedGaps(i, l, m) \in SUBSET Gap
<1> DEFINE now == nowMs[i]
           g(from, to, why) == {[start |-> from, end |-> to, cause |-> why]}
<1>1. /\ now \in Nat
      /\ plan[i].feedGap \in Nat /\ plan[i].cause \in Causes
      /\ plan[i].feedGap <= now
    BY DEF TypeOK, LocalsOK, Timely
<1>2. ASSUME NEW from \in Nat, NEW to \in Nat, NEW why \in Causes
      PROVE  g(from, to, why) \in SUBSET Gap
    BY <1>2 DEF Gap
<1>3. m # None => m.saved \in Nat /\ m.until \in Nat
    BY DEF LeaseOrNone, Lease
<1>4. l # None => l.until \in Nat
    BY DEF LeaseOrNone, Lease
<1>5. m # None => Larger(m.saved, now) \in Nat
    BY <1>1, <1>3 DEF Larger
<1>6. now - plan[i].feedGap \in Nat
    BY <1>1
<1>7. {"crash", "save failed", "handover", "missed-cron", "uncovered"} \subseteq Causes
    BY DEF Causes
<1> HIDE DEF g
<1>8. CASE ~(l # None /\ l.holder # i /\ l.until > now)
           /\ m # None /\ m.release = "none" /\ m.holder # i
    <2>1. StagedGaps(i, l, m) = g(m.saved, Larger(m.saved, now), "crash")
        BY <1>8 DEF StagedGaps, g
    <2> QED
        BY <1>2, <1>3, <1>5, <1>7, <1>8, <2>1
<1>9. CASE m # None /\ m.release = "deadline" /\ m.holder # i
    <2> DEFINE width == Larger(0, now - m.until)
               from == IF width = 0 THEN now ELSE m.until
               why == CASE m.saveFailed -> "save failed"
                        [] width = 0 -> "handover"
                        [] MissedCron(lastCronMs[i], now) -> "missed-cron"
                        [] OTHER -> "uncovered"
    <2>1. StagedGaps(i, l, m) = g(from, now, why)
        BY <1>9 DEF StagedGaps, g
    <2>2. from \in Nat
        BY <1>1, <1>3, <1>9
    <2>3. why \in Causes
        BY <1>7
    <2> QED
        BY <1>1, <1>2, <2>1, <2>2, <2>3
<1>10. CASE /\ ~(~(l # None /\ l.holder # i /\ l.until > now)
                 /\ m # None /\ m.release = "none" /\ m.holder # i)
            /\ ~(m # None /\ m.release = "deadline" /\ m.holder # i)
    <2> DEFINE from == IF l # None THEN l.until ELSE now - plan[i].feedGap
    <2>1. StagedGaps(i, l, m) = IF plan[i].feedGap > 0
                                THEN g(from, now, plan[i].cause) ELSE {}
        BY <1>10 DEF StagedGaps, g
    <2>2. from \in Nat
        BY <1>4, <1>6
    <2> QED
        BY <1>1, <1>2, <2>1, <2>2
<1> QED
    BY <1>8, <1>9, <1>10

-----------------------------------------------------------------------------
(* Type correctness.                                                        *)

LEMMA LeaveType ==
    ASSUME LocalsOK, NEW i \in Invocations, Leave(i)
    PROVE  LocalsOK'
<1>1. host[i].gaps \cup staged[i] \in SUBSET Gap
    BY DEF LocalsOK, Book
<1>2. [held |-> {}, gaps |-> host[i].gaps \cup staged[i]] \in Book
    BY <1>1 DEF Book
<1>3. /\ NoPlan \in [feedGap: Nat, cause: Causes]
      /\ NoRelease \in [at: Nat, cause: {"none", "deadline", "crash"}, saveFailed: BOOLEAN]
      /\ NoLane \in [step: {"off", "cas", "meta"}, at: Nat, value: LeaseOrNone]
      /\ "done" \in Steps /\ None \in LeaseOrNone
    BY DEF NoPlan, NoRelease, NoLane, Steps, Causes, LeaseOrNone
<1> QED
    BY <1>2, <1>3 DEF LocalsOK, Leave

(* A flush keeps the holder and the release of the lease.                    *)
LEMMA FlushType ==
    ASSUME TypeOK, NEW i \in Invocations, OwnedFlush(i)
    PROVE  RedisOK' /\ lease' \in Lease
<1>1. lease \in Lease
    BY DEF TypeOK, RedisOK, OwnedFlush, OwnsLease, LeaseOrNone
<1>2. lease' \in Lease
    BY <1>1 DEF TypeOK, OwnedFlush, Lease
<1>3. expires' \in Nat
    <2>1. lease.until \in Nat
        BY <1>1 DEF Lease
    <2>2. leasePx(lease.until, clock) \in Nat
        BY <2>1, PxInRange, TimesAssumption DEF TypeOK
    <2> QED
        BY <2>2 DEF TypeOK, OwnedFlush
<1>4. book' \in Book
    <2>1. host[i].held \in SUBSET Nat /\ host[i].gaps \in SUBSET Gap /\ nowMs[i] \in Nat
        BY DEF TypeOK, LocalsOK, Book
    <2> QED
        BY <2>1 DEF TypeOK, OwnedFlush, Snapshot, Book
<1> QED
    BY <1>2, <1>3, <1>4 DEF TypeOK, RedisOK, LeaseOrNone, OwnedFlush

LEMMA SaveType ==
    ASSUME TypeOK, NEW i \in Invocations, NEW outcome, Save(i, outcome)
    PROVE  RedisOK'
<1>1. CASE OwnedFlush(i)
    BY <1>1, FlushType
<1>2. CASE UnownedFlush(i)
    <2>1. host[i].held \in SUBSET Nat /\ host[i].gaps \in SUBSET Gap /\ nowMs[i] \in Nat
        BY DEF TypeOK, LocalsOK, Book
    <2>2. Snapshot(i) \in Book
        BY <2>1 DEF TypeOK, Snapshot, Book
    <2> QED
        BY <1>2, <2>2 DEF TypeOK, RedisOK, UnownedFlush
<1>3. CASE UNCHANGED redis
    BY <1>3 DEF TypeOK, RedisOK
<1> QED
    BY <1>1, <1>2, <1>3 DEF Save, Flush

LEMMA ReadLeaseType ==
    ASSUME TypeOK, NEW i \in Invocations, NEW from, NEW to \in Steps, ReadLease(i, from, to)
    PROVE  TypeOK'
BY DEF TypeOK, RedisOK, LocalsOK, ReadLease, Goto

LEMMA AdoptType ==
    ASSUME TypeOK, NEW i \in Invocations, NEW from, NEW to \in Steps, NEW v \in BOOLEAN,
           AdoptToken(i, from, to, v)
    PROVE  TypeOK'
BY DEF TypeOK, RedisOK, LocalsOK, AdoptToken, Goto

LEMMA RecordedType ==
    ASSUME NEW g \in Gap, NEW feedOk \in BOOLEAN
    PROVE  Recorded(g, feedOk) \in Gap
<1> DEFINE why == CASE g.cause \in {"handover", "uncovered"} ->
                         IF feedOk /\ g.end - g.start < 1 THEN "handover_micro"
                                                          ELSE "uncovered"
                    [] g.cause = "save failed" -> "uncovered"
                    [] OTHER -> g.cause
<1>1. why \in Causes
    BY DEF Causes, Gap
<1>2. Recorded(g, feedOk) = [g EXCEPT !.cause = why]
    BY DEF Recorded
<1> HIDE DEF why
<1> QED
    BY <1>1, <1>2 DEF Gap

LEMMA TakeoverType ==
    ASSUME TypeInv, NEW i \in Invocations, Takeover(i)
    PROVE  TypeOK'
<1> USE DEF TypeInv
<1>n. NewLease(i) \in Lease
    BY DeadlineInNat DEF TypeOK, LocalsOK, NewLease, Lease
<1>1. CASE Start(i)
    BY <1>1 DEF TypeOK, RedisOK, LocalsOK, Start, Goto, Steps
<1>2. CASE ReadCron(i)
    BY <1>2 DEF TypeOK, RedisOK, LocalsOK, ReadCron, Goto, Steps
<1>3. CASE MarkCron(i)
    <2>1. RedisOK' /\ clock' \in Nat
        BY <1>3 DEF TypeOK, RedisOK, LocalsOK, MarkCron
    <2>2. CASE Leave(i)
        BY <2>1, <2>2, LeaveType DEF TypeOK
    <2>3. CASE ~Leave(i)
        <3>1. PlanGap(nowMs[i], raw[i], lastCronMs[i]) \in [feedGap: Nat, cause: Causes]
            BY PlanGapType DEF TypeOK, LocalsOK
        <3>2. None \in LeaseOrNone /\ "watch" \in Steps /\ "look" \in Steps
            BY DEF LeaseOrNone, Steps
        <3>3. PICK to \in {"watch", "look"} : pc' = [pc EXCEPT ![i] = to]
            BY <1>3, <2>3 DEF MarkCron, Goto
        <3>4. /\ raw' = [raw EXCEPT ![i] = None]
              /\ plan' = [plan EXCEPT ![i] = PlanGap(nowMs[i], raw[i], lastCronMs[i])]
              /\ UNCHANGED <<startMs, nowMs, lastCronMs, staged, host, leaseToken,
                             stopped, release, lane>>
            BY <1>3, <2>3 DEF MarkCron
        <3> QED
            BY <2>1, <3>1, <3>2, <3>3, <3>4 DEF TypeOK, LocalsOK
    <2> QED
        BY <2>2, <2>3
<1>4. CASE WatchEnds(i)
    BY <1>4 DEF TypeOK, RedisOK, LocalsOK, WatchEnds, Goto, Steps
<1>5. CASE Replan(i)
    <2>1. PlanGap(nowMs[i], lease, lastCronMs[i]) \in [feedGap: Nat, cause: Causes]
        BY PlanGapType DEF TypeOK, LocalsOK, RedisOK
    <2> QED
        BY <1>5, <2>1 DEF TypeOK, RedisOK, LocalsOK, Replan, Goto, Steps
<1>6. CASE Look(i)
    BY <1>6, ReadLeaseType DEF Look, Steps
<1>7. CASE Stage(i)
    <2>1. StagedGaps(i, raw[i], meta) \in SUBSET Gap
        BY StagedGapsType DEF TypeOK, LocalsOK, RedisOK
    <2>2. None \in LeaseOrNone /\ NoPlan \in [feedGap: Nat, cause: Causes]
        BY DEF LeaseOrNone, NoPlan, Causes
    <2> QED
        BY <1>7, <2>1, <2>2 DEF TypeOK, RedisOK, LocalsOK, Stage, Goto, Steps
<1>8. CASE Refused(i)
    BY <1>8, LeaveType DEF TypeOK, RedisOK, Refused
<1>9. CASE AcquireGet(i)
    BY <1>9, ReadLeaseType DEF AcquireGet, Steps
<1>10. CASE AcquireCas(i)
    <2>1. expires' \in Nat
        <3>1. leasePx(deadlineMs(i), nowMs[i]) \in Nat
            BY DeadlineInNat, PxInRange DEF TypeOK, LocalsOK
        <3> QED
            BY <1>10, <3>1 DEF TypeOK, AcquireCas
    <2>2. RedisOK' /\ clock' \in Nat
        BY <1>n, <1>10, <2>1 DEF TypeOK, RedisOK, AcquireCas, LeaseOrNone
    <2>3. LocalsOK'
        BY <1>10 DEF TypeOK, LocalsOK, AcquireCas, Goto, Steps, LeaseOrNone
    <2> QED
        BY <2>2, <2>3 DEF TypeOK
<1>11. CASE AcquireLost(i)
    BY <1>11, LeaveType DEF TypeOK, RedisOK, AcquireLost
<1>12. CASE AcquireMeta(i)
    BY <1>n, <1>12 DEF TypeOK, RedisOK, LocalsOK, AcquireMeta, Goto, Steps, LeaseOrNone
<1>13. CASE ReloadToken(i)
    BY <1>13, AdoptType DEF ReloadToken, Steps, OwnsLease
<1>14. CASE LoadBook(i)
    BY <1>14 DEF TypeOK, RedisOK, LocalsOK, LoadBook, Goto, Steps
<1>15. CASE ConfirmHandover(i)
    <2>1. PICK feedOk \in BOOLEAN :
              host' = [host EXCEPT ![i].gaps =
                          @ \cup {Recorded(g, feedOk) : g \in staged[i]}]
        BY <1>15 DEF ConfirmHandover
    <2>2. {Recorded(g, feedOk) : g \in staged[i]} \in SUBSET Gap
        BY RecordedType DEF TypeOK, LocalsOK
    <2>3. host' \in [Invocations -> Book]
        BY <2>1, <2>2 DEF TypeOK, LocalsOK, Book
    <2> QED
        BY <1>15, <2>3 DEF TypeOK, RedisOK, LocalsOK, ConfirmHandover, Goto, Steps, OwnsLease
<1> QED
    BY <1>1, <1>2, <1>3, <1>4, <1>5, <1>6, <1>7, <1>8, <1>9, <1>10, <1>11, <1>12,
       <1>13, <1>14, <1>15 DEF Takeover

LEMMA SamplingType ==
    ASSUME TypeInv, NEW i \in Invocations, Sampling(i)
    PROVE  TypeOK'
<1> USE DEF TypeInv
<1> DEFINE Lane == [step: {"off", "cas", "meta"}, at: Nat, value: LeaseOrNone]
<1>0. NoLane \in Lane
    BY DEF NoLane, LeaseOrNone
<1>1. CASE AdoptBeforeSampling(i)
    BY <1>1, AdoptType DEF AdoptBeforeSampling, Steps, OwnsLease
<1>2. CASE SeedEnds(i)
    BY <1>2 DEF TypeOK, RedisOK, LocalsOK, SeedEnds, Goto, Steps
<1>3. CASE Heartbeat(i)
    <2>1. RedisOK'
        BY <1>3, SaveType DEF Heartbeat
    <2> QED
        BY <1>3, <2>1 DEF TypeOK, LocalsOK, Heartbeat
<1>4. CASE StopsEarly(i)
    BY <1>4 DEF TypeOK, RedisOK, LocalsOK, StopsEarly, Goto, Steps
<1>5. CASE DriveEnds(i)
    <2>1. RedisOK'
        BY <1>5, SaveType DEF DriveEnds
    <2> QED
        BY <1>5, <2>1 DEF TypeOK, LocalsOK, DriveEnds, Goto, Steps
<1>6. CASE RenewGet(i)
    <2>1. [step |-> "cas", at |-> clock, value |-> lease] \in Lane
        BY DEF TypeOK, RedisOK
    <2>2. lane' \in [Invocations -> Lane]
        BY <1>6, <2>1 DEF TypeOK, LocalsOK, RenewGet
    <2> QED
        BY <1>6, <2>2 DEF TypeOK, RedisOK, LocalsOK, RenewGet
<1>7. CASE RenewCas(i)
    <2>0. lane[i].value \in Lease /\ lane[i].at \in Nat
        BY <1>7 DEF KeptLeases, TypeOK, LocalsOK, RenewCas
    <2>1. Renewed(i) \in Lease
        BY <2>0 DEF Renewed, Lease
    <2>2. lease = lane[i].value => clock + leasePx(lease.until, lane[i].at) \in Nat
        <3>1. lane[i].value.until \in Nat
            BY <2>0 DEF Lease
        <3>2. leasePx(lane[i].value.until, lane[i].at) \in Nat
            BY <2>0, <3>1, PxInRange
        <3> QED
            BY <3>2 DEF TypeOK
    <2>3. RedisOK' /\ clock' \in Nat
        BY <1>7, <2>1, <2>2 DEF TypeOK, RedisOK, RenewCas, LeaseOrNone
    <2>4. LocalsOK'
        <3>1. [lane[i] EXCEPT !.step = "meta"] \in Lane
            BY DEF TypeOK, LocalsOK
        <3>2. lane' \in [Invocations -> Lane]
            BY <1>0, <1>7, <3>1 DEF TypeOK, LocalsOK, RenewCas
        <3>3. stopped' \in [Invocations -> BOOLEAN]
            BY <1>7 DEF TypeOK, LocalsOK, RenewCas
        <3> QED
            BY <1>7, <3>2, <3>3 DEF TypeOK, LocalsOK, RenewCas
    <2> QED
        BY <2>3, <2>4 DEF TypeOK
<1>8. CASE RenewMeta(i)
    <2>1. Renewed(i) \in Lease
        BY <1>8 DEF KeptLeases, TypeOK, LocalsOK, RenewMeta, Renewed, Lease
    <2> QED
        BY <1>0, <1>8, <2>1 DEF TypeOK, RedisOK, LocalsOK, RenewMeta, LeaseOrNone
<1> QED
    BY <1>1, <1>2, <1>3, <1>4, <1>5, <1>6, <1>7, <1>8 DEF Sampling

LEMMA EndingType ==
    ASSUME TypeInv, NEW i \in Invocations, Ending(i)
    PROVE  TypeOK'
<1> USE DEF TypeInv
<1> DEFINE Args == [at: Nat, cause: {"none", "deadline", "crash"}, saveFailed: BOOLEAN]
<1>d. ReleaseAt(i) \in Nat
    BY DeadlineInNat DEF TypeOK
<1>g. ASSUME NEW from \in Nat, NEW to \in Nat, NEW why \in Causes,
             RecordGap(i, from, to, why)
      PROVE  host' \in [Invocations -> Book]
    <2>1. [start |-> from, end |-> to, cause |-> why] \in Gap
        BY <1>g DEF Gap
    <2>0. host[i] \in Book
        BY DEF TypeOK, LocalsOK
    <2>2. host[i].gaps \cup {[start |-> from, end |-> to, cause |-> why]} \in SUBSET Gap
        BY <2>0, <2>1 DEF Book
    <2>3. [host[i] EXCEPT !.gaps = @ \cup {[start |-> from, end |-> to, cause |-> why]}] \in Book
        BY <2>0, <2>2 DEF Book
    <2> QED
        BY <1>g, <2>3 DEF TypeOK, LocalsOK, RecordGap
<1>r. raw[i] \in Lease => Released(i) \in Lease
    BY DEF TypeOK, LocalsOK, Released, Lease
<1>1. CASE FinalRetry(i)
    <2>1. RedisOK'
        BY <1>1, SaveType DEF FinalRetry
    <2> QED
        BY <1>1, <2>1 DEF TypeOK, LocalsOK, FinalRetry
<1>2. CASE FinalSave(i)
    <2>1. RedisOK'
        BY <1>2, SaveType DEF FinalSave
    <2>2. host' \in [Invocations -> Book]
        BY <1>2, <1>d, <1>g DEF FinalSave, Causes
    <2>3. release' \in [Invocations -> Args]
        BY <1>2, <1>d DEF TypeOK, LocalsOK, FinalSave
    <2> QED
        BY <1>2, <2>1, <2>2, <2>3 DEF TypeOK, LocalsOK, FinalSave, Goto, Steps
<1>3. CASE SampleThrows(i)
    <2> DEFINE savedAt == IF meta = None THEN nowMs[i] ELSE meta.saved
    <2>1. savedAt \in Nat /\ Larger(savedAt, clock) \in Nat
        BY DEF TypeOK, LocalsOK, RedisOK, LeaseOrNone, Lease, Larger
    <2>2. host' \in [Invocations -> Book]
        BY <1>3, <1>g, <2>1 DEF SampleThrows, Causes
    <2> QED
        BY <1>3, <2>2 DEF TypeOK, RedisOK, LocalsOK, SampleThrows, Steps
<1>4. CASE CrashSave(i)
    <2>1. RedisOK'
        BY <1>4, SaveType DEF CrashSave
    <2> QED
        BY <1>4, <2>1 DEF TypeOK, LocalsOK, CrashSave, Goto, Steps
<1>5. CASE ReleaseGet(i)
    BY <1>5, ReadLeaseType DEF ReleaseGet, Steps
<1>6. CASE ReleaseCas(i)
    <2>1. Released(i) \in Lease
        BY <1>6, <1>r DEF KeptLeases, ReleaseCas, Goto
    <2> QED
        BY <1>6, <2>1 DEF TypeOK, RedisOK, LocalsOK, ReleaseCas, Goto, Steps, LeaseOrNone
<1>7. CASE ReleaseStill(i)
    BY <1>7 DEF TypeOK, RedisOK, LocalsOK, ReleaseStill, Goto, Steps
<1>8. CASE ReleaseLost(i)
    BY <1>8, LeaveType DEF TypeOK, RedisOK, ReleaseLost
<1>9. CASE ReleaseMeta(i)
    <2>1. Released(i) \in Lease
        BY <1>9, <1>r DEF KeptLeases, ReleaseMeta, Goto
    <2> QED
        BY <1>9, <2>1 DEF TypeOK, RedisOK, LocalsOK, ReleaseMeta, Goto, Steps, LeaseOrNone
<1>10. CASE ReleaseDel(i)
    BY <1>10, LeaveType DEF TypeOK, RedisOK, ReleaseDel, LeaseOrNone
<1>11. CASE HoldSave(i)
    <2>1. RedisOK'
        BY <1>11, SaveType DEF HoldSave
    <2>2. CASE Leave(i)
        BY <1>11, <2>1, <2>2, LeaveType DEF TypeOK, HoldSave
    <2>3. CASE ~Leave(i)
        BY <1>11, <2>1, <2>3 DEF TypeOK, LocalsOK, HoldSave, Goto, Steps
    <2> QED
        BY <2>2, <2>3
<1>12. CASE NoteGet(i)
    <2>1. CASE Leave(i)
        BY <1>12, <2>1, LeaveType DEF TypeOK, RedisOK, NoteGet
    <2>2. CASE ~Leave(i)
        BY <1>12, <2>2 DEF TypeOK, RedisOK, LocalsOK, NoteGet, Goto, Steps
    <2> QED
        BY <2>1, <2>2
<1>13. CASE NoteSet(i)
    <2>1. [raw[i] EXCEPT !.saved = nowMs[i]] \in Lease
        BY <1>13 DEF TypeOK, LocalsOK, KeptLeases, NoteSet, Lease
    <2> QED
        BY <1>13, <2>1, LeaveType DEF TypeOK, RedisOK, NoteSet, LeaseOrNone
<1> QED
    BY <1>1, <1>2, <1>3, <1>4, <1>5, <1>6, <1>7, <1>8, <1>9, <1>10, <1>11, <1>12,
       <1>13 DEF Ending

-----------------------------------------------------------------------------
(* A step of an invocation touches no local of another, and neither the clock *)
(* nor the cron period: invariants about one invocation need only its own.   *)

Mine(j) == <<pc[j], startMs[j], nowMs[j], plan[j], raw[j], host[j], stopped[j],
             release[j], lane[j], staged[j]>>

LEMMA LeaveIsOwn ==
    ASSUME TypeOK, NEW i \in Invocations, NEW j \in Invocations \ {i}, Leave(i)
    PROVE  UNCHANGED Mine(j)
BY DEF Leave, Mine, TypeOK, LocalsOK

LEMMA StepIsOwn ==
    ASSUME TypeOK, NEW i \in Invocations, NEW j \in Invocations \ {i},
           Step(i) \/ Kill(i) \/ Timeout(i)
    PROVE  UNCHANGED <<clock, Mine(j)>>
<1> USE DEF TypeOK, LocalsOK, Mine, Goto
<1>1. CASE Takeover(i)
    <2>1. CASE Start(i) \/ ReadCron(i) \/ WatchEnds(i) \/ Replan(i) \/ Stage(i)
        BY <2>1 DEF Start, ReadCron, WatchEnds, Replan, Stage
    <2>2. CASE MarkCron(i)
        BY <2>2, LeaveIsOwn DEF MarkCron
    <2>3. CASE Look(i) \/ AcquireGet(i)
        BY <2>3 DEF Look, AcquireGet, ReadLease
    <2>4. CASE Refused(i) \/ AcquireLost(i)
        BY <2>4, LeaveIsOwn DEF Refused, AcquireLost
    <2>5. CASE AcquireCas(i) \/ AcquireMeta(i) \/ LoadBook(i)
        BY <2>5 DEF AcquireCas, AcquireMeta, LoadBook
    <2>6. CASE ReloadToken(i)
        BY <2>6 DEF ReloadToken, AdoptToken
    <2>7. CASE ConfirmHandover(i)
        BY <2>7 DEF ConfirmHandover
    <2> QED
        BY <1>1, <2>1, <2>2, <2>3, <2>4, <2>5, <2>6, <2>7 DEF Takeover
<1>2. CASE Sampling(i)
    <2>1. CASE AdoptBeforeSampling(i)
        BY <2>1 DEF AdoptBeforeSampling, AdoptToken
    <2>2. CASE SeedEnds(i) \/ StopsEarly(i)
        BY <2>2 DEF SeedEnds, StopsEarly
    <2>3. CASE Heartbeat(i) \/ DriveEnds(i)
        BY <2>3 DEF Heartbeat, DriveEnds
    <2>4. CASE RenewGet(i)
        BY <2>4 DEF RenewGet
    <2>5. CASE RenewCas(i)
        BY <2>5 DEF RenewCas
    <2>6. CASE RenewMeta(i)
        BY <2>6 DEF RenewMeta
    <2> QED
        BY <1>2, <2>1, <2>2, <2>3, <2>4, <2>5, <2>6 DEF Sampling
<1>3. CASE Ending(i)
    <2>1. CASE FinalRetry(i) \/ CrashSave(i)
        BY <2>1 DEF FinalRetry, CrashSave
    <2>2. CASE FinalSave(i)
        BY <2>2 DEF FinalSave, RecordGap
    <2>3. CASE SampleThrows(i)
        BY <2>3 DEF SampleThrows, RecordGap
    <2>4. CASE ReleaseGet(i)
        BY <2>4 DEF ReleaseGet, ReadLease
    <2>5. CASE ReleaseCas(i) \/ ReleaseStill(i) \/ ReleaseMeta(i)
        BY <2>5 DEF ReleaseCas, ReleaseStill, ReleaseMeta
    <2>6. CASE ReleaseLost(i) \/ ReleaseDel(i) \/ NoteSet(i)
        BY <2>6, LeaveIsOwn DEF ReleaseLost, ReleaseDel, NoteSet
    <2>7. CASE HoldSave(i)
        BY <2>7, LeaveIsOwn DEF HoldSave
    <2>8. CASE NoteGet(i)
        BY <2>8, LeaveIsOwn DEF NoteGet
    <2> QED
        BY <1>3, <2>1, <2>2, <2>3, <2>4, <2>5, <2>6, <2>7, <2>8 DEF Ending
<1>4. CASE Kill(i) \/ Timeout(i)
    BY <1>4, LeaveIsOwn DEF Kill, Timeout, Dies
<1> QED
    BY <1>1, <1>2, <1>3, <1>4 DEF Step

-----------------------------------------------------------------------------
(* What a step does to the invocation that takes it.                         *)

LEMMA LeaveFacts ==
    ASSUME TypeOK, NEW i \in Invocations, Leave(i)
    PROVE  /\ pc'[i] = "done" /\ nowMs'[i] = 0 /\ plan'[i].feedGap = 0
           /\ lane'[i].step = "off"
BY DEF TypeOK, LocalsOK, Leave, NoPlan, NoLane

LEMMA TimelyStep ==
    ASSUME TypeInv, NEW i \in Invocations, Step(i) \/ Kill(i) \/ Timeout(i)
    PROVE  clock' = clock /\ nowMs'[i] <= clock /\ plan'[i].feedGap <= nowMs'[i]
<1> USE DEF TypeInv
<1>0. /\ clock \in Nat /\ nowMs[i] \in Nat /\ plan[i].feedGap \in Nat
      /\ nowMs[i] <= clock /\ plan[i].feedGap <= nowMs[i]
    BY DEF TypeOK, LocalsOK, Timely
<1>1. ASSUME Leave(i), clock' = clock
      PROVE  nowMs'[i] <= clock /\ plan'[i].feedGap <= nowMs'[i]
    BY <1>0, <1>1, LeaveFacts
<1>2. CASE Takeover(i)
    <2>1. CASE Start(i)
        BY <1>0, <2>1 DEF TypeOK, LocalsOK, Start
    <2>2. CASE WatchEnds(i)
        BY <1>0, <2>2 DEF TypeOK, LocalsOK, WatchEnds
    <2>3. CASE MarkCron(i)
        <3>1. clock' = clock
            BY <2>3 DEF MarkCron
        <3>2. PlanGap(nowMs[i], raw[i], lastCronMs[i]).feedGap <= nowMs[i]
            BY <1>0, PlanGapType DEF TypeOK, LocalsOK
        <3>3. CASE Leave(i)
            BY <1>1, <3>1, <3>3
        <3>4. CASE ~Leave(i)
            BY <1>0, <2>3, <3>1, <3>2, <3>4 DEF TypeOK, LocalsOK, MarkCron
        <3> QED
            BY <3>3, <3>4
    <2>4. CASE Replan(i)
        <3>1. PlanGap(nowMs[i], lease, lastCronMs[i]).feedGap <= nowMs[i]
            BY <1>0, PlanGapType DEF TypeOK, RedisOK
        <3> QED
            BY <1>0, <2>4, <3>1 DEF TypeOK, LocalsOK, Replan
    <2>5. CASE Stage(i)
        BY <1>0, <2>5 DEF TypeOK, LocalsOK, Stage, NoPlan
    <2>6. CASE Refused(i) \/ AcquireLost(i)
        BY <1>1, <2>6 DEF Refused, AcquireLost
    <2>7. CASE ReadCron(i) \/ Look(i) \/ AcquireGet(i) \/ AcquireCas(i) \/ AcquireMeta(i)
        BY <1>0, <2>7 DEF ReadCron, Look, AcquireGet, ReadLease, AcquireCas, AcquireMeta
    <2>8. CASE ReloadToken(i) \/ LoadBook(i) \/ ConfirmHandover(i)
        BY <1>0, <2>8 DEF ReloadToken, AdoptToken, LoadBook, ConfirmHandover
    <2> QED
        BY <1>2, <2>1, <2>2, <2>3, <2>4, <2>5, <2>6, <2>7, <2>8 DEF Takeover
<1>3. CASE Sampling(i)
    BY <1>0, <1>3 DEF Sampling, AdoptBeforeSampling, AdoptToken, SeedEnds, Heartbeat,
       StopsEarly, DriveEnds, RenewGet, RenewCas, RenewMeta
<1>4. CASE Ending(i)
    <2>1. CASE \/ FinalRetry(i) \/ FinalSave(i) \/ SampleThrows(i) \/ CrashSave(i)
               \/ ReleaseGet(i) \/ ReleaseCas(i) \/ ReleaseStill(i) \/ ReleaseMeta(i)
        BY <1>0, <2>1 DEF FinalRetry, FinalSave, SampleThrows, CrashSave, ReleaseGet,
           ReadLease, ReleaseCas, ReleaseStill, ReleaseMeta
    <2>2. CASE ReleaseLost(i) \/ ReleaseDel(i) \/ HoldSave(i) \/ NoteGet(i) \/ NoteSet(i)
        BY <1>0, <1>1, <2>2 DEF ReleaseLost, ReleaseDel, HoldSave, NoteGet, NoteSet
    <2> QED
        BY <1>4, <2>1, <2>2 DEF Ending
<1>5. CASE Kill(i) \/ Timeout(i)
    BY <1>1, <1>5 DEF Kill, Timeout, Dies
<1> QED
    BY <1>2, <1>3, <1>4, <1>5 DEF Step

LEMMA KeptStep ==
    ASSUME TypeInv, NEW i \in Invocations, Step(i) \/ Kill(i) \/ Timeout(i)
    PROVE  /\ lane'[i].step # "off" => lane'[i].value \in Lease
           /\ pc'[i] \in {"relCas", "relStill", "relMeta", "noteSet"} => raw'[i] \in Lease
<1> USE DEF TypeInv, Goto
<1> DEFINE Keeps == pc[i] \in {"relCas", "relStill", "relMeta", "noteSet"}
<1>0. /\ lane[i].step # "off" => lane[i].value \in Lease
      /\ Keeps => raw[i] \in Lease
    BY DEF KeptLeases
<1>1. CASE Leave(i)
    BY <1>1, LeaveFacts
<1>2. CASE Takeover(i) /\ ~Leave(i)
    <2>1. UNCHANGED lane /\ pc'[i] \notin {"relCas", "relStill", "relMeta", "noteSet"}
        BY <1>2 DEF TypeOK, LocalsOK, Takeover, Start, ReadCron, MarkCron, WatchEnds,
           Replan, Look, Stage, Refused, AcquireGet, ReadLease, AcquireCas, AcquireLost,
           AcquireMeta, ReloadToken, AdoptToken, LoadBook, ConfirmHandover
    <2> QED
        BY <1>0, <2>1
<1>3. CASE Sampling(i)
    <2>1. CASE RenewGet(i)
        <3>1. OwnsLease(i) => lease \in Lease
            BY DEF OwnsLease, TypeOK, RedisOK, LeaseOrNone
        <3> QED
            BY <1>0, <2>1, <3>1 DEF TypeOK, LocalsOK, RenewGet
    <2>2. CASE RenewCas(i)
        <3>1. CASE lease = lane[i].value
            <4>1. /\ lane' = [lane EXCEPT ![i] = [lane[i] EXCEPT !.step = "meta"]]
                  /\ lane[i].value \in Lease
                BY <1>0, <2>2, <3>1 DEF RenewCas
            <4>2. lane'[i] = [lane[i] EXCEPT !.step = "meta"]
                BY <4>1 DEF TypeOK, LocalsOK
            <4>3. lane'[i].value = lane[i].value
                BY <4>2 DEF TypeOK, LocalsOK
            <4>4. UNCHANGED <<pc, raw>>
                BY <2>2 DEF RenewCas
            <4> QED
                BY <1>0, <4>1, <4>3, <4>4
        <3>2. CASE lease # lane[i].value
            BY <1>0, <2>2, <3>2 DEF TypeOK, LocalsOK, RenewCas, NoLane
        <3> QED
            BY <3>1, <3>2
    <2>3. CASE RenewMeta(i)
        BY <1>0, <2>3 DEF TypeOK, LocalsOK, RenewMeta, NoLane
    <2>4. CASE AdoptBeforeSampling(i) \/ SeedEnds(i) \/ StopsEarly(i) \/ Heartbeat(i)
               \/ DriveEnds(i)
        BY <1>0, <2>4 DEF TypeOK, LocalsOK, AdoptBeforeSampling, AdoptToken, SeedEnds,
           StopsEarly, Heartbeat, DriveEnds
    <2> QED
        BY <1>3, <2>1, <2>2, <2>3, <2>4 DEF Sampling
<1>4. CASE Ending(i) /\ ~Leave(i)
    <2>1. CASE ReleaseGet(i)
        BY <1>0, <2>1 DEF TypeOK, LocalsOK, RedisOK, LeaseOrNone, ReleaseGet, ReadLease
    <2>2. CASE NoteGet(i)
        BY <1>0, <1>4, <2>2 DEF TypeOK, LocalsOK, RedisOK, LeaseOrNone, NoteGet
    <2>3. CASE ReleaseCas(i) \/ ReleaseStill(i) \/ ReleaseMeta(i)
        BY <1>0, <2>3 DEF TypeOK, LocalsOK, ReleaseCas, ReleaseStill, ReleaseMeta
    <2>4. CASE FinalRetry(i) \/ FinalSave(i) \/ SampleThrows(i) \/ CrashSave(i) \/ HoldSave(i)
        BY <1>0, <1>4, <2>4 DEF TypeOK, LocalsOK, FinalRetry, FinalSave, SampleThrows,
           CrashSave, HoldSave
    <2> QED
        BY <1>4, <2>1, <2>2, <2>3, <2>4 DEF Ending, ReleaseLost, ReleaseDel, NoteSet
<1>5. CASE Kill(i) \/ Timeout(i)
    BY <1>1, <1>5 DEF Kill, Timeout, Dies
<1> QED
    BY <1>1, <1>2, <1>3, <1>4, <1>5 DEF Step

LEMMA SwapStep ==
    ASSUME TypeInv, NEW i \in Invocations, Step(i) \/ Kill(i) \/ Timeout(i)
    PROVE  pc'[i] = "swap" => ~Held(raw'[i], nowMs'[i])
<1> USE DEF TypeInv, Goto
<1>1. CASE Leave(i)
    BY <1>1, LeaveFacts
<1>2. CASE Takeover(i) /\ ~Leave(i)
    <2>1. CASE AcquireGet(i)
        BY <2>1 DEF TypeOK, LocalsOK, AcquireGet, ReadLease
    <2>2. CASE ~AcquireGet(i)
        BY <1>2, <2>2 DEF TypeOK, LocalsOK, Takeover, Start, ReadCron, MarkCron, WatchEnds,
           Replan, Look, Stage, Refused, ReadLease, AcquireCas, AcquireLost, AcquireMeta,
           ReloadToken, AdoptToken, LoadBook, ConfirmHandover
    <2> QED
        BY <2>1, <2>2
<1>3. CASE Sampling(i)
    <2>1. CASE pc[i] = "swap"
        BY <1>3, <2>1 DEF TypeOK, LocalsOK, SwapsAFreeLease, Sampling, AdoptBeforeSampling,
           AdoptToken, SeedEnds, StopsEarly, Heartbeat, DriveEnds, RenewGet, RenewCas,
           RenewMeta
    <2>2. CASE pc[i] # "swap"
        BY <1>3, <2>2 DEF TypeOK, LocalsOK, Sampling, AdoptBeforeSampling, AdoptToken,
           SeedEnds, StopsEarly, Heartbeat, DriveEnds, RenewGet, RenewCas, RenewMeta
    <2> QED
        BY <2>1, <2>2
<1>4. CASE Ending(i) /\ ~Leave(i)
    BY <1>4 DEF TypeOK, LocalsOK, Ending, FinalRetry, FinalSave, SampleThrows, CrashSave,
       ReleaseGet, ReadLease, ReleaseCas, ReleaseStill, ReleaseLost, ReleaseMeta,
       ReleaseDel, HoldSave, NoteGet, NoteSet
<1>5. CASE Kill(i) \/ Timeout(i)
    BY <1>1, <1>5 DEF Kill, Timeout, Dies
<1> QED
    BY <1>1, <1>2, <1>3, <1>4, <1>5 DEF Step

-----------------------------------------------------------------------------
(* The type invariant is inductive.                                          *)

LEMMA TickType ==
    ASSUME TypeInv, Tick
    PROVE  TypeInv'
<1> USE DEF TypeInv
<1>1. TypeOK'
    BY DEF TypeOK, RedisOK, LocalsOK, LeaseOrNone, Tick
<1>2. Timely'
    BY DEF TypeOK, LocalsOK, Timely, Tick
<1>3. KeptLeases' /\ SwapsAFreeLease'
    BY DEF KeptLeases, SwapsAFreeLease, Held, Tick
<1> QED
    BY <1>1, <1>2, <1>3

LEMMA InitType == Init => TypeInv
<1> SUFFICES ASSUME Init PROVE TypeInv
    OBVIOUS
<1>1. RedisOK /\ clock \in Nat
    BY DEF Init, RedisOK, LeaseOrNone, Book, NoBook
<1>2. LocalsOK
    <2>1. /\ NoPlan \in [feedGap: Nat, cause: Causes]
          /\ NoRelease \in [at: Nat, cause: {"none", "deadline", "crash"},
                            saveFailed: BOOLEAN]
          /\ NoLane \in [step: {"off", "cas", "meta"}, at: Nat, value: LeaseOrNone]
          /\ NoBook \in Book /\ None \in LeaseOrNone /\ "idle" \in Steps
        BY DEF NoPlan, NoRelease, NoLane, NoBook, Book, Causes, LeaseOrNone, Steps
    <2> QED
        BY <2>1 DEF Init, LocalsOK
<1>3. Timely /\ KeptLeases /\ SwapsAFreeLease
    BY DEF Init, Timely, KeptLeases, SwapsAFreeLease, NoPlan, NoLane
<1> QED
    BY <1>1, <1>2, <1>3 DEF TypeInv, TypeOK

LEMMA NextType == TypeInv /\ [Next]_vars => TypeInv'
<1> SUFFICES ASSUME TypeInv, [Next]_vars PROVE TypeInv'
    OBVIOUS
<1>1. CASE Tick
    BY <1>1, TickType
<1>2. ASSUME NEW i \in Invocations, Step(i) \/ Kill(i) \/ Timeout(i)
      PROVE  TypeInv'
    <2>1. TypeOK'
        <3>1. CASE Step(i)
            BY <3>1, TakeoverType, SamplingType, EndingType DEF Step
        <3>2. CASE Kill(i) \/ Timeout(i)
            BY <3>2, LeaveType DEF Kill, Timeout, Dies, TypeInv, TypeOK, RedisOK
        <3> QED
            BY <1>2, <3>1, <3>2
    <2>2. ASSUME NEW j \in Invocations \ {i}
          PROVE  UNCHANGED <<clock, Mine(j)>>
        BY <1>2, <2>2, StepIsOwn DEF TypeInv
    <2>3. Timely'
        BY <1>2, <2>2, TimelyStep DEF TypeInv, Timely, Mine
    <2>4. KeptLeases'
        BY <1>2, <2>2, KeptStep DEF TypeInv, KeptLeases, Mine
    <2>5. SwapsAFreeLease'
        <3>1. ASSUME NEW j \in Invocations \ {i}, pc'[j] = "swap"
              PROVE  ~Held(raw'[j], nowMs'[j])
            BY <2>2, <3>1 DEF TypeInv, SwapsAFreeLease, Mine
        <3> QED
            BY <1>2, <3>1, SwapStep DEF SwapsAFreeLease, Held
    <2> QED
        BY <2>1, <2>3, <2>4, <2>5 DEF TypeInv
<1>3. CASE UNCHANGED vars
    BY <1>3 DEF vars, TypeInv, TypeOK, RedisOK, LocalsOK, Timely, KeptLeases,
       SwapsAFreeLease, Held
<1> QED
    BY <1>1, <1>2, <1>3 DEF Next

(* Every reachable state is well typed: what a taker stages is a gap, and a   *)
(* lease written back by a renewal or a release is a lease.                   *)
THEOREM TypeInvariant == Spec => []TypeInv
<1>1. TypeInv /\ [Next]_vars => TypeInv'
    BY NextType
<1> QED
    BY InitType, <1>1, PTL DEF Spec

(* Every variable of the relay stays in its domain, whatever is killed, times   *)
(* out or throws.                                                            *)
THEOREM TypeCorrect == Spec => []TypeOK
<1>1. TypeInv => TypeOK
    BY DEF TypeInv
<1> QED
    BY TypeInvariant, <1>1, PTL

-----------------------------------------------------------------------------
(* The lease and the book change in a handful of steps only.                 *)

Saving == {"drive", "final", "crashed", "hold"}

LEMMA RedisStep ==
    ASSUME TypeInv, NEW i \in Invocations, Step(i) \/ Kill(i) \/ Timeout(i)
    PROVE  \/ UNCHANGED <<lease, expires, book, unfenced>>
           \/ AcquireCas(i) \/ RenewCas(i) \/ ReleaseCas(i) \/ ReleaseDel(i)
           \/ pc[i] \in Saving /\ (OwnedFlush(i) \/ UnownedFlush(i))
<1> USE DEF Goto
<1>1. CASE Takeover(i)
    BY <1>1 DEF Takeover, Start, ReadCron, MarkCron, WatchEnds, Replan, Look, Stage,
       Refused, AcquireGet, ReadLease, AcquireLost, AcquireMeta, ReloadToken,
       AdoptToken, LoadBook, ConfirmHandover
<1>2. CASE Sampling(i)
    <2>1. CASE Heartbeat(i) \/ DriveEnds(i)
        BY <2>1 DEF Heartbeat, DriveEnds, Save, Flush, Saving
    <2>2. CASE ~(Heartbeat(i) \/ DriveEnds(i))
        BY <1>2, <2>2 DEF Sampling, AdoptBeforeSampling, AdoptToken, SeedEnds,
           StopsEarly, RenewGet, RenewMeta
    <2> QED
        BY <2>1, <2>2
<1>3. CASE Ending(i)
    <2>1. CASE FinalRetry(i) \/ FinalSave(i) \/ CrashSave(i) \/ HoldSave(i)
        BY <2>1 DEF FinalRetry, FinalSave, CrashSave, HoldSave, Save, Flush, Saving
    <2>2. CASE ~(FinalRetry(i) \/ FinalSave(i) \/ CrashSave(i) \/ HoldSave(i))
        BY <1>3, <2>2 DEF Ending, SampleThrows, ReleaseGet, ReadLease, ReleaseStill,
           ReleaseLost, ReleaseMeta, NoteGet, NoteSet
    <2> QED
        BY <2>1, <2>2
<1>4. CASE Kill(i) \/ Timeout(i)
    BY <1>4 DEF Kill, Timeout, Dies
<1> QED
    BY <1>1, <1>2, <1>3, <1>4 DEF Step

-----------------------------------------------------------------------------
(* Takeover.                                                                *)

LEMMA NoStealStep ==
    ASSUME TypeInv, [Next]_vars, Held(lease, clock), lease' # None
    PROVE  lease'.holder = lease.holder
<1>1. CASE Tick
    BY <1>1 DEF Tick
<1>2. ASSUME NEW i \in Invocations, Step(i) \/ Kill(i) \/ Timeout(i)
      PROVE  lease'.holder = lease.holder
    <2>0. lease \in Lease
        BY DEF Held, TypeInv, TypeOK, RedisOK, LeaseOrNone
    <2>1. CASE UNCHANGED lease
        BY <2>1
    <2>2. ~AcquireCas(i)
        <3>1. nowMs[i] \in Nat /\ nowMs[i] <= clock /\ clock \in Nat
            BY DEF TypeInv, TypeOK, LocalsOK, Timely
        <3>2. lease.until \in Nat
            BY <2>0 DEF Lease
        <3>3. Held(lease, nowMs[i])
            BY <3>1, <3>2 DEF Held
        <3> QED
            BY <3>3 DEF TypeInv, SwapsAFreeLease, AcquireCas, Goto
    <2>3. CASE RenewCas(i)
        BY <2>0, <2>3 DEF RenewCas, Renewed, Lease
    <2>4. CASE ReleaseCas(i)
        BY <2>0, <2>4 DEF ReleaseCas, Released, Lease
    <2>5. CASE ReleaseDel(i)
        BY <2>5 DEF ReleaseDel
    <2>6. CASE OwnedFlush(i) \/ UnownedFlush(i)
        BY <2>0, <2>6 DEF OwnedFlush, UnownedFlush, Lease
    <2> QED
        BY <1>2, <2>1, <2>2, <2>3, <2>4, <2>5, <2>6, RedisStep
<1>3. CASE UNCHANGED vars
    BY <1>3 DEF vars
<1> QED
    BY <1>1, <1>2, <1>3 DEF Next

(* tryAcquire: a lease that is neither released nor out of time changes hands *)
(* in no step, though the taker decides on a value it read before and on a    *)
(* clock it stamped before.                                                  *)
THEOREM NoStealHolds == Spec => NoSteal
<1>1. TypeInv /\ [Next]_vars =>
          [Held(lease, clock) /\ lease' # None => lease'.holder = lease.holder]_vars
    BY NoStealStep
<1> QED
    BY TypeInvariant, <1>1, PTL DEF Spec, NoSteal

-----------------------------------------------------------------------------
(* The PX of the lease.                                                     *)

LEMMA ShortStep ==
    ASSUME TypeInv, TypeInv', LeaseIsShort, [Next]_vars
    PROVE  LeaseIsShort'
<1>0. clock \in Nat /\ expires \in Nat /\ LEASE_TTL \in Nat
    BY TimesAssumption DEF TypeInv, TypeOK, RedisOK
<1>1. CASE Tick
    BY <1>0, <1>1 DEF Tick, LeaseIsShort
<1>2. ASSUME NEW i \in Invocations, Step(i) \/ Kill(i) \/ Timeout(i)
      PROVE  LeaseIsShort'
    <2>1. clock' = clock
        BY <1>2, TimelyStep
    <2>2. ASSUME NEW until \in Nat, NEW now \in Nat,
                 expires' = clock + leasePx(until, now)
          PROVE  LeaseIsShort'
        <3>1. leasePx(until, now) \in 1 .. LEASE_TTL
            BY PxInRange
        <3> QED
            BY <1>0, <2>1, <2>2, <3>1 DEF LeaseIsShort
    <2>3. CASE UNCHANGED <<lease, expires>>
        BY <2>1, <2>3 DEF LeaseIsShort
    <2>4. CASE AcquireCas(i)
        <3>1. deadlineMs(i) \in Nat /\ nowMs[i] \in Nat
            BY DeadlineInNat DEF TypeInv, TypeOK, LocalsOK
        <3> QED
            BY <2>2, <2>4, <3>1 DEF AcquireCas
    <2>5. CASE RenewCas(i) /\ lease = lane[i].value
        <3>1. lease.until \in Nat /\ lane[i].at \in Nat
            BY <2>5 DEF RenewCas, TypeInv, TypeOK, LocalsOK, KeptLeases, Lease
        <3> QED
            BY <2>2, <2>5, <3>1 DEF RenewCas
    <2>6. CASE ReleaseCas(i)
        <3>1. raw[i] \in Lease
            BY <2>6 DEF ReleaseCas, Goto, TypeInv, KeptLeases
        <3>2. Released(i).released = TRUE
            BY <3>1 DEF Released, Lease
        <3> QED
            BY <2>6, <3>2 DEF ReleaseCas, LeaseIsShort
    <2>7. CASE ReleaseDel(i)
        BY <2>7 DEF ReleaseDel, LeaseIsShort
    <2>8. CASE OwnedFlush(i)
        <3>1. lease.until \in Nat
            BY <2>8 DEF OwnedFlush, OwnsLease, TypeInv, TypeOK, RedisOK, LeaseOrNone, Lease
        <3> QED
            BY <1>0, <2>2, <2>8, <3>1 DEF OwnedFlush
    <2> QED
        BY <1>2, <2>3, <2>4, <2>5, <2>6, <2>7, <2>8, RedisStep DEF RenewCas, UnownedFlush
<1>3. CASE UNCHANGED vars
    BY <1>3 DEF vars, LeaseIsShort
<1> QED
    BY <1>1, <1>2, <1>3 DEF Next

(* leasePx: whichever of the four writes set the lease last, Redis drops it   *)
(* within LEASE_TTL unless its holder renews it.                             *)
THEOREM LeaseIsShortHolds == Spec => []LeaseIsShort
<1>1. Init => LeaseIsShort
    BY DEF Init, LeaseIsShort
<1>2. TypeInv /\ TypeInv' /\ LeaseIsShort /\ [Next]_vars => LeaseIsShort'
    BY ShortStep
<1> QED
    BY TypeInvariant, <1>1, <1>2, PTL DEF Spec

-----------------------------------------------------------------------------
(* The book.                                                                *)

Loaded == {"confirm", "adopt", "seed", "drive", "final", "crashed", "hold"}
Ended == {"crashed", "relGet", "relCas", "relStill", "relMeta", "relDel"}

Covers(i) == book.held \subseteq Snapshot(i).held /\ book.gaps \subseteq host[i].gaps

(* Whoever holds the lease and has loaded the book has all of it in memory.  *)
HolderHasBook ==
    \A i \in Invocations :
        OwnsLease(i) /\ pc[i] \in Loaded /\ ~unfenced => Covers(i)

(* A release in progress has its cause.                                      *)
ReleasesHaveACause ==
    \A i \in Invocations : pc[i] \in Ended => release[i].cause # "none"

BookInv == TypeInv /\ HolderHasBook /\ ReleasesHaveACause

(* A step of i that leaves it with a book had one, and loses nothing of it,   *)
(* unless it is the load.                                                   *)
LEMMA LoadedStep ==
    ASSUME TypeInv, NEW i \in Invocations, Step(i) \/ Kill(i) \/ Timeout(i),
           pc'[i] \in Loaded, ~LoadBook(i)
    PROVE  /\ pc[i] \in Loaded
           /\ nowMs'[i] = nowMs[i]
           /\ host'[i].held = host[i].held /\ host[i].gaps \subseteq host'[i].gaps
<1> USE DEF Goto, Loaded
<1>0. ~Leave(i)
    BY LeaveFacts DEF TypeInv
<1>h. host[i] \in [held: SUBSET Nat, gaps: SUBSET Gap]
    BY DEF TypeInv, TypeOK, LocalsOK, Book
<1>g. ASSUME NEW from, NEW to, NEW why, RecordGap(i, from, to, why)
      PROVE  host'[i].held = host[i].held /\ host[i].gaps \subseteq host'[i].gaps
    BY <1>h, <1>g DEF RecordGap, TypeInv, TypeOK, LocalsOK
<1>1. CASE Takeover(i)
    <2>1. CASE ConfirmHandover(i)
        BY <1>h, <2>1 DEF ConfirmHandover, TypeInv, TypeOK, LocalsOK
    <2>2. CASE ~ConfirmHandover(i)
        BY <1>0, <1>1, <2>2 DEF TypeInv, TypeOK, LocalsOK, Takeover, Start, ReadCron, MarkCron,
           WatchEnds, Replan, Look, Stage, Refused, AcquireGet, ReadLease, AcquireCas,
           AcquireLost, AcquireMeta, ReloadToken, AdoptToken
    <2> QED
        BY <2>1, <2>2
<1>2. CASE Sampling(i)
    BY <1>2 DEF TypeInv, TypeOK, LocalsOK, Sampling, AdoptBeforeSampling, AdoptToken,
       SeedEnds, Heartbeat, StopsEarly, DriveEnds, RenewGet, RenewCas, RenewMeta
<1>3. CASE Ending(i)
    <2>1. CASE SampleThrows(i)
        BY <1>g, <2>1 DEF SampleThrows
    <2>2. CASE FinalRetry(i)
        BY <2>2 DEF FinalRetry
    <2>3. CASE ~SampleThrows(i) /\ ~FinalRetry(i)
        BY <1>0, <1>3, <2>3 DEF TypeInv, TypeOK, LocalsOK, Ending, FinalSave, CrashSave,
           ReleaseGet, ReadLease, ReleaseCas, ReleaseStill, ReleaseLost, ReleaseMeta,
           ReleaseDel, HoldSave, NoteGet, NoteSet
    <2> QED
        BY <2>1, <2>2, <2>3
<1>4. CASE Kill(i) \/ Timeout(i)
    BY <1>0, <1>4 DEF Kill, Timeout, Dies
<1> QED
    BY <1>1, <1>2, <1>3, <1>4 DEF Step

LEMMA CauseStep ==
    ASSUME TypeInv, ReleasesHaveACause, NEW i \in Invocations,
           Step(i) \/ Kill(i) \/ Timeout(i), pc'[i] \in Ended
    PROVE  release'[i].cause # "none"
<1> USE DEF Goto, Ended
<1>0. ~Leave(i)
    BY LeaveFacts DEF TypeInv
<1>1. CASE Takeover(i)
    BY <1>0, <1>1 DEF TypeInv, TypeOK, LocalsOK, Takeover, Start, ReadCron, MarkCron,
       WatchEnds, Replan, Look, Stage, Refused, AcquireGet, ReadLease, AcquireCas,
       AcquireLost, AcquireMeta, ReloadToken, LoadBook, ConfirmHandover, AdoptToken
<1>2. CASE Sampling(i)
    BY <1>2 DEF ReleasesHaveACause, TypeInv, TypeOK, LocalsOK, Sampling,
       AdoptBeforeSampling, AdoptToken, SeedEnds, Heartbeat, StopsEarly, DriveEnds,
       RenewGet, RenewCas, RenewMeta
<1>3. CASE Ending(i)
    <2>1. CASE FinalSave(i)
        BY <2>1 DEF FinalSave, TypeInv, TypeOK, LocalsOK
    <2>2. CASE SampleThrows(i)
        BY <2>2 DEF SampleThrows, TypeInv, TypeOK, LocalsOK
    <2>3. CASE ~FinalSave(i) /\ ~SampleThrows(i)
        BY <1>0, <1>3, <2>3 DEF ReleasesHaveACause, TypeInv, TypeOK, LocalsOK, Ending,
           FinalRetry, CrashSave, ReleaseGet, ReadLease, ReleaseCas, ReleaseStill,
           ReleaseLost, ReleaseMeta, ReleaseDel, HoldSave, NoteGet, NoteSet
    <2> QED
        BY <2>1, <2>2, <2>3
<1>4. CASE Kill(i) \/ Timeout(i)
    BY <1>0, <1>4 DEF Kill, Timeout, Dies
<1> QED
    BY <1>1, <1>2, <1>3, <1>4 DEF Step

(* A save by the owner replaces the book by its own snapshot, which covers it. *)
LEMMA OwnedFlushGrows ==
    ASSUME BookInv, NEW i \in Invocations, pc[i] \in Saving, OwnedFlush(i), ~unfenced
    PROVE  book.held \subseteq book'.held /\ book.gaps \subseteq book'.gaps
<1>1. Covers(i)
    BY DEF BookInv, HolderHasBook, OwnedFlush, Saving, Loaded
<1>2. book' = Snapshot(i) /\ Snapshot(i).gaps = host[i].gaps
    BY DEF OwnedFlush, Snapshot
<1> QED
    BY <1>1, <1>2 DEF Covers

(* Another invocation's lease and book after a step of i.                    *)
LEMMA OtherHolderStep ==
    ASSUME BookInv, NEW i \in Invocations, Step(i) \/ Kill(i) \/ Timeout(i),
           NEW j \in Invocations \ {i}, OwnsLease(j)', ~unfenced'
    PROVE  OwnsLease(j) /\ ~unfenced /\ book' = book
<1> USE DEF BookInv, OwnsLease
<1>1. CASE UNCHANGED <<lease, expires, book, unfenced>>
    BY <1>1
<1>2. CASE AcquireCas(i)
    BY <1>2 DEF AcquireCas, NewLease
<1>3. CASE RenewCas(i)
    <2>1. CASE lease = lane[i].value
        <3>1. lane[i].value \in Lease
            BY <1>3 DEF RenewCas, TypeInv, KeptLeases
        <3>2. lease'.holder = lease.holder /\ lease'.release = lease.release /\ lease # None
            BY <1>3, <2>1, <3>1, NoneAssumption DEF RenewCas, Renewed, Lease
        <3> QED
            BY <1>3, <3>2 DEF RenewCas
    <2>2. CASE lease # lane[i].value
        BY <1>3, <2>2 DEF RenewCas
    <2> QED
        BY <2>1, <2>2
<1>4. CASE ReleaseCas(i)
    <2>1. raw[i] \in Lease /\ release[i].cause # "none"
        BY <1>4 DEF ReleaseCas, Goto, TypeInv, KeptLeases, ReleasesHaveACause, Ended
    <2>2. lease'.release # "none"
        BY <1>4, <2>1 DEF ReleaseCas, Released, Lease
    <2> QED
        BY <2>2
<1>5. CASE ReleaseDel(i)
    BY <1>5 DEF ReleaseDel
<1>6. CASE OwnedFlush(i)
    <2>1. lease \in Lease
        BY <1>6 DEF OwnedFlush, TypeInv, TypeOK, RedisOK, LeaseOrNone
    <2>2. lease'.holder = i
        BY <1>6, <2>1 DEF OwnedFlush, Lease
    <2> QED
        BY <2>2
<1>7. CASE UnownedFlush(i)
    BY <1>7 DEF UnownedFlush
<1> QED
    BY <1>1, <1>2, <1>3, <1>4, <1>5, <1>6, <1>7, RedisStep

(* The same for the invocation that takes the step.                          *)
LEMMA OwnHolderStep ==
    ASSUME BookInv, NEW i \in Invocations, Step(i) \/ Kill(i) \/ Timeout(i),
           OwnsLease(i)', pc'[i] \in Loaded, ~unfenced'
    PROVE  Covers(i)'
<1> USE DEF BookInv
<1>c. clock' = clock
    BY TimelyStep
<1>1. CASE LoadBook(i)
    <2>1. host'[i] = book /\ book' = book
        BY <1>1 DEF LoadBook, TypeInv, TypeOK, LocalsOK
    <2> QED
        BY <2>1 DEF Covers, Snapshot
<1>2. CASE ~LoadBook(i)
    <2>1. /\ pc[i] \in Loaded
          /\ nowMs'[i] = nowMs[i]
          /\ host'[i].held = host[i].held /\ host[i].gaps \subseteq host'[i].gaps
        BY <1>2, LoadedStep
    <2>2. Snapshot(i)'.held = Snapshot(i).held
        BY <1>c, <2>1 DEF Snapshot
    <2>3. ASSUME book' = book, OwnsLease(i), ~unfenced
          PROVE  Covers(i)'
        BY <2>1, <2>2, <2>3 DEF HolderHasBook, Covers
    <2>4. CASE UNCHANGED <<lease, expires, book, unfenced>>
        BY <2>3, <2>4 DEF OwnsLease
    <2>5. CASE AcquireCas(i) \/ ReleaseCas(i) \/ ReleaseDel(i)
        BY <2>1, <2>5 DEF AcquireCas, ReleaseCas, ReleaseDel, Goto, Loaded
    <2>6. CASE RenewCas(i)
        <3>1. lane[i].value \in Lease
            BY <2>6 DEF RenewCas, TypeInv, KeptLeases
        <3>2. OwnsLease(i)
            BY <2>6, <3>1, NoneAssumption DEF RenewCas, Renewed, Lease, OwnsLease
        <3> QED
            BY <2>3, <2>6, <3>2 DEF RenewCas
    <2>7. CASE OwnedFlush(i)
        <3>1. book' = Snapshot(i) /\ Snapshot(i).gaps = host[i].gaps
            BY <2>7 DEF OwnedFlush, Snapshot
        <3> QED
            BY <2>1, <2>2, <3>1 DEF Covers
    <2>8. CASE UnownedFlush(i)
        BY <2>8 DEF UnownedFlush
    <2> QED
        BY <2>4, <2>5, <2>6, <2>7, <2>8, RedisStep
<1> QED
    BY <1>1, <1>2

LEMMA NextBook == BookInv /\ TypeInv' /\ [Next]_vars => BookInv'
<1> SUFFICES ASSUME BookInv, TypeInv', [Next]_vars PROVE BookInv'
    OBVIOUS
<1> USE DEF BookInv
<1>1. CASE Tick
    <2>1. ReleasesHaveACause'
        BY <1>1 DEF Tick, ReleasesHaveACause
    <2>2. ASSUME NEW i \in Invocations, OwnsLease(i)', pc'[i] \in Loaded, ~unfenced'
          PROVE  Covers(i)'
        <3>1. OwnsLease(i) /\ pc[i] \in Loaded /\ ~unfenced
            BY <1>1, <2>2 DEF Tick, OwnsLease
        <3>2. nowMs[i] .. clock - 1 \subseteq nowMs[i] .. clock' - 1
            BY <1>1 DEF Tick, TypeInv, TypeOK, LocalsOK
        <3>3. Covers(i)
            BY <3>1 DEF HolderHasBook
        <3>4. UNCHANGED <<book, host, nowMs>>
            BY <1>1 DEF Tick
        <3> QED
            BY <3>2, <3>3, <3>4 DEF Covers, Snapshot
    <2> QED
        BY <2>1, <2>2 DEF HolderHasBook
<1>2. ASSUME NEW i \in Invocations, Step(i) \/ Kill(i) \/ Timeout(i)
      PROVE  BookInv'
    <2>1. ASSUME NEW j \in Invocations \ {i}
          PROVE  UNCHANGED <<clock, Mine(j)>>
        BY <1>2, <2>1, StepIsOwn DEF TypeInv
    <2>2. ReleasesHaveACause'
        BY <1>2, <2>1, CauseStep DEF ReleasesHaveACause, Mine
    <2>3. ASSUME NEW j \in Invocations \ {i}, OwnsLease(j)', pc'[j] \in Loaded, ~unfenced'
          PROVE  Covers(j)'
        <3>1. OwnsLease(j) /\ ~unfenced /\ book' = book
            BY <1>2, <2>3, OtherHolderStep
        <3>2. UNCHANGED <<clock, Mine(j)>>
            BY <2>1
        <3>3. Covers(j)
            BY <2>3, <3>1, <3>2 DEF HolderHasBook, Mine
        <3> QED
            BY <3>1, <3>2, <3>3 DEF Covers, Snapshot, Mine
    <2>4. ASSUME OwnsLease(i)', pc'[i] \in Loaded, ~unfenced'
          PROVE  Covers(i)'
        BY <1>2, <2>4, OwnHolderStep
    <2>5. HolderHasBook'
        BY <2>3, <2>4 DEF HolderHasBook
    <2> QED
        BY <2>2, <2>5
<1>3. CASE UNCHANGED vars
    BY <1>3 DEF vars, HolderHasBook, ReleasesHaveACause, OwnsLease, Covers, Snapshot
<1> QED
    BY <1>1, <1>2, <1>3 DEF Next

(* FLUSH_LUA: as long as every save was fenced by a token, no save takes a    *)
(* sampled tick or a recorded gap out of the book, whoever was killed, timed  *)
(* out or taken over, and in whatever order their awaits ran.                *)
THEOREM BookGrowsHolds == Spec => BookGrows
<1>1. Init => BookInv
    BY InitType DEF Init, BookInv, HolderHasBook, ReleasesHaveACause, OwnsLease, Ended
<1>2. BookInv /\ TypeInv' /\ [Next]_vars => BookInv'
    BY NextBook
<1>3. BookInv /\ [Next]_vars =>
          [~unfenced' => /\ book.held \subseteq book'.held
                         /\ book.gaps \subseteq book'.gaps]_vars
    <2> SUFFICES ASSUME BookInv, [Next]_vars, ~unfenced'
                 PROVE  book.held \subseteq book'.held /\ book.gaps \subseteq book'.gaps
        OBVIOUS
    <2>1. CASE Tick \/ UNCHANGED vars
        BY <2>1 DEF Tick, vars
    <2>2. ASSUME NEW i \in Invocations, Step(i) \/ Kill(i) \/ Timeout(i)
          PROVE  book.held \subseteq book'.held /\ book.gaps \subseteq book'.gaps
        <3>1. CASE UNCHANGED book
            BY <3>1
        <3>2. CASE pc[i] \in Saving /\ OwnedFlush(i)
            BY <3>2, OwnedFlushGrows DEF OwnedFlush
        <3> QED
            BY <2>2, <3>1, <3>2, RedisStep DEF BookInv, AcquireCas, RenewCas, ReleaseCas,
               ReleaseDel, UnownedFlush
    <2> QED
        BY <2>1, <2>2 DEF Next
<1> QED
    BY TypeInvariant, <1>1, <1>2, <1>3, PTL DEF Spec, BookGrows

-----------------------------------------------------------------------------
(* What a release says of the last save.                                    *)

(* Whoever comes to its last save is stopped, or it is time to release.       *)
FinalTimely ==
    \A i \in Invocations : pc[i] = "final" => stopped[i] \/ clock >= ReleaseAt(i)

(* A step that leaves its invocation at its last save brought it there, or    *)
(* kept its start, and did not take back that it is stopped.                 *)
LEMMA FinalStep ==
    ASSUME TypeInv, FinalTimely, NEW i \in Invocations,
           Step(i) \/ Kill(i) \/ Timeout(i), pc'[i] = "final"
    PROVE  stopped'[i] \/ clock' >= ReleaseAt(i)'
<1> USE DEF Goto
<1>0. ~Leave(i)
    BY LeaveFacts DEF TypeInv
<1>c. clock' = clock /\ startMs \in [Invocations -> Nat] /\ stopped \in [Invocations -> BOOLEAN]
    BY TimelyStep DEF TypeInv, TypeOK, LocalsOK
<1>k. ASSUME startMs'[i] = startMs[i], stopped[i] => stopped'[i],
             stopped[i] \/ clock >= ReleaseAt(i)
      PROVE  stopped'[i] \/ clock' >= ReleaseAt(i)'
    BY <1>c, <1>k DEF ReleaseAt, deadlineMs
<1>1. CASE Takeover(i)
    BY <1>0, <1>1 DEF TypeInv, TypeOK, LocalsOK, Takeover, Start, ReadCron, MarkCron,
       WatchEnds, Replan, Look, Stage, Refused, AcquireGet, ReadLease, AcquireCas,
       AcquireLost, AcquireMeta, ReloadToken, LoadBook, ConfirmHandover, AdoptToken
<1>2. CASE Sampling(i)
    <2>1. CASE StopsEarly(i)
        BY <1>k, <2>1 DEF StopsEarly
    <2>2. CASE DriveEnds(i)
        BY <1>k, <2>2 DEF DriveEnds
    <2>3. CASE RenewCas(i) \/ RenewMeta(i)
        <3>1. pc[i] = "final" /\ startMs' = startMs /\ (stopped[i] => stopped'[i])
            BY <1>c, <2>3 DEF RenewCas, RenewMeta
        <3> QED
            BY <1>k, <3>1 DEF FinalTimely
    <2>4. CASE AdoptBeforeSampling(i) \/ SeedEnds(i) \/ Heartbeat(i) \/ RenewGet(i)
        BY <2>4 DEF TypeInv, TypeOK, LocalsOK, AdoptBeforeSampling, AdoptToken, SeedEnds,
           Heartbeat, RenewGet
    <2> QED
        BY <1>2, <2>1, <2>2, <2>3, <2>4 DEF Sampling
<1>3. CASE Ending(i)
    <2>1. CASE FinalRetry(i)
        <3>1. pc[i] = "final" /\ startMs' = startMs /\ stopped' = stopped
            BY <2>1 DEF FinalRetry
        <3> QED
            BY <1>k, <3>1 DEF FinalTimely
    <2>2. CASE ~FinalRetry(i)
        BY <1>0, <1>3, <2>2 DEF TypeInv, TypeOK, LocalsOK, Ending, FinalSave, SampleThrows,
           CrashSave, ReleaseGet, ReadLease, ReleaseCas, ReleaseStill, ReleaseLost,
           ReleaseMeta, ReleaseDel, HoldSave, NoteGet, NoteSet
    <2> QED
        BY <2>1, <2>2
<1>4. CASE Kill(i) \/ Timeout(i)
    BY <1>0, <1>4 DEF Kill, Timeout, Dies
<1> QED
    BY <1>1, <1>2, <1>3, <1>4 DEF Step

LEMMA NextFinal == TypeInv /\ FinalTimely /\ [Next]_vars => FinalTimely'
<1> SUFFICES ASSUME TypeInv, FinalTimely, [Next]_vars,
                    NEW j \in Invocations, pc'[j] = "final"
             PROVE  stopped'[j] \/ clock' >= ReleaseAt(j)'
    BY DEF FinalTimely
<1>0. startMs[j] \in Nat /\ clock \in Nat
    BY DEF TypeInv, TypeOK, LocalsOK
<1>1. CASE Tick
    <2>1. pc[j] = "final" /\ startMs' = startMs /\ stopped' = stopped /\ clock' = clock + 1
        BY <1>1 DEF Tick
    <2>2. stopped[j] \/ clock >= ReleaseAt(j)
        BY <2>1 DEF FinalTimely
    <2>3. ReleaseAt(j)' = ReleaseAt(j) /\ ReleaseAt(j) \in Int
        BY <1>0, <2>1, TimesAssumption DEF ReleaseAt, deadlineMs
    <2> QED
        BY <1>0, <2>1, <2>2, <2>3
<1>2. ASSUME NEW i \in Invocations, Step(i) \/ Kill(i) \/ Timeout(i)
      PROVE  stopped'[j] \/ clock' >= ReleaseAt(j)'
    <2>1. CASE i = j
        BY <1>2, <2>1, FinalStep
    <2>2. CASE i # j
        <3>1. UNCHANGED <<clock, Mine(j)>>
            BY <1>2, <2>2, StepIsOwn DEF TypeInv
        <3>2. pc[j] = "final" /\ stopped'[j] = stopped[j] /\ ReleaseAt(j)' = ReleaseAt(j)
            BY <3>1 DEF Mine, ReleaseAt, deadlineMs
        <3> QED
            BY <3>1, <3>2 DEF FinalTimely
    <2> QED
        BY <2>1, <2>2
<1>3. CASE UNCHANGED vars
    BY <1>3 DEF vars, FinalTimely, ReleaseAt, deadlineMs
<1> QED
    BY <1>1, <1>2, <1>3 DEF Next

(* The last save of an invocation, with no call that returns without having   *)
(* written: if it does not count as failed, the book has the holder's ticks.  *)
LEMMA FinalSaveStores ==
    ASSUME "oversize" \notin Enabled, TypeInv, FinalTimely, NEW i \in Invocations,
           FinalSave(i), ~release'[i].saveFailed
    PROVE  nowMs[i] .. (ReleaseAt(i) - 1) \subseteq book'.held
<1>1. PICK outcome \in {"saved", "lost", "failed"} :
        /\ Save(i, outcome)
        /\ release' = [release EXCEPT ![i] =
                          [at |-> ReleaseAt(i), cause |-> "deadline",
                           saveFailed |-> outcome # "saved"]]
    BY DEF FinalSave
<1>2. outcome = "saved"
    BY <1>1 DEF TypeInv, TypeOK, LocalsOK
<1>3. ~stopped[i] /\ book' = Snapshot(i)
    BY <1>1, <1>2 DEF Save, Flush, OwnedFlush, UnownedFlush
<1>4. clock >= ReleaseAt(i)
    BY <1>3 DEF FinalSave, Goto, FinalTimely
<1>5. nowMs[i] \in Nat /\ clock \in Nat /\ ReleaseAt(i) \in Nat
    BY DeadlineInNat DEF TypeInv, TypeOK, LocalsOK
<1>6. nowMs[i] .. (ReleaseAt(i) - 1) \subseteq nowMs[i] .. (clock - 1)
    BY <1>4, <1>5
<1> QED
    BY <1>3, <1>6 DEF Snapshot

(* persistFinal and the release after it, for books that fit a save: a        *)
(* deadline release that does not report a failed save leaves behind a book   *)
(* with every tick from the takeover to the release, whichever renewal,       *)
(* takeover or heartbeat ran in between.  Without the premise it is false:    *)
(* an oversize plan is not written and the call returns all the same.         *)
THEOREM ReleaseTellsOfALostSaveHolds ==
    ASSUME "oversize" \notin Enabled
    PROVE  Spec => ReleaseTellsOfALostSave
<1>1. Init => FinalTimely
    BY DEF Init, FinalTimely
<1>2. TypeInv /\ FinalTimely /\ [Next]_vars => FinalTimely'
    BY NextFinal
<1>3. TypeInv /\ FinalTimely /\ [Next]_vars =>
          [\A i \in Invocations :
              pc[i] = "final" /\ pc'[i] = "relGet" /\ ~release'[i].saveFailed
                 => nowMs[i] .. (ReleaseAt(i) - 1) \subseteq book'.held]_vars
    <2> SUFFICES ASSUME TypeInv, FinalTimely, Next, NEW j \in Invocations,
                        pc[j] = "final", pc'[j] = "relGet", ~release'[j].saveFailed
                 PROVE  nowMs[j] .. (ReleaseAt(j) - 1) \subseteq book'.held
        OBVIOUS
    <2>1. PICK i \in Invocations : Step(i) \/ Kill(i) \/ Timeout(i)
        BY DEF Next, Tick
    <2>2. i = j
        BY <2>1, StepIsOwn DEF TypeInv, Mine
    <2>3. FinalSave(j)
        <3>0. ~Leave(j)
            BY LeaveFacts DEF TypeInv
        <3>1. ~Takeover(j)
            BY <3>0 DEF TypeInv, TypeOK, LocalsOK, Takeover, Start, ReadCron, MarkCron,
               WatchEnds, Replan, Look, Stage, Refused, AcquireGet, ReadLease, AcquireCas,
               AcquireLost, AcquireMeta, ReloadToken, LoadBook, ConfirmHandover, AdoptToken,
               Goto
        <3>2. ~Sampling(j)
            BY DEF TypeInv, TypeOK, LocalsOK, Sampling, AdoptBeforeSampling, AdoptToken,
               SeedEnds, Heartbeat, StopsEarly, DriveEnds, RenewGet, RenewCas, RenewMeta, Goto
        <3>3. Ending(j)
            BY <2>1, <2>2, <3>0, <3>1, <3>2 DEF Step, Kill, Timeout, Dies
        <3> QED
            BY <3>0, <3>3 DEF TypeInv, TypeOK, LocalsOK, Ending, FinalRetry, SampleThrows,
               CrashSave, ReleaseGet, ReadLease, ReleaseCas, ReleaseStill, ReleaseLost,
               ReleaseMeta, ReleaseDel, HoldSave, NoteGet, NoteSet, Goto
    <2> QED
        BY <2>3, FinalSaveStores
<1> QED
    BY TypeInvariant, <1>1, <1>2, <1>3, PTL DEF Spec, ReleaseTellsOfALostSave

=============================================================================
