------------------------------ MODULE SplitStore ------------------------------
(***************************************************************************)
(* The split store of the P6 book (research/src/p6/hot-store.ts).  The book  *)
(* is p6:hot and a few dozen keys beside it.  A flush writes them in one     *)
(* EVAL and stamps p6:hot with an era, a sequence number, a base and the      *)
(* keys whose last write is not the base.  A standby loads everything once   *)
(* (warm), takes the lease later, and then re-reads only the keys whose      *)
(* stamp moved (reload).                                                    *)
(*                                                                          *)
(* A Redis command is one step.  The contents of a key are abstracted to a   *)
(* version: 0 before the first write, then the number of the write.  Fills,   *)
(* the ledger and the tape blocks are read in full by every load and carry   *)
(* no stamp, so they are left out.                                          *)
(***************************************************************************)
EXTENDS Integers, FiniteSets

CONSTANTS
    Procs,        \* invocations; each takes the lease at most once
    None,
    Always,       \* mutable keys every flush writes: the cursor, lastRun
    Rings,        \* mutable keys the load reads with a second command
    Dailies,      \* mutable keys in the load plan whatever the day
    Days,         \* UTC days, each with its own 15 minute key
    DayTicks,     \* clock ticks of one day
    MaxSafe,      \* Number.MAX_SAFE_INTEGER
    MapCap,       \* exceptions the key map may hold
    MaxClock, MaxWrites, MaxEras,   \* bounds, for model checking
    RetryTicks,   \* seconds between a lost reply and the next command
    Faults        \* faults the environment shows

Keys == Dailies \cup Days

FaultNames == {"grouped", "groupLost", "unstamped", "lostReply", "unlucky"}

ASSUME KeysAssumption ==
    /\ Always \subseteq Dailies /\ Rings \subseteq Dailies
    /\ Dailies \cap Days = {}
    /\ Days \subseteq Nat
    /\ None \notin Procs \cup Nat
    /\ \A K \in SUBSET Keys : None \notin [K -> Nat]
ASSUME NumbersAssumption ==
    /\ DayTicks \in Nat \ {0} /\ MaxSafe \in Nat \ {0}
    /\ MapCap \in Nat /\ RetryTicks \in Nat \ {0} /\ MaxClock \in Nat /\ MaxWrites \in Nat /\ MaxEras \in Nat
ASSUME FaultsAssumption == Faults \subseteq FaultNames

VARIABLES
    clock,     \* seconds
    owner,     \* the lease, as the owned commands test it
    hot,       \* the stamp in p6:hot: era, seq, base, keySeq; or Unstamped
    data,      \* key -> version stored
    writes,    \* history: versions handed out
    eras,      \* history: eras handed out
    pc,
    mem,       \* redisEra, redisSeenEra, redisSeq, redisBase, redisKeySeq, ...
    cache,     \* redisRaw and redisRings; None once a reload is over
    token,     \* the p6:hot the reload in progress read first
    merged,    \* the values a load in progress has collected
    retryAt,   \* not before this second after a lost reply
    rewrite,   \* redisRewrite: keys written outside the atomic flush
    unsent,    \* keys whose marks a failed flush gave back: the next one has them
    loaded,    \* what the last load under the lease returned
    strays     \* history: keys a save wrote whose write no stamp will name

stored == <<owner, hot, data, writes, eras, strays>>
locals == <<pc, mem, cache, token, merged, retryAt, rewrite, unsent, loaded>>
vars == <<clock, stored, locals>>

-----------------------------------------------------------------------------
Larger(a, b) == IF a > b THEN a ELSE b

Day == clock \div DayTicks

(* The mutable keys of splitPlanAt: eight days in the code, two here.        *)
PlanAt(day) == Dailies \cup (Days \cap {day - 1, day})

Plan == PlanAt(Day)
Keep == Plan \cup PlanAt(Day + 1)

NoMap == [k \in {} |-> 0]

(* p6:hot without a usable sequence, and with one that must not go on.       *)
Unstamped == [kind |-> "none", era |-> None, seq |-> 0, base |-> 0, keySeq |-> NoMap]
Poisoned == [Unstamped EXCEPT !.kind = "poison"]

(* classifyHot: a sequence at the limit cannot be continued.                 *)
Classified(h) == IF h.kind = "ok" /\ h.seq >= MaxSafe THEN Poisoned ELSE h

(* expandKeySeq: a key of the plan the map omits carries the base.           *)
Expanded(h) ==
    [k \in Plan |-> IF k \in DOMAIN h.keySeq THEN h.keySeq[k] ELSE h.base]

NoMemory == [seq |-> None, seen |-> None, era |-> None, base |-> None,
             keySeq |-> None, poison |-> FALSE, fresh |-> FALSE, bare |-> FALSE]

Init ==
    /\ clock = 1
    /\ owner = None
    /\ hot = Unstamped
    /\ data = [k \in Keys |-> 0]
    /\ writes = 0 /\ eras = 0
    /\ pc = [p \in Procs |-> "idle"]
    /\ mem = [p \in Procs |-> NoMemory]
    /\ cache = [p \in Procs |-> None]
    /\ token = [p \in Procs |-> Unstamped]
    /\ merged = [p \in Procs |-> NoMap]
    /\ retryAt = [p \in Procs |-> 0]
    /\ rewrite = [p \in Procs |-> {}]
    /\ unsent = [p \in Procs |-> {}]
    /\ loaded = [p \in Procs |-> None]
    /\ strays = {}

Goto(p, from, to) == pc[p] = from /\ pc' = [pc EXCEPT ![p] = to]

-----------------------------------------------------------------------------
(* Loading.                                                                 *)

(* rememberSplit: what this process knows of the sequence it has loaded.     *)
Remembered(m, h) ==
    IF h.kind = "ok"
    THEN [m EXCEPT !.seq = h.seq, !.seen = h.era, !.base = h.base,
                   !.keySeq = Expanded(h), !.poison = FALSE, !.bare = FALSE]
    ELSE [m EXCEPT !.seq = None, !.seen = None, !.base = None, !.keySeq = None,
                   !.poison = (h.kind = "poison"), !.bare = (h.kind = "none")]

Remember(p, h, values) ==
    /\ mem' = [mem EXCEPT ![p] = Remembered(@, Classified(h))]
    /\ cache' = [cache EXCEPT ![p] = values]

(* loadSplit, first command: one MGET of the strings and p6:hot.             *)
LoadStrings(p, from, to) ==
    /\ Goto(p, from, to)
    /\ token' = [token EXCEPT ![p] = hot]
    /\ merged' = [merged EXCEPT ![p] = [k \in Plan \ Rings |-> data[k]]]
    /\ UNCHANGED <<clock, stored, mem, cache, retryAt, rewrite, unsent, loaded>>

(* loadSplit, second command: the rings.                                     *)
Rung(p) == [k \in DOMAIN merged[p] \cup Rings |->
               IF k \in Rings THEN data[k] ELSE merged[p][k]]

WarmStart(p) == LoadStrings(p, "idle", "warmRings")

WarmRings(p) ==
    /\ Goto(p, "warmRings", "standby")
    /\ Remember(p, token[p], Rung(p))
    /\ token' = [token EXCEPT ![p] = Unstamped]
    /\ merged' = [merged EXCEPT ![p] = NoMap]
    /\ UNCHANGED <<clock, stored, retryAt, rewrite, unsent, loaded>>

Acquire(p) ==
    /\ Goto(p, "standby", "reload")
    /\ owner = None
    /\ owner' = p
    /\ UNCHANGED <<clock, hot, data, writes, eras, strays, mem, cache, token, merged, retryAt,
                   rewrite, unsent, loaded>>

(* reloadSplit, the token: without a sequence on either side, after a step   *)
(* back, or in another era, everything is read again.                        *)
TokenMatches(p, h) ==
    /\ mem[p].seq # None /\ mem[p].keySeq # None
    /\ h.kind = "ok"
    /\ h.seq >= mem[p].seq
    /\ h.era = mem[p].seen

ReadToken(p) ==
    /\ pc[p] = "reload"
    /\ pc' = [pc EXCEPT ![p] = IF TokenMatches(p, Classified(hot)) THEN "keys" ELSE "full"]
    /\ token' = [token EXCEPT ![p] = hot]
    /\ UNCHANGED <<clock, stored, mem, cache, merged, retryAt, rewrite, unsent, loaded>>

(* Mutant: any key of an unchanged era is reused.                            *)
ReuseCached(p, k) == k \in DOMAIN mem[p].keySeq /\ k \in DOMAIN cache[p]

(* reuseSplitKey                                                            *)
Reuse(p, k) ==
    LET next == Expanded(token[p])
    IN /\ k \in DOMAIN next /\ k \in DOMAIN mem[p].keySeq
       /\ next[k] = mem[p].keySeq[k]
       /\ k \in DOMAIN cache[p]

(* The strings whose stamp moved, in one MGET.                               *)
ReadMoved(p) ==
    /\ Goto(p, "keys", "rings")
    /\ merged' = [merged EXCEPT ![p] =
                    [k \in (Plan \ Rings) \cup (Rings \cap DOMAIN cache[p]) |->
                        IF k \in Rings \/ Reuse(p, k) THEN cache[p][k] ELSE data[k]]]
    /\ UNCHANGED <<clock, stored, mem, cache, token, retryAt, rewrite, unsent, loaded>>

ReadRings(p) ==
    /\ Goto(p, "rings", "confirm")
    /\ merged' = [merged EXCEPT ![p] =
                    [k \in DOMAIN @ \cup Rings |->
                        IF k \in Rings /\ ~Reuse(p, k) THEN data[k] ELSE @[k]]]
    /\ UNCHANGED <<clock, stored, mem, cache, token, retryAt, rewrite, unsent, loaded>>

(* The load is over: the body is installed and the raw strings dropped.      *)
Install(p, h, values) ==
    /\ mem' = [mem EXCEPT ![p] = Remembered(@, Classified(h))]
    /\ cache' = [cache EXCEPT ![p] = None]
    /\ merged' = [merged EXCEPT ![p] = NoMap]
    /\ token' = [token EXCEPT ![p] = Unstamped]
    /\ loaded' = [loaded EXCEPT ![p] = values]

(* The second GET of p6:hot: torn reads are thrown away.                     *)
Confirm(p) ==
    /\ Goto(p, "confirm", IF hot = token[p] THEN "holding" ELSE "full")
    /\ IF hot = token[p] THEN Install(p, hot, merged[p])
       ELSE UNCHANGED <<mem, cache, token, loaded>> /\ merged' = [merged EXCEPT ![p] = NoMap]
    /\ UNCHANGED <<clock, stored, retryAt, rewrite, unsent>>

FullStrings(p) == LoadStrings(p, "full", "fullRings")

FullRings(p) ==
    /\ Goto(p, "fullRings", "holding")
    /\ Install(p, token[p], Rung(p))
    /\ UNCHANGED <<clock, stored, retryAt, rewrite, unsent>>

-----------------------------------------------------------------------------
(* Saving.                                                                  *)

(* A version no key has had before.                                          *)
Written(keys) ==
    /\ writes < MaxWrites
    /\ writes' = writes + 1
    /\ data' = [k \in Keys |-> IF k \in keys THEN writes + 1 ELSE data[k]]

(* Mutant: two flushes within a second carry one number.                     *)
RepeatedSeq(p) == Larger(IF mem[p].seq = None THEN 0 ELSE mem[p].seq, clock)

NextSeq(p) == Larger((IF mem[p].seq = None THEN 0 ELSE mem[p].seq) + 1, clock)

(* loadedStampPoison, and a next number that is not a safe integer.          *)
MustRefuse(p) ==
    \/ mem[p].poison
    \/ mem[p].seq # None /\ mem[p].seq >= MaxSafe
    \/ NextSeq(p) > MaxSafe

NewEra(p) == mem[p].fresh \/ (mem[p].era = None /\ mem[p].seen = None)

Era(p) == IF NewEra(p) THEN eras + 1
          ELSE IF mem[p].era # None THEN mem[p].era ELSE mem[p].seen

(* Mutant: a first flush has no base to fall back on.                        *)
BaseUnset(p) == IF mem[p].fresh THEN NextSeq(p) ELSE mem[p].base

Base(p) == IF mem[p].fresh \/ mem[p].base = None THEN NextSeq(p) ELSE mem[p].base

(* The map this flush goes on from: its own keys at the new number, the      *)
(* others as they were, without those that have left the load plans.         *)
Carried(p, touched) ==
    LET old == IF mem[p].fresh \/ mem[p].keySeq = None THEN NoMap ELSE mem[p].keySeq
        written == touched \cup rewrite[p]
    IN [k \in written \cup (DOMAIN old \cap Keep) |->
           IF k \in written THEN NextSeq(p) ELSE old[k]]

(* Only the exceptions to the base are published.                            *)
Sparse(p, touched) ==
    LET all == Carried(p, touched)
    IN [k \in {j \in DOMAIN all : all[j] # Base(p)} |-> all[k]]

Overflows(p, touched) == Cardinality(DOMAIN Sparse(p, touched)) > MapCap

(* stampFlush: the stamp put into p6:hot.                                    *)
Stamp(p, touched) ==
    IF Overflows(p, touched)
    THEN [kind |-> "ok", era |-> eras + 1, seq |-> NextSeq(p), base |-> NextSeq(p),
          keySeq |-> NoMap]
    ELSE [kind |-> "ok", era |-> Era(p), seq |-> NextSeq(p), base |-> Base(p),
          keySeq |-> Sparse(p, touched)]

(* writerKeySeq: what the writer goes on with.                               *)
WriterMap(p, h, touched) ==
    [k \in Keep \cup touched \cup rewrite[p] |->
        IF k \in DOMAIN h.keySeq THEN h.keySeq[k] ELSE h.base]

AfterStamped(p, touched) ==
    LET h == Stamp(p, touched)
    IN [seq |-> h.seq, seen |-> h.era, era |-> h.era, base |-> h.base,
        keySeq |-> WriterMap(p, h, touched), poison |-> FALSE, fresh |-> FALSE,
        bare |-> FALSE]

(* A p6:hot without a stamp was stored: the map missed this write.           *)
AfterUnstamped(p) ==
    [NoMemory EXCEPT !.fresh = mem[p].fresh, !.poison = mem[p].poison, !.bare = TRUE]

(* refuseSeq: the next flush starts a new era.                               *)
AfterRefused == [NoMemory EXCEPT !.fresh = TRUE, !.bare = TRUE]

(* The keys a flush can hold: those every flush writes, those whose marks a     *)
(* failed flush gave back (releaseMarks), and bars closed since.               *)
Touches(p) == {Always \cup unsent[p] \cup more : more \in SUBSET (Keep \ Always)}

(* A grouped save comes to its flush when each bar it claimed is written.      *)
Ready(p) ==
    /\ pc[p] = "holding" \/ (pc[p] = "grouping" /\ unsent[p] \subseteq Rings \cup Always)
    /\ clock >= retryAt[p]

Stamped(p, touched) ==
    /\ ~MustRefuse(p)
    /\ hot' = Stamp(p, touched)
    /\ eras' = IF Overflows(p, touched) \/ NewEra(p) THEN eras + 1 ELSE eras
    /\ eras' <= MaxEras

Refused(p) == MustRefuse(p) /\ hot' = Unstamped /\ UNCHANGED eras

(* The EVAL found this process's token: everything is written at once.       *)
Flush(p) ==
    /\ Ready(p) /\ owner = p
    /\ \E touched \in Touches(p) :
          /\ Written(touched)
          /\ \/ Stamped(p, touched) /\ mem' = [mem EXCEPT ![p] = AfterStamped(p, touched)]
                /\ rewrite' = [rewrite EXCEPT ![p] = {}]
             \/ Refused(p) /\ mem' = [mem EXCEPT ![p] = AfterRefused]
                /\ UNCHANGED rewrite
    /\ unsent' = [unsent EXCEPT ![p] = {}]
    /\ pc' = [pc EXCEPT ![p] = "holding"]
    /\ UNCHANGED <<clock, owner, strays, cache, token, merged, retryAt, loaded>>

(* The stamp would push p6:hot over its size: it is stored without.          *)
FlushUnstamped(p) ==
    /\ "unstamped" \in Faults
    /\ Ready(p) /\ owner = p /\ ~MustRefuse(p)
    /\ \E touched \in Touches(p) : Written(touched)
    /\ hot' = Unstamped
    /\ mem' = [mem EXCEPT ![p] = AfterUnstamped(p)]
    /\ unsent' = [unsent EXCEPT ![p] = {}]
    /\ pc' = [pc EXCEPT ![p] = "holding"]
    /\ UNCHANGED <<clock, owner, eras, strays, cache, token, merged, retryAt, rewrite, loaded>>

(* The EVAL ran and its reply was lost: memory stays where it was.  Without   *)
(* "unlucky" the numbers keep up with the clock, as they do when saves are a   *)
(* minute apart, and the process knows the stored p6:hot to carry a stamp.    *)
FlushReplyLost(p) ==
    /\ "lostReply" \in Faults
    /\ Ready(p) /\ owner = p
    /\ "unlucky" \in Faults \/ (NextSeq(p) = clock /\ ~mem[p].bare)
    /\ \E touched \in Touches(p) :
          /\ Written(touched)
          /\ unsent' = [unsent EXCEPT ![p] = touched]
          /\ \/ Stamped(p, touched) /\ UNCHANGED mem
             \/ Refused(p) /\ mem' = [mem EXCEPT ![p] =
                                        [AfterRefused EXCEPT !.bare = mem[p].bare]]
    /\ pc' = [pc EXCEPT ![p] = "holding"]
    /\ retryAt' = [retryAt EXCEPT ![p] = clock + RetryTicks]
    /\ UNCHANGED <<clock, owner, strays, cache, token, merged, rewrite, loaded>>

(* The process ends, and with it what it had in memory.                      *)
Ends(p) ==
    /\ pc' = [pc EXCEPT ![p] = "done"]
    /\ mem' = [mem EXCEPT ![p] = NoMemory]
    /\ retryAt' = [retryAt EXCEPT ![p] = 0]
    /\ rewrite' = [rewrite EXCEPT ![p] = {}]
    /\ unsent' = [unsent EXCEPT ![p] = {}]

(* The EVAL found another token, or none: this process saves no more.        *)
LeaseLost(p) ==
    /\ pc[p] \in {"holding", "grouping"} /\ clock >= retryAt[p] /\ owner # p
    /\ Ends(p)
    /\ UNCHANGED <<clock, stored, cache, token, merged, loaded>>

(* A flush too large for one EVAL writes its bars first.  publishUnsequenced-*)
(* Hot: the stamp is taken off before any of them.                          *)
Strip(p) ==
    /\ "grouped" \in Faults
    /\ Goto(p, "holding", "grouping") /\ clock >= retryAt[p]
    /\ \/ mem[p].bare /\ UNCHANGED <<hot, mem>>
       \/ /\ ~mem[p].bare /\ owner = p
          /\ hot' = Unstamped
          /\ mem' = [mem EXCEPT ![p].bare = TRUE]
    /\ UNCHANGED <<clock, owner, data, writes, eras, strays, cache, token, merged, retryAt,
                   rewrite, unsent, loaded>>

(* writeGroupedBars, one key: a bar claimed by this save.                     *)
Grouped(p, k) ==
    /\ k \in (Keep \cup unsent[p]) \ (Rings \cup Always)
    /\ Written({k})

GroupWrite(p) ==
    /\ pc[p] = "grouping" /\ owner = p
    /\ \E k \in Keys :
          /\ Grouped(p, k)
          /\ unsent' = [unsent EXCEPT ![p] = @ \ {k}]
          /\ rewrite' = [rewrite EXCEPT ![p] = @ \cup {k}]
    /\ UNCHANGED <<clock, owner, hot, eras, strays, pc, mem, cache, token, merged, retryAt,
                   loaded>>

(* The error leaves persistSplitBody outside the try whose catch gives marks   *)
(* back: all that buildFlush claimed stay claimed, those of an earlier lost    *)
(* flush among them.  No later flush sends, or stamps, what they stand for.    *)
GivenUp(p, wrote) ==
    /\ "groupLost" \in Faults
    /\ owner = p
    /\ strays' = strays \cup ((unsent[p] \cup wrote) \ (rewrite[p] \cup Always))
    /\ unsent' = [unsent EXCEPT ![p] = {}]
    /\ pc' = [pc EXCEPT ![p] = "holding"]
    /\ retryAt' = [retryAt EXCEPT ![p] = clock + RetryTicks]
    /\ UNCHANGED <<clock, owner, eras, mem, cache, token, merged, rewrite, loaded>>

(* The command that takes the stamp off has no answer; it ran, or it did not.  *)
StripReplyLost(p) ==
    /\ "grouped" \in Faults
    /\ pc[p] = "holding" /\ clock >= retryAt[p] /\ ~mem[p].bare
    /\ hot' \in {hot, Unstamped}
    /\ GivenUp(p, {})
    /\ UNCHANGED <<data, writes>>

(* A bar is written and the reply is lost before the key is noted, or the      *)
(* command before it fails and nothing is written.                          *)
GroupReplyLost(p) ==
    /\ pc[p] = "grouping"
    /\ \/ \E k \in Keys : Grouped(p, k) /\ GivenUp(p, {k})
       \/ UNCHANGED <<data, writes>> /\ GivenUp(p, {})
    /\ UNCHANGED hot

-----------------------------------------------------------------------------
Release(p) ==
    /\ pc[p] = "holding"
    /\ Ends(p)
    /\ owner' = IF owner = p THEN None ELSE owner
    /\ UNCHANGED <<clock, hot, data, writes, eras, strays, cache, token, merged, loaded>>

(* The lease runs out: its holder is gone, or too slow to renew it.  A crash  *)
(* is a process that takes no further step.                                 *)
Lapse ==
    /\ owner # None
    /\ owner' = None
    /\ UNCHANGED <<clock, hot, data, writes, eras, strays, locals>>

Tick ==
    /\ clock < MaxClock
    /\ clock' = clock + 1
    /\ UNCHANGED <<stored, locals>>

Step(p) ==
    \/ WarmStart(p) \/ WarmRings(p) \/ Acquire(p)
    \/ ReadToken(p) \/ ReadMoved(p) \/ ReadRings(p) \/ Confirm(p)
    \/ FullStrings(p) \/ FullRings(p)
    \/ Flush(p) \/ FlushUnstamped(p) \/ FlushReplyLost(p) \/ LeaseLost(p)
    \/ Strip(p) \/ StripReplyLost(p) \/ GroupWrite(p) \/ GroupReplyLost(p)
    \/ Release(p)

Next == Tick \/ Lapse \/ \E p \in Procs : Step(p)

Spec == Init /\ [][Next]_vars

-----------------------------------------------------------------------------
(* Properties.                                                              *)

IsStamp(h) ==
    /\ h.kind \in {"ok", "none", "poison"} /\ h.era \in Nat \cup {None}
    /\ h.seq \in Nat /\ h.base \in Nat
    /\ h.keySeq \in [DOMAIN h.keySeq -> Nat] /\ DOMAIN h.keySeq \subseteq Keys

TypeOK ==
    /\ clock \in Nat /\ owner \in Procs \cup {None}
    /\ IsStamp(hot) /\ \A p \in Procs : IsStamp(token[p])
    /\ data \in [Keys -> Nat] /\ writes \in Nat /\ eras \in Nat
    /\ rewrite \in [Procs -> SUBSET Keys] /\ unsent \in [Procs -> SUBSET Keys]
    /\ retryAt \in [Procs -> Nat] /\ strays \subseteq Keys

(* A load that ends under the lease returns the keys of every plan, and each   *)
(* key it returns as it is stored, but for strays: AtomicBook, whose one-step   *)
(* Load hides the four commands, the reuse of old strings and the fallback.   *)
(* Only a grouped save that is given up makes strays, of the keys it wrote or   *)
(* that a flush without an answer had written before.                        *)
AB == INSTANCE AtomicBook
          WITH Versions <- Nat, Whole <- Dailies, book <- data,
               unsure <- UNION {unsent[p] : p \in Procs}

ReloadsTheBook == AB!Spec

(* "True only when this key's sequence in the token is the one warm() loaded":  *)
(* no key is left out of that.                                              *)
Strict == INSTANCE AtomicBook
              WITH Versions <- Nat, Whole <- Dailies, book <- data,
                   unsure <- UNION {unsent[p] : p \in Procs}, strays <- {}

ReloadsTheWholeBook == Strict!Spec

(* A write leaves no stamp behind, or a stamp that differs from the one it     *)
(* found: a standby tells the books apart by era and number alone.           *)
StampsAreNew ==
    [][data' # data /\ hot'.kind = "ok" /\ hot.kind = "ok"
         => hot'.era # hot.era \/ hot'.seq > hot.seq]_vars
=============================================================================
