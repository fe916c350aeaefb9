# TLA+ models of Jev-Garrik

Specifications, model-checking configurations and machine-checked proofs for
the trading programs of this repository. The repository holds two running
systems and a set of batch studies:

- **P6 paper host** (`research/src/p6`, entry `web/src/app/api/engine`): a
  serverless function that a cron starts every few minutes. Its invocations
  overlap and take turns holding a lease in Redis; the holder samples the
  market once a minute, asks the Jev model, and keeps one book in Redis.
- **Coinbase trader** (`cb`): a long-running process that decides for each pair
  on a timer, simulates a maker-first execution policy against the live feed,
  and keeps its orders and fills in Postgres.

Everything below is translated from the source at the lines `PROJECT.json`
("map") names.

## 1. Inventory

Status: **M** modelled in part (section 2), **P** on the plan (section 7), **N** not modelled (section 9).

| Component | State it keeps | Operations | Hard behaviour | Correct when | |
|---|---|---|---|---|---|
| p6 relay (`relay.ts`, `vercel-live.ts`) | Redis `p6:lease` (PX), `p6:lease-meta`, `p6:cron`; per invocation: plan, staged gaps, token | planRelay, tryAcquire, reload, confirmHandover, renewLease, persistFinal, releaseLease | every Redis call is a round trip of its own; kills, time limits, lost answers | one holder at a time; nothing sampled is lost without a trace; a dead holder blocks nobody for long | M |
| p6 hot store (`hot-store.ts`) | `p6:hot` and the keys beside it, the stamp; per invocation: the stamp it knows, raw strings, marks, rewritten keys | warm, reload, stampFlush, owned EVAL, grouped writes | a reload mixes strings read before and under the lease; lost replies; numbers and maps at a limit | a load under the lease is the book as it stands | M |
| p6 paper host (`paper-host.ts`) | the book in memory, minute cursor, lanes | driveHost, renewHostLease, minute loop | two lanes beside the heartbeat | each minute is sampled once or in a gap | M as far as the lease goes |
| p6 Jev calls (`jev-call.ts`, `jev-shadow.ts`) | queue, done keys, stamps, watermark, ledger, meter; answer rows | schedule, catch up, drain, charge, hand over | a bar seen live, caught up and by a successor; a call paid for and never saved; caps at their limit | nothing paid for twice without a loss, every packet counted once, caps hold | M |
| p6 class A book (`class-a-paper.ts`, `class-a-live.ts`) | rows, positions, resting orders, pauses, net, kill; the bucket in progress | push a bar, check, fill, exit, restore | bars of one start time arrive in any order over minutes, each replays the bucket; restarts between them | fills go by rank, each exit counts once, nothing decided is taken back | M |
| p6 latches (`latches.ts`, `rearm.ts`) | risk latch, loss counters | trip, re-arm | long sequences, restarts | a tripped latch stays until re-armed | P |
| p6 market lanes (`feed.ts`, `rest-limit.ts`, `mid-feed.ts`) | sockets, token bucket | connect, resync, acquire | back-off, stale data | the venue's limit is kept | P (`rest-limit.ts`) |
| cb paper broker (`paper.ts`, `accounting.ts`) | per pair: position, one order slot, hold clock; pooled cash; order and fill rows | onIntent, place, replaceWithExit, tickPair, takerFlatten, fill, restore | un-awaited chains beside the tick, crash between two rows, failing store | an order fills once; every long gets closed; rows and memory agree | M |
| cb engine (`engine.ts`) | busy and generation per pair, the last plan | decide, deadline | decisions of several pairs overlap at their awaits and share a plan | slots hold, a halt leaves no long, rotations come to an end | M |
| cb pooled book (`pool.ts`, `poolbook.ts`) | snapshots, ranks, trails | refresh, planRotation, noteFill | refreshes pair by pair beside decisions | a plan follows the rotation rules | M |
| cb kill switch (`kill.ts`) | daily loss | recordUsd, blocked | turns while decisions and orders are under way | a halt stays until cleared | M, without the sums |
| cb store (`db/store.ts`, `db/reconnect.ts`) | Postgres rows, client | insert, update, retry | a statement that ran although its answer was lost | rows say what happened | M as the broker sees it |
| cb gate and vetoes (`gate.ts`, `vetoes.ts`) | ring of samples | classify, approve | warm-up after restart | a veto never lets an entry through | P |
| cb feed (`feed.ts`) | books, sequence numbers | snapshot, update, resync | gaps, reordering | a book that is shown is in sequence | P |
| cb resolver (`resolver.ts`) | pending outcomes | resolve | missing bars | each decision is resolved once | P |
| signal engine, reports, dashboards, batch studies, server, web, vendored code | none that others share | read, compute, show | none | out of scope, see section 9 | N |

Interactions: `vercel-live` gives `relay.runInvocation` its warm, reload,
confirm, watch and sample callbacks; `sampleUntil` runs `paper-host.driveHost`,
whose heartbeat saves through `hot-store` with the lease token, and whose REST
lane renews the lease beside it. One save carries the host's book, the Jev
fields and the class A book. Closed bars reach `jev-call` and the class A book
from a socket. On the Coinbase side a timer fires `engine.decide`, which sends
intents to `PaperBroker.onIntent` without awaiting them, while a one-second
timer runs `tickPair`; both await `store`. `feed` is read by both.

How the modules meet: each cuts the system at a Redis key or an intent. What
`RelayLease` says of the lease (one live holder, saves fenced by its token) is
the `owner` variable of `SplitStore` and `JevQueue`. `SplitStore` shows that a
reload is an atomic read (`AtomicBook`); `JevQueue` and `ClassABook` use it as
one. `PaperBroker` takes any intent at any time; `PoolEngine` says which are
sent and takes the broker as lots that fill, miss, or are flattened.

The hazards of this code, each with its line and the property that watches it,
are in `PROJECT.json` ("hazards").

## 2. Modules

| Module | What it is |
|---|---|
| `RelayLease`, `MCRelayLease`, `RelayLeaseProofs` | the relay, the lease keys and the saves as far as the lease fences them; its symmetry; theorems |
| `AtomicBook` | abstract: a load under the lease returns the book as it stands, in one step |
| `SplitStore`, `MCSplitStore`, `SplitStoreProofs` | the split store's loads, stamps and flushes, shown to implement `AtomicBook` (`ReloadsTheBook == AB!Spec`); its invariant and theorems |
| `JevQueue`, `MCJevQueue`, `JevQueueProofs`, `JevLedgerProofs` | Jev packets from the bar to the stored outcome; environments; theorems about the meter, and about queue, ledger and calls |
| `ClassABook`, `MCClassABook`, `ClassABookProofs` | the class A book's buckets and their replays; theorems |
| `PaperBroker`, `MCPaperBroker`, `PaperBrokerProofs` | the paper broker with its rows, the intents, crash and restore; theorems about orders, position and cash, the cap, the way out |
| `MCBrokerDesks` | five brokers of different size and fate, each an instance of `PaperBroker` |
| `PoolEngine`, `MCPoolEngine`, `PoolEngineProofs` | the decision loop on the pooled and the split breakout book; theorems |
| `FoldLemmas` | what folds over finite sets compute, for every set; the lemmas the proofs share |

### RelayLease

One action per piece of code between two awaits on Redis, in `pc` order:
`Start` (the handler), `ReadCron`, `MarkCron`, `WatchEnds`, `Replan`, `Look`
(the late lease and meta reads), `Stage` (gaps that will be recorded once the
lease is held), `Refused`; `AcquireGet`, `AcquireCas`/`AcquireLost`,
`AcquireMeta` (tryAcquire); `ReloadToken`, `LoadBook`, `ConfirmHandover`,
`AdoptBeforeSampling` (the takeover); `SeedEnds`, `Heartbeat`, `StopsEarly`,
`DriveEnds`, `RenewGet`, `RenewCas`, `RenewMeta` (a drive with its REST lane);
`FinalRetry`, `FinalSave`, `SampleThrows`, `CrashSave`, `HoldSave`; and
`ReleaseGet`, `ReleaseCas`, `ReleaseStill`, `ReleaseMeta`, `ReleaseDel`,
`NoteGet`, `NoteSet`. `Kill` ends an invocation at any await, `Timeout` at the
platform's limit, `Tick` moves the clock and lets Redis drop a key whose PX is
over.

State and code: `lease`/`expires` are `p6:lease` and its PX, `meta` and `cron`
the two other keys, `book` what `p6:hot` holds, reduced to the ticks that were
sampled and the gaps that were recorded. `host[i]` is the `PaperHost` of an
invocation, `leaseToken[i]` whether it was shown its token, `raw[i]` the lease
value it compares with. `unfenced` is a history variable: some save went out
without a token.

Abstractions, each on purpose:

- Time is in ticks of about a minute; the margins of the code are minutes.
- `self` is fresh per invocation, so the branches of `planRelay` for a lease
  that is already one's own are unreachable. (Two starts in one millisecond
  would share `self`; the cron period excludes it.)
- `warm()` leaves nothing behind that `reload` does not replace; it is left out.
  So is `resetCold`, an operator's hook.
- The several SETs of a save without a token are one step.
- A save that returns without writing because entries are held behaves like
  the one that is too large.

Observations that are not findings: the gap of a release with `saveFailed`
starts at the release, not at the last save that worked; `renewLease` moves
`savedAtMs` although nothing was saved; `tryAcquire` uses the `nowMs` of the
start of the invocation, which is old after a watch and a reload.

### SplitStore and AtomicBook

One Redis command is one step. `hot` is the stamp in `p6:hot`; `data` the
content of each mutable key as a version, 0 before the first write, then the
number of the write; `mem[p]` the `redis*` fields of a host; `cache[p]` the raw
strings of its warm load; `rewrite[p]` `redisRewrite`; `unsent[p]` the keys whose
marks a failed flush gave back (`releaseMarks`), which the next flush has.

- `WarmStart`, `WarmRings`: the warm load, an MGET of `p6:hot` with the strings
  and a second read of the one-minute rings. `Acquire` takes the lease.
- `ReadToken`, `ReadMoved`, `ReadRings`, `Confirm`: `reloadSplit`. It reads the
  stamp, then only the keys whose stamp moved, and `p6:hot` once more; a stamp
  that moved meanwhile, another era, a step back or none at all leads to
  `FullStrings`, `FullRings`, which read everything.
- `Flush`, `FlushUnstamped`, `FlushReplyLost`, `LeaseLost`: one owned EVAL, and
  the ways it ends: stored with a stamp, without one (size limit, or a number
  that is not safe), stored with the reply lost, refused. `stampFlush` is
  `NextSeq`, `Era`, `Base`, `Carried`, `Sparse`, `Overflows`, `Stamp`; what the
  writer goes on with is `WriterMap`.
- `Strip`, `GroupWrite`: a flush too large for one EVAL takes the stamp off and
  writes its bars one key at a time. `StripReplyLost`, `GroupReplyLost`: a command
  of that exchange gets no answer. Both end in `GivenUp`: `buildFlush` has claimed
  every mark by then (`hot-store.ts:1428`), those an earlier lost flush gave back
  too, and the error leaves outside the `try` whose `catch` would give them back.
  So `unsent` is emptied, and what it stood for, and the key just written, keep
  their old numbers: they stray.
- `Release`, `Lapse`, `Tick`. A crash is a process that takes no further step.

Abstractions: fills, ledger and tape blocks carry no stamp and are read in full
by every load, so they are left out. The load plan has eight days in the code
and two here, which gives keys that enter and leave it. Whether a payload is too
large is a choice of the environment. After a lost reply the next command comes
`RetryTicks` later (the heartbeat is a minute, the retry of the last save a
second).

`AtomicBook` keeps `owner`, `book`, `loaded`, `unsure` and `strays`: turns of the
lease, writes by the owner, and a load whose result, when its process holds the
lease, has every key of `Whole` (those in the plan whatever the day) and each key
as it stands in the book. `strays` are the keys that were written behind the
stamps' back; a load may return an old version of them, and of no other key. A key
may stray only by a write to it or, while it is `unsure` (written by a save that got
no answer), by a later one of the same turn. The mapping is `book <- data`,
`Whole <- Dailies`, `unsure` is what any process has `unsent`; of a load's commands
only the last does not stutter. In `SplitStore`, `strays` is a history variable that
only `GivenUp` adds to. `ReloadsTheBook` is the refinement with it;
`ReloadsTheWholeBook` is the same with `strays <- {}`, what the comments of the code
promise, and does not hold (section 3).

### JevQueue

A packet is a pair and a bar start. The drain and the heartbeat's save run in
one guarded tick and exclude each other; a bar arrives from a socket at any
await of either.

- `BarCloses` with `Schedule`: stamps, watermark, on-time ledger, queue.
  `Warm`, `Reload`: the saved fields installed, the ledgers merged
  (`mergeJevSkip`). Reload and acquire are one step.
- `Save`, `SaveReply`, `SaveReplyLost`, `Release`: one EVAL with the fields and
  the answer rows, and what its reply changes in memory.
- `DrainStart`, `DrainNext`, `AlreadyAnswered`, `TimedOut`, `TooLate`,
  `NotCalled`, `CallStarts`, `Answered`, `FailedAt`, `FailedUnpriced`,
  `NeverLeft`: the drain of one packet, from the read of its answer key to the
  settled reserve.
- `Lapse`, `Kill`, `Tick`.

The meter is in integers with the reserve and the prices of a scenario; a dearer
answer is settled against both caps. A call that names no price (timed out, failed
before its answer) keeps its hold on the meter and may have cost any of the prices,
since nothing bounds one call (`jev-shadow.ts:44`). `calls`, `spent`, `blind` (what
such calls cost above their hold), `losses`, `sheds` are history. Left out: the day's total (it limits nothing), payloads, the trailing
gate, the order of catch-up requests (a catch-up is a set of bars).

### ClassABook

Time counts bars: bar `k` is open during tick `k` and may arrive from tick
`k + 1`. `bucket` holds the bars of one start time, the book as it was before
them (`image`) and the decisions of the checks made. `Push` is
`stepClassAFromHost`: it replays the bucket from its image with the new bar in,
checks the signal of that pair once if the bar closes a day, and replays again.
`Trade` is a print through a limit (`early`: one in the first second of its bar,
whose time is cut to the end of the bar before, `paper-host.ts:1025`), `Save` and `Restart` the store and
`restoreClassABook`, `Tick` the clock.

`FillBar`, `Resolved` (`classAFillCapped` in rank order), `Exits`, `Closed`,
`Checked` are the functions of `class-a-paper.ts`. `Reaches` is the comparison of
`onIntrabar`: a bar's exits reach a position that an early print of the next bar
opened. `ticks` are the pairs whose tick size is known; a check of another records a
`nofill` at once (why `noTick`). Prices are kept as what they
do: a bar "dips" through the limit or "crashes" through the stop; a check finds
nothing, a veto, a wide book or a good one; a stop loses one unit, a rule exit
earns one.

Three feeds, drawn in `Init`: `live` (each bar arrives before the prints of the
next), `ahead` (prints of the open bar first), `catchUp` (after an outage, pair
by pair). Catch-up revisits buckets, so rank, slots and `nofill` are claimed of
the live feed only: after an outage longer than its window an order is given up
by the clock before the bar that would fill it (`class-a-paper.ts:1955`), and
what a check sees depends on the arrival when an earlier pair's exit trips the
kill. A saved copy that no crash can bring back any more is forgotten (`FirstSnapshot`).
Assumed: a bar with prints is not missed (`fallbackTradesBar` builds it
from them), and the tape survives a restart. Left out: shadows, fees, the
retention of 80 rows, duplicate rows, the daily low of missed bars, and the $60
risk cap, which cannot bind before the slots (an order risks a third of it).
`Watched` tries only quiet bars where a pair has nothing at stake.

### PaperBroker

JavaScript runs one callback at a time, so an atomic step is the code from one
await on the store to the next: the store's answer and what follows it are one
step. A pair has one tick chain (`stepping` keeps it to one) and the un-awaited
chains its intents start (`Slots`). `thread[<<p, t>>]` says which store call a chain
awaits and how it goes on.

- `DecideStart`, `Enter`, `Exit`, `DecideHold`: `engine.decide` reads the
  position, awaits, and sends an intent; `onIntent` with `place`,
  `replaceWithExit` or `takerFlatten` up to their first await.
- `TickStart`, `Guard`, `Order`, `OnPrint`, `PrintsEnd`, `Late`, `Horizon`: one
  `tickPair` in code order.
- `InsertDone`, `CancelDone`, `UpsertDone`, `StatusDone`: the answers. After a
  fill `UpsertDone` writes the fill row, `StatusDone` the order row, the slot,
  the hold clock and the take-profit.
- `Fail`: a store call rejects, whether or not its statement ran; the chain is
  gone, `finally` resets `stepping` and the reservation, the process goes on.
- `Restart`: crash and `restore`.
- `Ages`, `HorizonExpires`, `MidMoves`, `FeedChanges`: the clock and the market.

Abstractions: sizes are in lots, a price is one unit and there is no fee, so a
buy moves its size from cash to position; whether a print crosses, a fill slips,
the mid is below the stop or the book is one-sided is a choice of the market.
Repricing only delays the prints. `converted_taker` is `filled`. Rows are
numbered in the order they land, and fill rows are replayed in that order; the
code uses the time the chain started. `restore` is one step: nothing else runs
before it ends, and a crash inside it is a crash after it. A rotation that
flattens several pairs is decisions in a row. The kill switch is an intent that
is refused. Without `trailPrice`, a book that is not pooled rests its
take-profit; that is the case `Pooled = FALSE`. `Spent` lets one desk share its
bounds between intents and faults.

One timing assumption is a guard, and can be switched off: a pair is decided
every 300 s and an entry rests for 120 s (`config.ts`), so a decision starts when
the last intent of the pair has run its course. `"hasty" \in Enabled` drops it;
the rough desk does.

### PoolEngine

A decision is `DecideStart`, `ModelAnswers`, `Sampled`, `RowStored`: the position
is read, the model awaited, a veto sample stored, the gate and the plan decided,
the row stored, the intents sent. `Fails` is any of these awaits that rejects or
passes the deadline. Decisions of several pairs overlap and share `lastPlan`. `Plan` is
`planRotation`, a fold over the candidates by rank. `Refresh` replaces one
snapshot, `KillTurns` and `EquityTurns` move the halt, `Stop` is the tick's stop
or trail. The broker is what the engine sees of it: lots held, one resting
entry, a flatten under way (`Filled`, `Missed`, `Flattened`, `FlattenFails`); a
refusal because the book is not ready or the feed is down is `Missed`.

Ranks are a small set, -1 is the unknown snapshot (-Infinity). Fees, the
sums of the day's loss, the HTF gate, the veto ring and the staggered start are
left out. `mixed` is history: a rank moved under an entry that was approved and
has neither filled nor missed, or a plan left out a name for want of cash or room
while a slot was free for it (`Crowded`). `moves` bounds what market, model and store do
beyond the code's own steps.

## 3. Runs

Every bound is a constant of the `.cfg` or of the trials in the MC module.

| Run | Asks | Bounds | Shows |
|---|---|---|---|
| `relay_overlap` | `TypeOK`, `LeaseIsShort`, `NoSteal`, `BookGrows`, `ReleaseTellsOfALostSave` | 2 invocations, both alive, 5 ticks; kills, Redis timeouts, throws, REST lane | one lease, short; a book that only grows under tokens; a release that claims a good save has one |
| `relay_gaps` | `HolesWereNoticed`, `DeadHoldersLeaseEnds` | 3 one after the other, 8 ticks, kills, fairness | a hole in the history was staged by some taker; the key of a dead holder goes |
| `relay_late_delete` | `OnlyTimeDropsALiveLease` | 2, 6 ticks | violation: the last DEL of a release removes the successor's lease |
| `store_loads` | `TypeOK`, `ReloadsTheBook`, `StampsAreNew` | 2 processes; a cursor, a ring and a day key that enters and leaves the plan; 4 seconds, numbers up to 5, a map of 1, 3 writes, 2 eras; grouped writes, unstamped saves, lost replies of flushes, of the stripping command and of grouped writes | a load under the lease is the book as it stands, but for the keys that a failed grouped save gave up, also those an earlier lost flush had written (refinement of `AtomicBook`); a write leaves a new stamp or none |
| `store_group_lost` | `ReloadsTheWholeBook` | one day, a map of 2, 2 eras, lost replies of grouped writes | violation: a key written and never noted is reused from an old string |
| `jev_queue` | `PacketsAddUp`, `OnTimeOnce`, `CapsHold`, `SpendIsMetered`, `RepeatsAreLosses`, `AnswersAreStored`, `NoCallAfterAnswer`, `QueueDrains` | 2 processes; one bar with kill, lapse and lost reply; one bar of 2 pairs without a caller; 2 bars with shed snapshots; expiry of 2 bars, 1 done bar, cap 5, reserve 2, prices 1 and 3; fairness | counts add up, caps hold, no outcome is lost or paid for twice, the queue drains |
| `jev_lost_outcome` | `OutcomesAreStored` | the same | violation: a packet that ends during a save is saved as done without its row |
| `class_a_book` | `TypeOK`, `AccountsAgree`, `FillsGoByRank`, `NofillIsTrue`, `LiveSlotsHold`, `NoReentry`, `SignalsStand`, `OldBucketsStand` | 2 pairs, days of 3 bars, window 2, 1 slot, kill at 2 stops, 6 bars; live feed with a restart, live feed without one pair's tick size, catch-up | replays decide by rank, score once, take nothing back |
| `class_a_slots` | `SlotsHold` | the same, prints ahead of bars | violation: a late low fills a second order in an earlier bar |
| `broker_desks` | `RecordsAreWellFormed`, `NoOverfill`, `RestartsKeepTheWayOut`, `LedgerIsPosition`, `PoolCashFollowsTheRows`, `SharedGrossWithinCap`, `SpotLongsAreClosed`, `SpotStopFlattens` | five desks, below | no order fills beyond its size; position, way out, cash and cap hold; longs get closed |
| `broker_two_orders` | `OneOrderInFlight` | 1 pair, 2 intents | violation: two chains find the slot empty |
| `pool_engine` | `TypeOK`, `PoolSlotsHold`, `RotationFollowsTheRules`, `Settles`, `HaltFlattens` | six trials, below; fairness | slots, rotation rules, an end of rotations, a halt that leaves no long |

Why the bounds are enough. *Relay*: one tick of margin, a lease of two, a run of
three, so a lease can expire within a run, two runs overlap, and a third follows
after both are over. *Store*: two processes are a writer and a standby, and roles
change; three writes are one before the warm load, one between it and the
lease and one of the successor; a map of one overflows, and the clock changes
the day's key. *Jev*: a packet can be called by a holder, lost, and called by the
next; the dear price passes the reserve and the cap. *Class A*: two pairs
compete for one slot, a second signal meets the pause of the first, and there
are two buckets before it. *Broker*: an entry of two lots that prints fill one at
a time gives partial fills with the least state, and two intents a second round
trip; `MaxOrders` is never reached in the passing run.

The desks: **spot** (split clips; exits, stops, feed outages; two intents, or
one with a crash or a failing call), **pool** (pooled cash, exits beside the
stop), **rough** (3-lot entries, prints of 2, slips, one-sided books, hasty
decisions, a failing call), **crashing** (whole prints, exits, stops, a crash
anywhere), **shared** (two pairs, cap of one lot). The cap is claimed of the shared
desk, the pool's cash of the pool desk, whose exit intents flatten beside the stop,
and of the shared one, liveness of the spot desk, way out and ledger where no call
fails half way. What the pool's cash is claimed to be is what the fill rows moved;
that cash and lots are the book the pool started with is what the plan for pooled
capital says, and `BrokerPoolCash.cfg` shows that it is not so (below).

The pool's trials: three pairs for two slots with room and one move; three pairs
where the cash (3) or the cap (8) binds; three pairs with a cap (7) that has room for
every clip and not for one that is counted twice; two pairs under a cap of 2 with two
moves; two pairs for one slot with two moves; the split book with two pairs and
two moves.

Cash and the cap are the scarce resources of the shipped book as well. The gross
counts an entry that rests, and the plan counts it again as a candidate (`pool.ts`).
The enabled clips sum to 3400 (`books.test.ts:76`; two documents say 4200) and the
cap is 3000: three resting entries of 1600 leave 1400 for candidates that ask for
1600 again. A plan that leaves a name out although a slot is free for it is `Crowded`.
`PoolSlotsHold` is claimed as long as no plan was, and `PoolLimit.cfg` shows four longs
for the limit of three once one is (below). `Settles` is claimed of runs whose plans are not
crowded for ever: where they are, a small clip is rotated out for a bigger one that
then does not fit, and is entered again, without end.

Deadlock is checked for the broker and the pool, whose loops never stop; the
relay, the store, the packets and the class A book may come to rest.

The five violation runs disagree with a sentence of a document, a comment or a
test, quoted in `PROJECT.json` ("findings"). Four more disagreements have a
configuration beside the runs, which TLC finds violated in the same way:

| Configuration | Violates | The code | What is said of it |
|---|---|---|---|
| `BrokerPoolCash.cfg` (`MCPaperBroker`) | `PoolConserves` | two flattens of one position each credit the whole notional (`paper.ts:577`), and the book sells only what is held (`accounting.ts:41`) | "Free cash plus open marks is the book." (`docs/SENIOR-DEV-PLAN-POOLED-CAPITAL.md:57`) |
| `ClassANoTick.cfg` (`MCClassABook`) | `EveryNofillIsTrue` | with an unknown tick size the row is `nofill` at the signal (`class-a-live.ts:239`, `class-a-paper.ts:1721`, `1731`), and the market trades through the limit afterwards | "nofill is recorded only once that window has ended with neither." (`class-a-paper.ts:1881`) |
| `ClassAFillBar.cfg` (`MCClassABook`) | `FillBarIsHeld` | a print in the first second of a bar is cut to its start (`paper-host.ts:1025`), and the bar before stops the position it opened (`class-a-paper.ts:2022`) | "A position holds its slot and its $20 open risk from the start of its fill bar through the end of its exit bar." (`class-a-paper.ts:1817`) |
| `PoolLimit.cfg` (`MCPoolEngine`) | `MaxConcurrentHolds` | four longs with the shipped clips (500, 300, 600, 500), cap 3000 and three slots, ranks that stand still: a plan that counts the resting entries twice leaves a name out, and the next one takes a fourth | "Max concurrent longs": 3 (`docs/SENIOR-DEV-PLAN-POOLED-CAPITAL.md:48`) |

Several passing runs leave a fault out because the code does not keep the
property under it. Each of these is reproduced by adding the fault to the
constants of the run (of the desk, for the broker):

| Property | Add | What TLC then shows |
|---|---|---|
| `HolesWereNoticed` | `MaxActive = 2` | a taker that watched to its release time stages no gap when the lease still ran as it looked, and runs out before it takes it (`relay.ts:687`) |
| `HolesWereNoticed` | `"timeout"` or `"oversize"` | the last save does not reach the book, and the release stamps its time all the same (`relay.ts:664`) |
| `HolesWereNoticed` | `"rest"` | a renewal during a REST call stamps the meta key with a time that no save has reached, and the holder is killed (`relay.ts:528`) |
| `HolesWereNoticed` | `LEASE_TTL` longer than the watch | a taker runs out of its watch while the lease of a killed one still stands |
| `HolesWereNoticed` | `"throw"` | a release with cause crash leaves no gap for the time until the next holder (`relay.ts:691` and `695` know deadline and none) |
| `ReleaseTellsOfALostSave` | `"oversize"` | `persistSplitBody` returns normally without writing, and the release claims a good save (`hot-store.ts:1443`) |
| `BookGrows` | drop `~unfenced'` | a host that was not shown its token saves unfenced over its successor's book (`hot-store.ts:1448`) |
| `ReloadsTheBook`, `StampsAreNew` | `"unlucky"` (map of 2) | flushes within one second push the number ahead of the clock; after a lost reply it is used twice. Or: the process takes the stored `p6:hot` for bare, `publishUnsequencedHot` strips nothing, and a crash leaves a bar under the stamp of the lost flush (`hot-store.ts:1387`) |
| `NoOverfill` | drop `"crash" \notin faults` | a crash between the fill row and the order row lets the order fill again (`paper.ts:198`) |
| `LongsAreClosed` | `"thin"` | the horizon is cleared before the exit is placed, and a one-sided book places none (`paper.ts:412`) |
| `LedgerIsPosition` | drop `"fail" \notin faults` | a fill row that failed leaves a position no replay gives (`paper.ts:591`) |
| `CashFollowsTheRows` | `"crash"` (drop `faults = {}`) | a restart replays the rows through `apply`, which pays a second flatten only for what was held (`accounting.ts:41`), and memory had credited all of it (`paper.ts:577`) |
| `GrossWithinCap` | `Lot = 2`, not pooled, cap 3 | the resting remainder of a half-filled entry is not counted (`paper.ts:262`) |
| `GrossWithinCap` | `"crash"` | a crash between the fill row and the order row brings the order back whole beside what it bought (`paper.ts:198`) |
| `GrossWithinCap` | `"exit"` and `"hasty"`, pooled, 4 intents, 2 slots | a flatten's fill ends late and frees the slot of the entry that has come since; the tick still fills that entry, and another is placed meanwhile (`paper.ts:610`) |
| `LongsHaveAWayOut` | `"thin"` | the horizon is cleared, and neither it nor an intent finds a price to sell at (`paper.ts:412`) |
| `LongsHaveAWayOut` | `"exit"`, pooled, two pairs | a plan flattens a pair whose entry is half filled; the tick goes on to fill that entry, and its long's exit is in the slot when the flatten's fill ends and frees the slot (`paper.ts:610`) |
| `LongsHaveAWayOut` | `"slip"`, with `"exit"` and `"stop"` | prints go on after the fill that slipped, so an exit placed for the first of them comes late, takes the slot from the exit of everything, and sells a part (`paper.ts:588`) |
| `LongsHaveAWayOut` | `"hasty"`, with `"exit"` and `"stop"` | a second entry lands late and takes the slot from the exit of what the first one bought |
| `Settles` | drop `<>[](~Crowded)` | the rotation without end described above |
| `NofillIsTrue`, `FillsGoByRank` | drop `feed = "live"` | catch-up comes too late for a window, or revisits a bucket |

Seen while modelling, without a run of its own: the pool's drawdown trip is
recomputed from the equity at each decision and not latched
(SENIOR-DEV-PLAN-POOLED-CAPITAL.md section 4.2); several decisions of one
4-hour bar may each flatten a long; a missed post-only entry is tried again at the next
decision, not at a later bar; entries that rest are not counted as longs, so a
refresh between two decisions may bring more longs than slots (`mixed`); an
unknown snapshot has rank -Infinity and its long is flattened as a trail; a
model that hangs holds a pair's halt back for the 25 s of the deadline; store
calls of the trader have no deadline.

## 4. Fairness

`RelayLease`: the clock advances; an invocation that is alive takes its next
step or reaches its time limit. Nothing is assumed of `Kill` or of new
invocations. `PaperBroker` (the spot desk of `MCBrokerDesks`): the interval
timer goes on and a tick's code runs (`Ticks`), the store answers (`Answers`; it
may reject, `Fail`, a bounded number of times), orders age and horizons pass.
Nothing is assumed of the engine, of prints or of the mid. `PoolEngine`: the
timers fire and the model and the store answer (`Decide`; a deadline ends what
does not), a resting entry fills or misses, a flatten ends. Nothing is assumed
of the market, the operator or failures. All of it is weak fairness: none of these can be
disabled by others again and again except by having happened.

`JevQueue`: weak fairness of the clock, of warm starts, of a save's reply and of
the steps of a drain; strong fairness of `Reload`, `Save` and `DrainStart`,
which other steps disable again and again: cron starts an invocation every few
minutes and one of them finds the lease free, and the guarded tick of a holder
runs saves and drains in turn. `RelayLease` shows that a dead holder's lease ends.

## 5. What is proved

`RelayLeaseProofs`, for every set of invocations, all margins, any clock and
any set of enabled faults, from `TimesAssumption`, `EnabledAssumption` and
`NoneAssumption` (the margin is shorter than a run, the TTL is positive, `None`
is neither a lease nor an invocation):

| Theorem | States | Argument |
|---|---|---|
| `TypeCorrect` | `Spec => []TypeOK` | `TypeOK` is not inductive: a swap writes a kept value, a gap's start is a difference. `TypeInv` adds `Timely` (nobody is ahead of the clock, a feed gap is no longer than the time so far), `KeptLeases` (a value kept for a later write is a lease) and `SwapsAFreeLease` (the value a taker compares with was free when read). |
| `NoStealHolds` | `Spec => NoSteal` | `RedisStep` bounds what one step does to the keys; the swap compares with a free value, and free stays free as time goes on. |
| `LeaseIsShortHolds` | `Spec => []LeaseIsShort` | every write of an unreleased lease carries `leasePx`, which `PxInRange` bounds. |
| `ReleaseTellsOfALostSaveHolds` | `Spec => ReleaseTellsOfALostSave`, if no save is oversize | `FinalTimely`: who comes to its last save is stopped or past its release time, and stays so through renewals and time; a save that returns was not stopped, so it wrote every tick up to the release. Section 3 shows why the premise is needed. |
| `BookGrowsHolds` | `Spec => BookGrows` | `BookInv` adds `HolderHasBook`: who owns the lease and has loaded the book has all of it in memory. Owning is exclusive, so a fenced save by another is refused (`OtherHolderStep`), and one's own only adds (`OwnHolderStep`). `ReleasesHaveACause` is needed because a released lease is still one's own until it is deleted. |

`PaperBrokerProofs`, for every set of pairs and of concurrent intent chains,
every size, cap and bound, hasty decisions, slips, one-sided books, crashes,
restarts and any number of failing store calls, from `SizesAssumption` and
`NamesAssumption`:

| Theorem | States | Argument |
|---|---|---|
| `BrokerTypeCorrect` | `Spec => [](TypeOK /\ References)` | A chain that awaits a cancel, a fill row or an order row, and the slot of a pair, name an order that is in the table, for that pair (`ChainsPrepared`, `SlotsRefer`); without it a step could write a row that is not there. Rows are never dropped (`RowsStay`), so it lasts while other chains run, and `Restart` finds the rows it reads. |
| `NoOverfillHolds` | `Spec => []NoOverfill` | What is filled in the rows, what a chain is about to record and what memory says remains are together within the size placed (`RowsFit`, `FillsFit`), until a crash, after which `NoOverfill` claims nothing (section 3). Two chains may be recording fills of one order, so `FillsFit` alone is not inductive: an intent's chain fills only what it placed itself, and all of it (`IntentsFillWhole`), so the tick that still works on that order has nothing left to fill, and one of the two fills is empty (`FillsExclude`). |

On that invariant, in the second half of the module:

| Theorem | States | Argument |
|---|---|---|
| `LedgerIsPositionHolds` | `Spec => []LedgerIsPosition`, if the book is not pooled or no intent flattens | The position is the replay of the fill rows, or ahead of it by the one fill whose row the tick awaits (`LedgerFollows`). That takes intents which only rest orders (`IntentsRest`): the tick of a pair is then the only chain that fills. With intents that flatten, two chains may fill at once, and the rows land in an order of their own. Crashes and restarts are in. |
| `CashFollowsTheRowsHolds` | `Spec => []CashFollowsTheRows` | Not inductive: a fill moves the cash before its row is written. `CashInv`: cash is the bankroll and what the rows moved and what each chain has moved and not yet recorded (`Owed`), a sum over all chains of all pairs. A fill adds the same to cash and to one chain's debt, `UpsertDone` moves it from the debt to the row, and no other step touches any of them. Flattening intents, slips, partial fills and every overlap are in; it is claimed until a call fails or the process crashes (section 3). |
| `LongsHaveAWayOutHolds` | `Spec => []LongsHaveAWayOut`, if the book is not pooled or no intent flattens, a book has two sides, no fill slips and decisions are not hasty | At rest a long needs a clock or an order that sells; while its chains run it needs one of them on its way (`WayOut`): a purchase whose order row will start the clock, a chain that will insert or cancel for a sale, or a sell order in the slot. That lasts only if a sale sells everything, so `CoversAll` bounds the sell order in the slot and the one in the tick's hand from below by the position, and a sale that is done leaves no long. Behind both is `OneIntent`: one chain of an intent at a time, none while an entry rests, and an entry in the tick's hand with something left is the one in the slot, so nothing is bought while a sale is under way. A restart starts the clock of every long (`RestartWay`), so crashes are in, and so are partial fills, stops, exits and feed circuits; the four premises are the faults of section 3. The spot and the crashing desk of `broker_desks` meet them. |

`JevQueueProofs`, for every set of invocations, pairs, bars and scenarios, every
cap, reserve and price, from `MoneyAssumption`, `PairsAssumption` and
`ScenariosAssumption`:

| Theorem | States | Argument |
|---|---|---|
| `CapsHoldAlways` | `Spec => []CapsHold` | A refund could take a meter below zero, so `MeterInv` adds `Holds`: a call in flight has its reserve on the meter of its process. A process whose call is in flight is not reloaded, so it lasts. |
| `SpendIsMeteredAlways` | `Spec => []SpendIsMetered` | While nothing is lost, who runs is the owner (`OwnerRuns`) and the spend, but for what calls without a price cost above their hold, is covered without the hold of the call in flight (`Covers(spent - blind, Booked)`); a handover needs the saved meter to be the holder's. |
| `NoCallAfterAnswerHolds` | `Spec => NoCallAfterAnswer` | `ReadStays`: what the drain read of the answer key still holds at the call, because only the owner writes it, and not while it drains. |

`JevLedgerProofs`, for every set of invocations, products, bars and scenarios, any
expiry, bound of done keys, cap and price, from the same assumptions and
`TimesAssumption`; kills, lapses, lost replies, shed keys and processes that run
on after they lost the lease are in:

| Theorem | States | Argument |
|---|---|---|
| `PacketsAddUpHolds` | `Spec => []PacketsAddUp` | `LedgerInv`: the saved ledger and the owner's balance, the owner's has grown from the saved one, and a process that does not run has counted nothing that is not saved, so `mergeJevSkip` takes the saved one over unchanged. A stored answer takes a packet off the queue without a count; while nothing was shed that cannot happen, because answered packets are over for the owner (`AnswersInv`). |
| `OnTimeOnceHolds` | `Spec => []OnTimeOnce` | `OnTimeInv`: a counted bar has its stamp until its window is over, in the saved book and in the owner's. The watermark passes only bars that are out of the window (`Dated`), every stamp names Btc, and a bar is counted only inside the window. |
| `RepeatsAreLossesHolds` | `Spec => []RepeatsAreLosses` | A budget (`RepeatsInv`): the calls a packet has had, the strays that may still call it and, unless it is closed, the call of the owner are at most one more than the losses. Closed is answered, among the outcomes of the next save, or being called. A lapse turns the owner into a stray or finds the packet over for it; a kill loses what was not saved. |
| `AnswersAreStoredHolds` | `Spec => []AnswersAreStored` | With no loss a called packet is closed, and `SavedInv` says of what is saved as done that it is over for the owner and not among the outcomes that still have to be written. |

The argument goes by the book: `MovedOn` says what a step of a running process
may do to its book (packets that are new, packets that end, those of them that
are told to the ledger and to the outcomes to write), one lemma per action shows
that the action does no more (`EveryStep`), and each part of the invariant is
then kept by one lemma over a handful of kinds of step.

`ClassABookProofs`, for every set of pairs, volume, length of the day, window,
number of slots, kill, feed and number of crashes, from the assumptions of
`ClassABook` (the window is shorter than the day):

| Theorem | States | Argument |
|---|---|---|
| `TypeCorrect` | `Spec => []TypeOK` | with the accounts of the book, of the image and of what is saved. |
| `AccountsAlwaysAgree` | `Spec => []AccountsAgree` | `AccountsOf` is kept by every fill, exit and stored check, each once per replay because a replay starts from the image: a row that a check adds is of the bucket's own signal, and no row of the image is (`CanReplay`, from `UpTo`). |
| `NoReentryHolds` | `Spec => []NoReentry` | A check sees the exits of the image's positions but not the fills of its own bucket. `Clear`: it places an order only where the pause is over and every position of the pair is about to leave by rule. An order that fills and is stopped in the same bucket was unfilled before it (`Unfilled`: no print the earlier bars knew), so it fills on the bucket's own bar, inside its window; the check's signal is at least a day after its own, and the window is shorter (`NoStopBesideACheck`). The order that the check itself places may be stopped by its own signal bar (`ClassAFillBar.cfg`, section 3), which is why the property is about two orders. |
| `SignalsAlwaysStand` | `Spec => SignalsStand` | `Follows`: the book is its bucket's image and checks, each row at most decided and ended by the bucket. A later bar keeps image and checks, or starts from the book (`Continues`). |
| `OldBucketsAlwaysStand` | `Spec => OldBucketsStand` | the same, with the bucket that decided a row written in the row. |
| `FillsAlwaysGoByRank` | `Spec => []FillsGoByRank` | `LiveInv` below: one bucket fills into its own bar and the one after, and deals out the slots of each by rank. |
| `LiveSlotsAlwaysHold` | `Spec => []LiveSlotsHold` | `LiveInv`: an order fills only while its bar has a free slot, and a position occupies every bar from the one its row says (`Entries`). |
| `NofillIsAlwaysTrue` | `Window > 1 => (Spec => []NofillIsTrue)` | `LiveInv`: what rests has seen no dip and no print of its window, and what is given up has seen the whole window. It is about pairs whose tick size is known: of the others `ClassANoTick.cfg` shows the contrary (section 3). |

The replay is three folds over sorted lists. For each fold a relation between the
book it starts from and the book it has reached (`Storing`, `Resolving`,
`Exiting`, and `Visited` for what a check sees) is shown to hold of one step, to
compose, and so, by a lemma of `FoldLemmas`, to hold of the fold. The order is
defined by choosing the one list that goes by rank (or by name), because the
library's sort is unknown to the prover; `ListExists` shows that there is one.

The last three are about the feed that is never behind, and none of their
properties is inductive: a replay forgets the book and starts from the image, a
restart from what was saved, so `LiveInv` says of all three books what it says of
one. `BookLive` has the properties themselves, with `Early` (a bucket decides
nothing of a bar later than the next) so that bars of later buckets are still
empty of its fills. `Untouched` and `UntouchedBefore` say that no bar dipped
through the limit of what rests, but for the bars of the bucket, which its image
does not know and a replay applies again. `Printed` says that a print is of a bar
that opens a window and is applied or among the last two bars; of the saved
copy only as long as it may still be restored (`crashes < MaxCrashes`). One pass over the resting orders is a
`Deals`, step by step (`DealMore`, `SlotTaken`): an order fills only into a bar with
a free slot, and by rank (`InOrder`).
`Window > 1` is needed: with a window of one bar TLC finds an order that another
pair's bar of that window gives up by the clock, until the order's own bar is in and
the bucket is replayed. A print in the last bar of the code's window of 16
(`class-a-paper.ts:59`) can be passed over in the same way for as long as the bars
of that bucket are still arriving; the live feed draws prints in the first bar of an
order and has later ones in the low of their own bar, so the claim is of what
has arrived.

`PoolEngineProofs`, for every set of pairs, ranks, clips, slots, cash and caps,
from the assumptions of `PoolEngine`:

| Theorem | States | Argument |
|---|---|---|
| `PoolTypeCorrect` | `Spec => []TypeOK` | with `DecidesAlone`: a pair with a decision under way belongs to the book and has nothing resting, and nothing held if the decision read it flat; a pair that holds has nothing resting. |
| `RotationFollowsTheRulesHolds` | `Spec => RotationFollowsTheRules` | The plan is a fold over the candidates by rank, the rules are a relation on sets (`IsPlan`). The fold takes exactly the candidates that have room behind the better ones, by induction over the finite set of candidates. |
| `PoolSlotsHoldAlways` | `Spec => []PoolSlotsHold` | `SlotsInv`: as long as no plan was crowded and no rank moved under an entry, the longs fit the slots, and there is room behind the longs and the better candidates (`HasRoom`) for every pair whose entry is approved or rests, whatever has moved since its plan. |

`FoldLemmas` has the induction over finite sets these proofs need. The library
states it with an operator as parameter; here it is stated for the members of a
set, from the well-founded order of the subsets, and gives that a finite set of
integers has a maximum, that a fold which takes one element after another has a
value, and that a sum changes, splits and compares element by element.

`SplitStoreProofs`, for every set of invocations, keys and days, every length
of the day, limit, cap and bound, from `KeysAssumption`, `NumbersAssumption`
(and `FaultsAssumption`, which TLC checks); the last two under
`Steady == "unlucky" \notin Faults`, with every other fault. That premise is
needed: section 3 shows the load of an old string without it.

| Theorem | States | Argument |
|---|---|---|
| `TypeCorrect` | `Spec => []TypeOK` | A first flush must find a base, a later one a map of numbers: `MemOK` says that a process knows a whole sequence or none. |
| `StampsDiffer` | `Steady => (Spec => StampsAreNew)` | `HotIsLast`: whoever goes on with the era of `p6:hot` knows its number, or lost a reply and may not write before the clock has passed it (`Behind`). |
| `LoadsAreWhole` | `Steady => (Spec => ReloadsTheBook)` | the step simulation of `AtomicBook`, from the invariant below |

The invariant of the last two says what the cached strings of a standby are worth
while others write. `Pinned(e, k, s, v)`: as long as key `k` bears stamp `s` in era
`e`, in `p6:hot` or in the memory of the writer that would publish it next, `k`
holds `v`. `Behind(e, n)`: numbers published in `e` from now on are above `n`. A
standby's strings are pinned at the stamps it remembers, all of them behind
(`Reads`, `Caches`), and both last through every kind of step (`Moves`,
`BehindLasts`, `PinnedLasts`): a key that is written moves to a number above, or
becomes one of `rewrite` or `unsent`, or strays, as all of `unsent` does when a
grouped save is given up (`GivesUp`). `PlansPass` is needed because a
key that left the plan is dropped from the map and must not come back;
`HolderKnows` because the stamp must not change between the commands of a reload
under the lease, and because `Strip` trusts what the process knows of `p6:hot`.

## 6. What is only model-checked

Liveness under fairness (`DeadHoldersLeaseEnds`, `SpotLongsAreClosed`,
`SpotStopFlattens`, `QueueDrains`, `Settles`, `HaltFlattens`), which is beyond
the prover. `HolesWereNoticed`, which is claimed of invocations one after the other
with kills only: overlap is what the relay does every few minutes, and section 3
shows that it fails there. `GrossWithinCap`, of two pairs whose prints fill a whole
entry. Outside the premises of their theorems `LedgerIsPosition` and
`LongsHaveAWayOut`, of which `broker_desks` checks small instances (the pool desk has
one pair whose intents flatten).

## 7. Plan

Done of the first plan: the split store with its abstract book, the packets, the
class A book, the decision loop with the pool. Left, in this order:

1. `PaperBroker`: `restore` step by step, with a crash inside it.
2. `RelayLease` against an abstract lease service, by TLC and by proof.
3. `PoolEngine` composed with `PaperBroker`.
4. `Latches` and re-arm; the HTF gate and the veto ring (`gate.ts`, `vetoes.ts`).
5. `FeedSync` (sequence numbers and resync), `StoreRetry` (reconnect),
   `Resolver`, `RestLimit`.
6. `planRelay`, `insideTouchPrice`, `guardTrip` and the veto percentile against
   reference definitions.

## 8. Running

`tlc -config RelayOverlap.cfg MCRelayLease`, likewise `RelayGaps.cfg` and
`RelayLateDelete.cfg`; `StoreLoads.cfg` and `StoreGroupLost.cfg` with
`MCSplitStore`; `JevQueue.cfg` and `JevLostOutcome.cfg` with `MCJevQueue`;
`ClassABook.cfg`, `ClassASlots.cfg`, `ClassANoTick.cfg` and `ClassAFillBar.cfg` with
`MCClassABook`; `BrokerDesks.cfg` with `MCBrokerDesks`; `BrokerTwoOrders.cfg` and
`BrokerPoolCash.cfg` with `MCPaperBroker`; `PoolEngine.cfg` and `PoolLimit.cfg` with
`MCPoolEngine`. Each takes one to three minutes.
`tlapm` on `RelayLeaseProofs.tla`, `FoldLemmas.tla`, `PaperBrokerProofs.tla`,
`JevQueueProofs.tla`, `JevLedgerProofs.tla`,
`PoolEngineProofs.tla`, `SplitStoreProofs.tla`, `ClassABookProofs.tla`.

## 9. Not modelled

Indicators, selection, sizing and the batch studies are floating-point
computations over stored series without concurrent state; they are most of the
repository's lines, and there is no state machine in them to check. Dashboards
and reports read and format. The web client shows what it is sent. The vendored
strategies are a frozen copy. The parts marked P in section 1 are on the plan.
Of the modelled parts, section 2 names what is left out under each module.

