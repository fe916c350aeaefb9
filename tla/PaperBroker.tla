---------------------------- MODULE PaperBroker ----------------------------
(***************************************************************************)
(* The paper broker of the Coinbase trader (cb/paper.ts) with the position  *)
(* it accounts (cb/accounting.ts), the order and fill rows it keeps in       *)
(* Postgres (cb/db/store.ts) and the decision loop that sends it intents     *)
(* (cb/engine.ts).                                                          *)
(*                                                                          *)
(* JavaScript runs one callback at a time, so an atomic step is the code from *)
(* one await on the store to the next.  A pair's thread is the tick chain,    *)
(* which `stepping` keeps to one at a time, or one of the un-awaited chains   *)
(* an intent starts.  Sizes are in lots and every price is one unit without   *)
(* fee, so a buy moves its size from cash to position and a sell moves it     *)
(* back; whether a print crosses, the mid trips the stop or an order is old    *)
(* is up to the market and the clock.                                        *)
(***************************************************************************)
EXTENDS Integers, FiniteSets, FiniteSetsExt

CONSTANTS
    Pairs,
    Slots,        \* bound on the intent chains of a pair that run at one time
    None,
    Pooled,       \* opts.pooled: one cash ledger, no resting take-profit
    Lot,          \* size of an entry
    PrintSize,    \* what a print gives a maker order, after the haircut
    MAX_GROSS,    \* opts.maxGrossUsd
    BANKROLL,
    MaxOrders,    \* bound on the order rows
    MaxIntents,   \* bound on the intents the engine sends
    MaxFaults,    \* bound on crashes and failed store calls
    Spent,        \* what a behaviour starts with of these two bounds
    Enabled       \* which of the market's and the store's events happen

Events == {"crash", "fail", "slip", "feed", "stop", "exit", "thin", "hasty"}

ASSUME SizesAssumption ==
    /\ Lot \in Nat \ {0} /\ PrintSize \in Nat \ {0} /\ MAX_GROSS \in Nat
    /\ BANKROLL \in Nat /\ MaxOrders \in Nat /\ MaxIntents \in Nat /\ MaxFaults \in Nat
    /\ Pooled \in BOOLEAN /\ Enabled \subseteq Events
    /\ Spent \subseteq [intents: Nat, faults: SUBSET {"crash", "fail"}]

Ids == 1 .. MaxOrders
Threads == {"tick"} \cup Slots

Purposes == {"entry", "exit", "stop", "take_profit"}

(* An order row, with what it was placed for and what its fill rows add up to. *)
OrderRow == [pair: Pairs, purpose: Purposes,
             status: {"open", "partial", "filled", "canceled"},
             size: Nat, placed: Nat, filled: Nat]

ASSUME NamesAssumption == /\ IsFiniteSet(Pairs) /\ IsFiniteSet(Slots) /\ "tick" \notin Slots
                          /\ None \notin Nat /\ None \notin OrderRow

VARIABLES
    orders,            \* the order rows, by id
    dbPos,             \* the position that replaying the fill rows gives
    positionBase,      \* acct
    poolCash,
    open,              \* the one slot of a pair
    remaining,         \* OpenOrder.remaining, by order id
    reserved,          \* reservedUsd
    horizon,           \* horizonExpiresAt
    entryBlocked,
    busy,              \* engine: the position a pending decision has read
    thread,
    aged,              \* orders older than entryTimeoutSec
    belowStop,         \* the mid is at or below the stop
    healthy,           \* feedHealthy
    intents,           \* intents sent so far
    faults             \* of which kinds a fault has happened

market == <<aged, belowStop, healthy>>
memory == <<positionBase, poolCash, open, remaining, reserved, horizon, entryBlocked>>
engine == <<busy, intents>>
vars == <<orders, dbPos, memory, engine, thread, market, faults>>

-----------------------------------------------------------------------------
Smaller(a, b) == IF a < b THEN a ELSE b

(* A thread is between chains, at a phase of the tick, or awaiting the store. *)
Off == [at |-> "off", order |-> None, size |-> 0, purpose |-> "none",
        next |-> "none", ret |-> "off", done |-> FALSE, slipped |-> FALSE]

At(phase) == [Off EXCEPT !.at = phase]

AwaitInsert(purpose, size, next, ret) ==
    [Off EXCEPT !.at = "insert", !.purpose = purpose, !.size = size,
                !.next = next, !.ret = ret]

AwaitCancel(id, next, ret) ==
    [Off EXCEPT !.at = "cancel", !.order = id, !.next = next, !.ret = ret]

Side(purpose) == IF purpose = "entry" THEN "buy" ELSE "sell"

(* Accounting.apply: a sell only ever closes.                                *)
AppliedUnclamped(pos, side, size) == IF side = "buy" THEN pos + size ELSE pos - size

Applied(pos, side, size) ==
    IF side = "buy" THEN pos + size ELSE pos - Smaller(size, pos)

Long(p) == positionBase[p] > 0

Working(id) == orders[id] # None /\ orders[id].status \in {"open", "partial"}

Resting(p, purposes) == open[p] # None /\ orders[open[p]].purpose \in purposes

SumOver(f) == MapThenSumSet(LAMBDA p : f[p], Pairs)

(* openGrossUsd: a long pair counts by its position alone.                   *)
GrossWithoutReserved ==
    SumOver([p \in Pairs |->
        IF Long(p) THEN positionBase[p]
        ELSE IF Resting(p, {"entry"}) THEN remaining[open[p]] ELSE 0])

openGrossUsd ==
    SumOver([p \in Pairs |->
        reserved[p] + (IF Long(p) THEN positionBase[p]
                       ELSE IF Resting(p, {"entry"}) THEN remaining[open[p]] ELSE 0)])

cashUsd(p) == IF Pooled THEN poolCash ELSE BANKROLL - positionBase[p]

Init ==
    /\ orders = [id \in Ids |-> None]
    /\ dbPos = [p \in Pairs |-> 0]
    /\ positionBase = [p \in Pairs |-> 0]
    /\ poolCash = BANKROLL
    /\ open = [p \in Pairs |-> None]
    /\ remaining = [id \in Ids |-> 0]
    /\ reserved = [p \in Pairs |-> 0]
    /\ horizon = [p \in Pairs |-> "none"]
    /\ entryBlocked = [p \in Pairs |-> FALSE]
    /\ busy = [p \in Pairs |-> "no"]
    /\ \E spent \in Spent : intents = spent.intents /\ faults = spent.faults
    /\ thread = [x \in Pairs \X Threads |-> Off]
    /\ aged = {}
    /\ belowStop = [p \in Pairs |-> FALSE]
    /\ healthy = [p \in Pairs |-> TRUE]

-----------------------------------------------------------------------------
(* The synchronous part of the chains, as the next state of a thread.        *)

(* place of an exit, and the second half of takerFlatten: sell what is held. *)
SellAll(p, purpose, next, ret) ==
    IF Long(p) THEN AwaitInsert(purpose, positionBase[p], next, ret) ELSE At(ret)

(* takerFlatten takes the slot from whatever rests in it.                    *)
TakerFlattenFree(p, purpose, ret) ==
    IF open[p] # None THEN At(ret) ELSE SellAll(p, purpose, "fill", ret)

TakerFlatten(p, purpose, ret) ==
    IF open[p] # None
    THEN [AwaitCancel(open[p], "flatten", ret) EXCEPT !.purpose = purpose]
    ELSE SellAll(p, purpose, "fill", ret)

(* replaceWithExit takes it from a take-profit only.                         *)
ReplaceWithExit(p, ret) ==
    IF open[p] = None THEN SellAll(p, "exit", "rest", ret)
    ELSE IF Resting(p, {"take_profit"})
         THEN [AwaitCancel(open[p], "exit", ret) EXCEPT !.purpose = "exit"]
         ELSE At(ret)

(* What a one-sided book makes of it: place and takerFlatten find no price.  *)
OrNoPrice(rec, ret) ==
    IF "thin" \in Enabled /\ rec.at = "insert" THEN {rec, At(ret)} ELSE {rec}

(* What a fill moves in the pooled ledger.                                   *)
CashOfBuys(side, size) == IF side = "buy" THEN -size ELSE 0

CashOf(side, size) == IF side = "buy" THEN -size ELSE size

(* The part of a print a maker order gets.                                   *)
WholePrint(left, print) == print

makerFillSize(left, print) == Smaller(left, print)

(* fill up to its first await: accounting, cash, and the order in memory.    *)
Fill(p, t, id, purpose, left, size, slips, ret) ==
    LET side == Side(purpose)
        rest == left - size
    IN /\ positionBase' = [positionBase EXCEPT ![p] = Applied(@, side, size)]
       /\ poolCash' = IF Pooled THEN poolCash + CashOf(side, size) ELSE poolCash
       /\ remaining' = [remaining EXCEPT ![id] = rest]
       /\ entryBlocked' = [entryBlocked EXCEPT ![p] = @ \/ slips]
       /\ thread' = [thread EXCEPT ![<<p, t>>] =
              [Off EXCEPT !.at = "upsert", !.order = id, !.size = size, !.ret = ret,
                          !.done = (rest = 0 \/ slips), !.slipped = slips]]

Slips(purpose) == IF "slip" \in Enabled /\ purpose = "entry" THEN BOOLEAN ELSE {FALSE}

-----------------------------------------------------------------------------
(* The engine's decision loop, and onIntent.                                 *)

(* decide reads the position, then waits for the model and the store.  A pair *)
(* is decided every 300 s and an entry rests for 120 s (config.ts), so by the  *)
(* next decision the last intent has run its course, unless decisions are      *)
(* "hasty": a shorter CB_DECIDE_SEC, or a store that is slow to answer.        *)
DecideStart(p) ==
    /\ busy[p] = "no" /\ intents < MaxIntents
    /\ "hasty" \in Enabled \/ ( /\ \A t \in Slots : thread[<<p, t>>].at = "off"
                              /\ ~Resting(p, {"entry"}) )
    /\ busy' = [busy EXCEPT ![p] = IF Long(p) THEN "long" ELSE "flat"]
    /\ UNCHANGED <<orders, dbPos, memory, intents, thread, market, faults>>

(* onIntent for an entry, and place: reserve the notional, insert the row.   *)
Enter(p) ==
    /\ busy[p] = "flat" /\ open[p] = None /\ ~entryBlocked[p] /\ healthy[p]
    /\ \E usd \in 1 .. Lot, t \in Slots :
         /\ usd = Smaller(Lot, MAX_GROSS - openGrossUsd)
         /\ cashUsd(p) >= usd
         /\ thread[<<p, t>>].at = "off"
         /\ thread' = [thread EXCEPT ![<<p, t>>] = AwaitInsert("entry", usd, "rest", "off")]
         /\ reserved' = [reserved EXCEPT ![p] = usd]
    /\ busy' = [busy EXCEPT ![p] = "no"]
    /\ intents' = intents + 1
    /\ UNCHANGED <<orders, dbPos, positionBase, poolCash, open, remaining, horizon,
                   entryBlocked, market, faults>>

(* onIntent for an exit of q: the pair itself, which was long when it was     *)
(* looked at, or a pair the pooled plan flattens, which is long now.  A plan   *)
(* that flattens several pairs is modelled as decisions in a row.             *)
Exit(p) ==
    /\ "exit" \in Enabled /\ busy[p] # "no"
    /\ \E q \in Pairs, t \in Slots :
         /\ IF q = p THEN busy[p] = "long" ELSE Pooled /\ Long(q)
         /\ thread[<<q, t>>].at = "off"
         /\ \E rec \in OrNoPrice(IF Pooled THEN TakerFlatten(q, "exit", "off")
                                           ELSE ReplaceWithExit(q, "off"), "off") :
              thread' = [thread EXCEPT ![<<q, t>>] = rec]
    /\ busy' = [busy EXCEPT ![p] = "no"]
    /\ intents' = intents + 1
    /\ UNCHANGED <<orders, dbPos, memory, market, faults>>

(* The decision keeps the position, or its intent is refused.                *)
DecideHold(p) ==
    /\ busy[p] # "no"
    /\ busy' = [busy EXCEPT ![p] = "no"]
    /\ intents' = intents + 1
    /\ UNCHANGED <<orders, dbPos, memory, thread, market, faults>>

-----------------------------------------------------------------------------
(* The tick of a pair: feed circuit, guards, resting order, guards, horizon. *)

Go(p, rec) ==
    /\ thread' = [thread EXCEPT ![<<p, "tick">>] = rec]
    /\ UNCHANGED <<orders, dbPos, engine, market, faults>>

(* tickPair begins when the last one is over; cancelEntryIfFeedDown.         *)
TickStart(p) ==
    /\ thread[<<p, "tick">>].at = "off"
    /\ Go(p, IF ~healthy[p] /\ Resting(p, {"entry"})
             THEN AwaitCancel(open[p], "drop", "guard1") ELSE At("guard1"))
    /\ UNCHANGED memory

(* enforceGuards, before and after the resting order.                        *)
Guard(p) ==
    /\ thread[<<p, "tick">>].at \in {"guard1", "guard2"}
    /\ LET next == IF thread[<<p, "tick">>].at = "guard1" THEN "order" ELSE "horizon"
       IN IF Long(p) /\ belowStop[p]
          THEN \E rec \in OrNoPrice(TakerFlatten(p, "stop", next), next) : Go(p, rec)
          ELSE Go(p, At(next))
    /\ UNCHANGED memory

(* processOrder takes the order of the slot; a stop is crossed at once.      *)
Order(p) ==
    LET id == open[p] IN
    /\ thread[<<p, "tick">>].at = "order"
    /\ IF id # None /\ Resting(p, {"stop"})
       THEN /\ Fill(p, "tick", id, "stop", remaining[id], remaining[id], FALSE, "guard2")
            /\ UNCHANGED <<orders, dbPos, open, reserved, horizon, engine, market, faults>>
       ELSE /\ Go(p, IF id = None THEN At("guard2") ELSE [At("prints") EXCEPT !.order = id])
            /\ UNCHANGED memory

(* One print after another for the order taken, whatever has become of it.   *)
OnPrint(p) ==
    LET id == thread[<<p, "tick">>].order IN
    /\ thread[<<p, "tick">>].at = "prints" /\ remaining[id] > 0
    /\ \E slips \in Slips(orders[id].purpose) :
         Fill(p, "tick", id, orders[id].purpose, remaining[id],
              makerFillSize(remaining[id], PrintSize), slips, "prints")
    /\ UNCHANGED <<orders, dbPos, open, reserved, horizon, engine, market, faults>>

PrintsEnd(p) ==
    /\ thread[<<p, "tick">>].at = "prints"
    /\ Go(p, [At("late") EXCEPT !.order = thread[<<p, "tick">>].order])
    /\ UNCHANGED memory

(* entryTimeoutSec is over for an order of these purposes.                   *)
OverdueEntry(id, purposes) == id \in aged /\ orders[id].purpose \in purposes \ {"exit"}

Overdue(id, purposes) == id \in aged /\ orders[id].purpose \in purposes

(* The order taken is still in the slot: an old entry is canceled, an old     *)
(* exit is crossed, and so is a take-profit the mid has stayed above.         *)
Late(p) ==
    LET id == thread[<<p, "tick">>].order
        still == open[p] = id /\ remaining[id] > 0
        purpose == orders[id].purpose
    IN /\ thread[<<p, "tick">>].at = "late"
       /\ \/ /\ ~still \/ ~Overdue(id, {"entry", "exit"})
             /\ Go(p, At("guard2")) /\ UNCHANGED memory
          \/ /\ still /\ Overdue(id, {"entry"})
             /\ Go(p, AwaitCancel(id, "drop", "guard2")) /\ UNCHANGED memory
          \/ /\ still /\ (purpose = "take_profit" \/ Overdue(id, {"exit"}))
             /\ Fill(p, "tick", id, purpose, remaining[id], remaining[id], FALSE, "guard2")
             /\ UNCHANGED <<orders, dbPos, open, reserved, horizon, engine, market, faults>>

(* The end of tickPair: at the horizon an exit takes the slot.               *)
Horizon(p) ==
    /\ thread[<<p, "tick">>].at = "horizon"
    /\ IF Long(p) /\ horizon[p] = "due" /\ (open[p] # None => Resting(p, {"take_profit"}))
       THEN /\ horizon' = [horizon EXCEPT ![p] = "none"]
            /\ \E rec \in OrNoPrice(ReplaceWithExit(p, "off"), "off") : Go(p, rec)
            /\ UNCHANGED <<positionBase, poolCash, open, remaining, reserved, entryBlocked>>
       ELSE Go(p, Off) /\ UNCHANGED memory

-----------------------------------------------------------------------------
(* The store answers, and the chain runs on to its next await.               *)

Return(rec) ==
    IF rec.ret = "prints" THEN [At("prints") EXCEPT !.order = rec.order] ELSE At(rec.ret)

(* Rows are numbered in the order they land.                                *)
Fresh(id) == orders[id] = None /\ \A k \in 1 .. id - 1 : orders[k] # None

Row(p, purpose, size) ==
    [pair |-> p, purpose |-> purpose, size |-> size, status |-> "open",
     placed |-> size, filled |-> 0]

(* insertOrder has returned: the order takes the slot and rests, or is filled *)
(* by the taker that placed it.                                              *)
InsertDone(p, t) ==
    LET rec == thread[<<p, t>>] IN
    /\ rec.at = "insert"
    /\ \E id \in Ids :
         /\ Fresh(id)
         /\ orders' = [orders EXCEPT ![id] = Row(p, rec.purpose, rec.size)]
         /\ open' = [open EXCEPT ![p] = id]
         /\ IF rec.next = "fill"
            THEN /\ Fill(p, t, id, rec.purpose, rec.size, rec.size, FALSE, rec.ret)
                 /\ UNCHANGED reserved
            ELSE /\ remaining' = [remaining EXCEPT ![id] = rec.size]
                 /\ reserved' = [reserved EXCEPT ![p] =
                        IF rec.purpose = "entry" THEN 0 ELSE @]
                 /\ thread' = [thread EXCEPT ![<<p, t>>] = Return(rec)]
                 /\ UNCHANGED <<positionBase, poolCash, entryBlocked>>
    /\ UNCHANGED <<dbPos, horizon, engine, market, faults>>

(* updateOrder(canceled) has returned: the slot is cleared whatever is in it, *)
(* and the chain sells what is left to sell.                                 *)
CancelDone(p, t) ==
    LET rec == thread[<<p, t>>]
        then == CASE rec.next = "drop" -> {Return(rec)}
                  [] rec.next = "flatten" ->
                       OrNoPrice(SellAll(p, rec.purpose, "fill", rec.ret), rec.ret)
                  [] rec.next = "exit" ->
                       OrNoPrice(SellAll(p, "exit", "rest", rec.ret), rec.ret)
    IN /\ rec.at = "cancel"
       /\ orders' = [orders EXCEPT ![rec.order].status = "canceled"]
       /\ open' = [open EXCEPT ![p] = None]
       /\ \E n \in then : thread' = [thread EXCEPT ![<<p, t>>] = n]
       /\ UNCHANGED <<dbPos, positionBase, poolCash, remaining, reserved, horizon,
                      entryBlocked, engine, market, faults>>

(* upsertFill: the fill row, and the position a replay of the rows gives.    *)
FillRowPerOrder(rec) ==
    IF orders[rec.order].filled > 0 THEN UNCHANGED <<orders, dbPos>>
    ELSE /\ orders' = [orders EXCEPT ![rec.order].filled = @ + rec.size]
         /\ dbPos' = [dbPos EXCEPT ![orders[rec.order].pair] =
                         Applied(@, Side(orders[rec.order].purpose), rec.size)]

FillRow(rec) ==
    /\ orders' = [orders EXCEPT ![rec.order].filled = @ + rec.size]
    /\ dbPos' = [dbPos EXCEPT ![orders[rec.order].pair] =
                    Applied(@, Side(orders[rec.order].purpose), rec.size)]

UpsertDone(p, t) ==
    /\ thread[<<p, t>>].at = "upsert"
    /\ FillRow(thread[<<p, t>>])
    /\ thread' = [thread EXCEPT ![<<p, t>>].at = "status"]
    /\ UNCHANGED <<memory, engine, market, faults>>

(* updateOrder after a fill: the row keeps what remains of the order.        *)
StatusRow(rec) ==
    orders' = [orders EXCEPT
        ![rec.order].status = IF rec.slipped /\ remaining[rec.order] > 0 THEN "canceled"
                              ELSE IF rec.done THEN "filled" ELSE "partial",
        ![rec.order].size = IF rec.slipped THEN 0 ELSE remaining[rec.order]]

(* The hold clock starts with an entry's fill and ends with the position.     *)
ClockAfterLastFill(rec, bought, long, old) ==
    IF bought /\ rec.done THEN "armed" ELSE IF long THEN old ELSE "none"

ClockAfterFill(rec, bought, long, old) ==
    IF bought THEN "armed" ELSE IF long THEN old ELSE "none"

(* The end of fill: free the slot, arm or clear the horizon, rest the         *)
(* take-profit.                                                              *)
StatusDone(p, t) ==
    LET rec == thread[<<p, t>>]
        bought == orders[rec.order].purpose = "entry" /\ Long(p)
    IN /\ rec.at = "status"
       /\ StatusRow(rec)
       /\ open' = [open EXCEPT ![p] = IF rec.done THEN None ELSE @]
       /\ horizon' = [horizon EXCEPT ![p] =
              ClockAfterFill(rec, bought, Long(p), @)]
       /\ thread' = [thread EXCEPT ![<<p, t>>] =
              IF bought /\ rec.done /\ ~Pooled
              THEN [AwaitInsert("take_profit", positionBase[p], "rest", rec.ret)
                       EXCEPT !.order = rec.order]
              ELSE Return(rec)]
       /\ UNCHANGED <<dbPos, positionBase, poolCash, remaining, reserved, entryBlocked,
                      engine, market, faults>>

-----------------------------------------------------------------------------
(* What the finally blocks leave of a chain that throws: `stepping` is reset. *)
Rejected(rec) == Off

(* A store call that rejects: the statement may have run, the chain ends, and *)
(* place gives its reservation back.  index.ts logs it and goes on.          *)
Fail(p, t) ==
    LET rec == thread[<<p, t>>] IN
    /\ "fail" \in Enabled /\ Cardinality(faults) < MaxFaults
    /\ \/ rec.at = "insert" /\ UNCHANGED <<orders, dbPos>>
       \/ /\ rec.at = "insert"
          /\ \E id \in Ids :
               Fresh(id) /\ orders' = [orders EXCEPT ![id] = Row(p, rec.purpose, rec.size)]
          /\ UNCHANGED dbPos
       \/ rec.at \in {"cancel", "upsert", "status"} /\ UNCHANGED <<orders, dbPos>>
       \/ /\ rec.at = "cancel"
          /\ orders' = [orders EXCEPT ![rec.order].status = "canceled"]
          /\ UNCHANGED dbPos
       \/ rec.at = "upsert" /\ FillRow(rec)
       \/ rec.at = "status" /\ StatusRow(rec) /\ UNCHANGED dbPos
    /\ thread' = [thread EXCEPT ![<<p, t>>] = Rejected(rec)]
    /\ reserved' = [reserved EXCEPT ![p] =
          IF rec.at = "insert" /\ rec.purpose = "entry" THEN 0 ELSE @]
    /\ faults' = faults \cup {"fail"}
    /\ UNCHANGED <<positionBase, poolCash, open, remaining, horizon, entryBlocked,
                   engine, market>>

(* openOrdersForVenue: the newest open or partial row of a pair.             *)
Leftover(p) == {id \in Ids : Working(id) /\ orders[id].pair = p}

(* The hold clock of a position that was replayed.                           *)
ClockLost(pos) == "none"

ClockRestored(pos) == IF pos > 0 THEN "armed" ELSE "none"

(* The process goes down and comes back: restore replays the fill rows, takes *)
(* the leftover orders, and rests a take-profit for a long pair without one.  *)
Restart ==
    LET needs == IF Pooled THEN {}
                 ELSE {p \in Pairs : dbPos[p] > 0 /\ Leftover(p) = {}}
        unused == {id \in Ids : orders[id] = None}
    IN /\ "crash" \in Enabled /\ Cardinality(faults) < MaxFaults
       /\ \E id \in [needs -> unused] :
            /\ \A p, q \in needs : p # q => id[p] # id[q]
            /\ \A p \in needs, k \in unused :
                 k < id[p] => \E q \in needs : id[q] = k
            /\ orders' = [k \in Ids |->
                  IF \E p \in needs : id[p] = k
                  THEN LET p == CHOOSE q \in needs : id[q] = k
                       IN Row(p, "take_profit", dbPos[p])
                  ELSE orders[k]]
            /\ open' = [p \in Pairs |-> IF p \in needs THEN id[p]
                                        ELSE IF Leftover(p) = {} THEN None
                                        ELSE Max(Leftover(p))]
       /\ remaining' = [k \in Ids |-> IF orders'[k] = None THEN 0 ELSE orders'[k].size]
       /\ positionBase' = dbPos
       /\ poolCash' = BANKROLL - (IF Pooled THEN SumOver(dbPos) ELSE 0)
       /\ horizon' = [p \in Pairs |-> ClockRestored(dbPos[p])]
       /\ reserved' = [p \in Pairs |-> 0]
       /\ entryBlocked' = [p \in Pairs |-> FALSE]
       /\ busy' = [p \in Pairs |-> "no"]
       /\ thread' = [x \in Pairs \X Threads |-> Off]
       /\ faults' = faults \cup {"crash"}
       /\ UNCHANGED <<dbPos, intents, market>>

(* The market and the clock.                                                 *)
Ages(p) ==
    /\ Resting(p, {"entry", "exit"}) /\ open[p] \notin aged
    /\ aged' = aged \cup {open[p]}
    /\ UNCHANGED <<orders, dbPos, memory, engine, thread, belowStop, healthy, faults>>

HorizonExpires(p) ==
    /\ horizon[p] = "armed"
    /\ horizon' = [horizon EXCEPT ![p] = "due"]
    /\ UNCHANGED <<orders, dbPos, positionBase, poolCash, open, remaining, reserved,
                   entryBlocked, engine, thread, market, faults>>

MidMoves(p) ==
    /\ "stop" \in Enabled
    /\ belowStop' = [belowStop EXCEPT ![p] = ~@]
    /\ UNCHANGED <<orders, dbPos, memory, engine, thread, aged, healthy, faults>>

FeedChanges(p) ==
    /\ "feed" \in Enabled
    /\ healthy' = [healthy EXCEPT ![p] = ~@]
    /\ UNCHANGED <<orders, dbPos, memory, engine, thread, aged, belowStop, faults>>

-----------------------------------------------------------------------------
Engine(p) == DecideStart(p) \/ Enter(p) \/ Exit(p) \/ DecideHold(p)

Ticks(p) == TickStart(p) \/ Guard(p) \/ Order(p) \/ OnPrint(p) \/ PrintsEnd(p)
                \/ Late(p) \/ Horizon(p)

Answers(p, t) == InsertDone(p, t) \/ CancelDone(p, t) \/ UpsertDone(p, t) \/ StatusDone(p, t)

Market(p) == Ages(p) \/ HorizonExpires(p) \/ MidMoves(p) \/ FeedChanges(p)

Next ==
    \/ \E p \in Pairs : Engine(p) \/ Ticks(p) \/ Market(p)
    \/ \E p \in Pairs, t \in Threads : Answers(p, t) \/ Fail(p, t)
    \/ Restart

Spec == Init /\ [][Next]_vars

(* The interval timer goes on, the store answers, the clock advances.        *)
Fairness ==
    \A p \in Pairs :
        /\ WF_vars(Ticks(p))
        /\ \A t \in Threads : WF_vars(Answers(p, t))
        /\ WF_vars(Ages(p)) /\ WF_vars(HorizonExpires(p))

FairSpec == Spec /\ Fairness

-----------------------------------------------------------------------------
(* Types: every row, order, chain and flag is one the code can write.        *)
Chain == [at: {"off", "guard1", "order", "prints", "late", "guard2", "horizon",
               "insert", "cancel", "upsert", "status"},
          order: Ids \cup {None}, size: Nat, purpose: Purposes \cup {"none"},
          next: {"none", "rest", "fill", "flatten", "exit", "drop"},
          ret: {"off", "guard1", "order", "prints", "guard2", "horizon"},
          done: BOOLEAN, slipped: BOOLEAN]

RowsOK == orders \in [Ids -> OrderRow \cup {None}] /\ dbPos \in [Pairs -> Nat]

MemoryOK ==
    /\ positionBase \in [Pairs -> Nat] /\ poolCash \in Int
    /\ open \in [Pairs -> Ids \cup {None}] /\ remaining \in [Ids -> Nat]
    /\ reserved \in [Pairs -> Nat] /\ entryBlocked \in [Pairs -> BOOLEAN]
    /\ horizon \in [Pairs -> {"none", "armed", "due"}]

OthersOK ==
    /\ busy \in [Pairs -> {"no", "flat", "long"}] /\ intents \in Nat
    /\ faults \subseteq {"crash", "fail"}
    /\ aged \subseteq Ids
    /\ belowStop \in [Pairs -> BOOLEAN] /\ healthy \in [Pairs -> BOOLEAN]

TypeOK == RowsOK /\ MemoryOK /\ OthersOK /\ thread \in [Pairs \X Threads -> Chain]

(* No chain of a pair is under way, and no tick is past its start.           *)
Quiet(p) == \A t \in Threads : thread[<<p, t>>].at = "off"

(* An order never gets more fill rows than its size, whoever fills it and     *)
(* however its fills and cancels overlap and store calls fail.  (A crash       *)
(* between a fill row and its order row repeats the fill.)                   *)
NoOverfill ==
    "crash" \notin faults =>
        \A id \in Ids : orders[id] # None => orders[id].filled <= orders[id].placed

(* A long pair at rest is on its way out: its horizon is still to come, or    *)
(* an order that sells it is in the slot.  A crash does not change that; a    *)
(* store call that fails half way may.                                      *)
LongsHaveAWayOut ==
    "fail" \notin faults => \A p \in Pairs : Quiet(p) /\ Long(p) =>
        horizon[p] # "none" \/ Resting(p, {"exit", "stop", "take_profit"})

(* At rest, replaying the fill rows gives the position held in memory, after  *)
(* a restart too.                                                           *)
LedgerIsPosition ==
    "fail" \notin faults => \A p \in Pairs : Quiet(p) => dbPos[p] = positionBase[p]

(* What the fill rows of each order took from the cash or brought to it.     *)
Moved ==
    [id \in Ids |->
        IF orders[id] = None THEN 0
        ELSE IF orders[id].purpose = "entry" THEN -orders[id].filled ELSE orders[id].filled]

(* At rest the cash of the pooled ledger is what the fill rows paid and got,   *)
(* even when two flattens sold one position twice.  (A restart replays the     *)
(* rows through Accounting.apply, which pays only for what was held.)         *)
CashFollowsTheRows ==
    Pooled /\ faults = {} /\ (\A p \in Pairs : Quiet(p)) =>
        poolCash = BANKROLL + MapThenSumSet(LAMBDA id : Moved[id], Ids)

(* The pool's free cash and the lots it holds are the book it started with.   *)
PoolConserves == Pooled => poolCash + SumOver(positionBase) = BANKROLL

(* Open longs, resting entries and reservations stay under the cap.          *)
GrossWithinCap ==
    SumOver([p \in Pairs |->
        positionBase[p] + reserved[p]
          + (IF Resting(p, {"entry"}) THEN remaining[open[p]] ELSE 0)]) <= MAX_GROSS

(* A pair has one working order.                                             *)
OneOrderInFlight == \A p \in Pairs : Cardinality(Leftover(p)) <= 1

(* A long whose horizon is over is closed, unless a store call fails.        *)
LongsAreClosed ==
    \A p \in Pairs :
        (Long(p) /\ horizon[p] = "due") ~> (~Long(p) \/ "fail" \in faults)

(* A long below its stop is closed, or the mid comes back.                   *)
StopFlattens ==
    \A p \in Pairs : (Long(p) /\ belowStop[p]) ~> (~Long(p) \/ ~belowStop[p])

=============================================================================
