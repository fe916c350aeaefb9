------------------------- MODULE PaperBrokerProofs -------------------------
(***************************************************************************)
(* Theorems about PaperBroker, for every set of pairs and of intent chains,   *)
(* every size, bound and set of events: first the orders, then what the books *)
(* say of each other, the fill rows of the position in memory and of the       *)
(* pool's cash, and last the way out that every long at rest has.            *)
(***************************************************************************)
EXTENDS PaperBroker, FoldLemmas, TLAPS

USE DEF market, memory, engine

-----------------------------------------------------------------------------
(* The inductive invariant, in parts.                                        *)

(* An order a pair's chain or slot refers to is in the table, for that pair. *)
IsOrderOf(id, p, rows) == id \in Ids /\ rows[id] # None /\ rows[id].pair = p

SlotsRefer == \A p \in Pairs : open[p] # None => IsOrderOf(open[p], p, orders)

(* What a chain that awaits the store will need when the store answers.      *)
Prepared(p, rec, rows) ==
    /\ rec \in Chain
    /\ (rec.at \in {"prints", "late", "cancel", "upsert", "status"} \/ rec.ret = "prints")
           => IsOrderOf(rec.order, p, rows)
    /\ rec.at = "insert" => rec.purpose \in Purposes
    /\ rec.at = "cancel" => /\ rec.ret # "prints"
                            /\ rec.next \in {"drop", "flatten", "exit"}
                            /\ rec.next = "flatten" => rec.purpose \in Purposes

ChainsPrepared == \A p \in Pairs, t \in Threads : Prepared(p, thread[<<p, t>>], orders)

(* What has filled, what may still fill, and a fill under way are within what *)
(* the order was placed for.                                                 *)
RowsFit ==
    \A id \in Ids : orders[id] # None =>
        orders[id].filled + remaining[id] <= orders[id].placed

Filling(p, t, id) == thread[<<p, t>>].at = "upsert" /\ thread[<<p, t>>].order = id

FillsFit ==
    \A p \in Pairs, t \in Threads, id \in Ids : Filling(p, t, id) =>
        orders[id].filled + thread[<<p, t>>].size + remaining[id] <= orders[id].placed

(* An intent's chain fills only the order it inserted, and all of it.        *)
IntentsFillWhole ==
    \A p \in Pairs, t \in Slots, id \in Ids : Filling(p, t, id) => remaining[id] = 0

(* Two chains that fill one order: one of the fills is empty.                *)
FillsExclude ==
    \A p \in Pairs, t, u \in Threads, id \in Ids :
        t # u /\ Filling(p, t, id) /\ Filling(p, u, id)
            => thread[<<p, t>>].size = 0 \/ thread[<<p, u>>].size = 0

References == SlotsRefer /\ ChainsPrepared

(* Nothing remains of a row that is not there.                               *)
UnusedEmpty == \A id \in Ids : orders[id] = None => remaining[id] = 0

Sizes == RowsFit /\ FillsFit /\ IntentsFillWhole /\ FillsExclude

Inv == TypeOK /\ References /\ UnusedEmpty

(* A crash may take a fill row from its order row, and the order fills again;  *)
(* every other step keeps the sizes as well.                                 *)
BrokerInv == Inv /\ ("crash" \in faults \/ Sizes)

Kept == Inv' /\ (Sizes => Sizes')

-----------------------------------------------------------------------------
(* Chains.                                                                   *)

LEMMA OffPrepared ==
    ASSUME NEW p \in Pairs,
           NEW phase \in {"off", "guard1", "order", "guard2", "horizon"}
    PROVE  Prepared(p, At(phase), orders) /\ At(phase).at = phase
BY DEF Prepared, At, Off, Chain

LEMMA SellAllPrepared ==
    ASSUME TypeOK, NEW p \in Pairs, NEW purpose \in Purposes, NEW next \in {"rest", "fill"},
           NEW ret \in {"off", "guard1", "order", "guard2", "horizon"}
    PROVE  /\ Prepared(p, SellAll(p, purpose, next, ret), orders)
           /\ SellAll(p, purpose, next, ret).at # "upsert"
<1>1. positionBase[p] \in Nat
    BY DEF TypeOK, MemoryOK
<1> QED
    BY <1>1 DEF SellAll, AwaitInsert, Prepared, At, Off, Chain

LEMMA CancelPrepared ==
    ASSUME References, NEW p \in Pairs, open[p] # None,
           NEW next \in {"drop", "flatten", "exit"},
           NEW ret \in {"off", "guard1", "order", "guard2", "horizon"},
           NEW purpose \in Purposes \cup {"none"}, next = "flatten" => purpose \in Purposes
    PROVE  /\ Prepared(p, [AwaitCancel(open[p], next, ret) EXCEPT
                             !.purpose = purpose], orders)
           /\ [AwaitCancel(open[p], next, ret) EXCEPT !.purpose = purpose].at # "upsert"
<1>1. IsOrderOf(open[p], p, orders)
    BY DEF References, SlotsRefer
<1>2. open[p] \in Ids
    BY <1>1 DEF IsOrderOf
<1> QED
    BY <1>1, <1>2 DEF AwaitCancel, Prepared, Off, Chain

LEMMA DropPrepared ==
    ASSUME References, NEW p \in Pairs, NEW id, IsOrderOf(id, p, orders),
           NEW ret \in {"off", "guard1", "order", "guard2", "horizon"}
    PROVE  /\ Prepared(p, AwaitCancel(id, "drop", ret), orders)
           /\ AwaitCancel(id, "drop", ret).at # "upsert"
<1>1. id \in Ids
    BY DEF IsOrderOf
<1> QED
    BY <1>1 DEF AwaitCancel, Prepared, Off, Chain

(* A taker's flatten, an exit in place of a take-profit, and a one-sided book. *)
LEMMA FlattenPrepared ==
    ASSUME TypeOK, References, NEW p \in Pairs, NEW purpose \in Purposes,
           NEW ret \in {"off", "guard1", "order", "guard2", "horizon"},
           NEW rec \in OrNoPrice(TakerFlatten(p, purpose, ret), ret)
    PROVE  Prepared(p, rec, orders) /\ rec.at # "upsert"
<1>1. CASE rec = At(ret)
    BY <1>1, OffPrepared
<1>2. CASE rec = SellAll(p, purpose, "fill", ret)
    BY <1>2, SellAllPrepared
<1>3. CASE /\ open[p] # None
           /\ rec = [AwaitCancel(open[p], "flatten", ret) EXCEPT !.purpose = purpose]
    BY <1>3, CancelPrepared
<1> QED
    BY <1>1, <1>2, <1>3 DEF OrNoPrice, TakerFlatten

LEMMA ReplacePrepared ==
    ASSUME TypeOK, References, NEW p \in Pairs,
           NEW ret \in {"off", "guard1", "order", "guard2", "horizon"},
           NEW rec \in OrNoPrice(ReplaceWithExit(p, ret), ret)
    PROVE  Prepared(p, rec, orders) /\ rec.at # "upsert"
<1>0. "exit" \in Purposes
    BY DEF Purposes
<1>1. CASE rec = At(ret)
    BY <1>1, OffPrepared
<1>2. CASE rec = SellAll(p, "exit", "rest", ret)
    BY <1>0, <1>2, SellAllPrepared
<1>3. CASE /\ open[p] # None
           /\ rec = [AwaitCancel(open[p], "exit", ret) EXCEPT !.purpose = "exit"]
    BY <1>0, <1>3, CancelPrepared
<1> QED
    BY <1>1, <1>2, <1>3 DEF OrNoPrice, ReplaceWithExit, Resting

-----------------------------------------------------------------------------
(* What one step does to the references and to the sizes.                    *)

(* Rows stay, for their pair.                                                *)
RowsStay == \A id \in Ids : orders[id] # None =>
                orders'[id] # None /\ orders'[id].pair = orders[id].pair

LEMMA OrdersStay ==
    ASSUME RowsStay, NEW p \in Pairs, NEW id, IsOrderOf(id, p, orders)
    PROVE  IsOrderOf(id, p, orders')
BY DEF RowsStay, IsOrderOf

LEMMA PreparedStays ==
    ASSUME RowsStay, NEW p \in Pairs, NEW rec, Prepared(p, rec, orders)
    PROVE  Prepared(p, rec, orders')
BY OrdersStay DEF Prepared, Chain

LEMMA ReferencesKept ==
    ASSUME Inv, RowsStay, NEW p \in Pairs, NEW t \in Threads, NEW rec,
           Prepared(p, rec, orders'),
           thread' = [thread EXCEPT ![<<p, t>>] = rec], SlotsRefer'
    PROVE  References' /\ thread' \in [Pairs \X Threads -> Chain]
<1>1. thread \in [Pairs \X Threads -> Chain]
    BY DEF Inv, TypeOK
<1>2. rec \in Chain
    BY DEF Prepared, Chain
<1>3. thread' \in [Pairs \X Threads -> Chain]
    BY <1>1, <1>2
<1>4. ASSUME NEW q \in Pairs, NEW u \in Threads
      PROVE  Prepared(q, thread'[<<q, u>>], orders')
    <2>1. CASE q = p /\ u = t
        BY <1>1, <2>1
    <2>2. CASE ~(q = p /\ u = t)
        <3>1. thread'[<<q, u>>] = thread[<<q, u>>]
            BY <1>1, <2>2
        <3>2. Prepared(q, thread[<<q, u>>], orders)
            BY DEF Inv, References, ChainsPrepared
        <3> QED
            BY <3>1, <3>2, PreparedStays
    <2> QED
        BY <2>1, <2>2
<1> QED
    BY <1>3, <1>4 DEF References, ChainsPrepared

(* The sizes after a step in which nothing is filled.                        *)
LEMMA SizesKept ==
    ASSUME Inv, Sizes, RowsStay, NEW p \in Pairs, NEW t \in Threads, NEW rec \in Chain,
           rec.at # "upsert", thread' = [thread EXCEPT ![<<p, t>>] = rec],
           \A id \in Ids : orders[id] # None =>
               /\ remaining'[id] = remaining[id]
               /\ orders'[id].filled = orders[id].filled
               /\ orders'[id].placed = orders[id].placed,
           \A id \in Ids : orders[id] = None =>
               IF orders'[id] = None THEN remaining'[id] = 0
               ELSE orders'[id].filled + remaining'[id] <= orders'[id].placed
    PROVE  Sizes'
<1>1. ASSUME NEW q \in Pairs, NEW u \in Threads, NEW id \in Ids, Filling(q, u, id)'
      PROVE  /\ Filling(q, u, id) /\ thread'[<<q, u>>] = thread[<<q, u>>]
             /\ orders[id] # None
    <2>1. thread'[<<q, u>>] = thread[<<q, u>>]
        BY <1>1 DEF Inv, TypeOK, Filling
    <2>2. Prepared(q, thread[<<q, u>>], orders)
        BY DEF Inv, References, ChainsPrepared
    <2> QED
        BY <1>1, <2>1, <2>2 DEF Filling, Prepared, IsOrderOf
<1>2. RowsFit'
    BY DEF Inv, Sizes, RowsFit, RowsStay
<1>3. FillsFit'
    BY <1>1 DEF Inv, Sizes, FillsFit
<1>4. IntentsFillWhole'
    BY <1>1 DEF Inv, Sizes, IntentsFillWhole, Threads
<1>5. FillsExclude'
    BY <1>1 DEF Inv, Sizes, FillsExclude
<1> QED
    BY <1>2, <1>3, <1>4, <1>5 DEF Sizes

(* The tick fills part of what is left of an order of its pair.              *)
LEMMA TickFillKeepsSizes ==
    ASSUME Inv, Sizes, NEW p \in Pairs, NEW id \in Ids, IsOrderOf(id, p, orders),
           NEW size \in Nat, size <= remaining[id],
           thread[<<p, "tick">>].at # "upsert",
           NEW rec \in Chain, rec.at = "upsert", rec.order = id, rec.size = size,
           thread' = [thread EXCEPT ![<<p, "tick">>] = rec],
           remaining' = [remaining EXCEPT ![id] = remaining[id] - size],
           orders' = orders
    PROVE  Sizes'
<1>0. /\ remaining \in [Ids -> Nat] /\ "tick" \in Threads
      /\ thread \in [Pairs \X Threads -> Chain]
    BY DEF Inv, TypeOK, MemoryOK, Threads
<1>1. ASSUME NEW q \in Pairs, NEW u \in Threads, NEW k \in Ids, Filling(q, u, k)'
      PROVE  \/ q = p /\ u = "tick" /\ k = id /\ thread'[<<q, u>>].size = size
             \/ /\ Filling(q, u, k) /\ ~(q = p /\ u = "tick")
                /\ thread'[<<q, u>>] = thread[<<q, u>>]
                /\ IsOrderOf(k, q, orders)
    <2>1. CASE q = p /\ u = "tick"
        BY <1>0, <1>1, <2>1 DEF Filling
    <2>2. CASE ~(q = p /\ u = "tick")
        <3>1. thread'[<<q, u>>] = thread[<<q, u>>]
            BY <1>0, <2>2
        <3>2. Prepared(q, thread[<<q, u>>], orders)
            BY DEF Inv, References, ChainsPrepared
        <3> QED
            BY <1>1, <2>2, <3>1, <3>2 DEF Filling, Prepared
    <2> QED
        BY <2>1, <2>2
(* Another chain that fills it is an intent's, and nothing is left to fill.  *)
<1>2. ASSUME NEW q \in Pairs, NEW u \in Threads, Filling(q, u, id),
             ~(q = p /\ u = "tick"), IsOrderOf(id, q, orders)
      PROVE  size = 0
    <2>1. q = p /\ u \in Slots
        BY <1>2 DEF IsOrderOf, Threads
    <2>2. remaining[id] = 0
        BY <1>2, <2>1 DEF Inv, Sizes, IntentsFillWhole
    <2> QED
        BY <2>2
<1>3. RowsFit'
    <2>1. \A k \in Ids : orders[k] # None => orders[k] \in OrderRow
        BY DEF Inv, TypeOK, RowsOK
    <2> QED
        BY <1>0, <2>1 DEF Inv, Sizes, RowsFit, OrderRow
<1>4. FillsFit'
    <2>1. ASSUME NEW q \in Pairs, NEW u \in Threads, NEW k \in Ids, Filling(q, u, k)'
          PROVE  orders[k].filled + thread'[<<q, u>>].size + remaining'[k] <= orders[k].placed
        <3>0. IsOrderOf(k, q, orders)
            BY <1>1, <2>1
        <3>1. orders[k] \in OrderRow
            BY <3>0 DEF IsOrderOf, Inv, TypeOK, RowsOK
        <3>2. CASE q = p /\ u = "tick" /\ k = id /\ thread'[<<q, u>>].size = size
            <4>1. orders[id].filled + remaining[id] <= orders[id].placed
                BY DEF Inv, Sizes, RowsFit, IsOrderOf
            <4> QED
                BY <1>0, <3>1, <3>2, <4>1 DEF OrderRow
        <3>3. CASE /\ Filling(q, u, k) /\ thread'[<<q, u>>] = thread[<<q, u>>]
            <4>1. orders[k].filled + thread[<<q, u>>].size + remaining[k] <= orders[k].placed
                BY <3>3 DEF Inv, Sizes, FillsFit
            <4>2. thread[<<q, u>>].size \in Nat
                BY <1>0 DEF Chain
            <4> QED
                BY <1>0, <3>1, <3>3, <4>1, <4>2 DEF OrderRow
        <3> QED
            BY <1>1, <2>1, <3>2, <3>3
    <2> QED
        BY <2>1 DEF FillsFit
<1>5. IntentsFillWhole'
    <2>1. ASSUME NEW q \in Pairs, NEW u \in Slots, NEW k \in Ids, Filling(q, u, k)'
          PROVE  remaining'[k] = 0
        <3>1. Filling(q, u, k)
            BY <1>1, <2>1, NamesAssumption DEF Threads
        <3>2. remaining[k] = 0
            BY <3>1 DEF Inv, Sizes, IntentsFillWhole
        <3> QED
            BY <1>0, <3>2
    <2> QED
        BY <2>1 DEF IntentsFillWhole
<1>6. FillsExclude'
    <2>1. ASSUME NEW q \in Pairs, NEW u \in Threads, NEW w \in Threads, NEW k \in Ids,
                 u # w, Filling(q, u, k)', Filling(q, w, k)'
          PROVE  thread'[<<q, u>>].size = 0 \/ thread'[<<q, w>>].size = 0
        <3>1. CASE q = p /\ u = "tick"
            BY <1>1, <1>2, <2>1, <3>1
        <3>2. CASE q = p /\ w = "tick"
            BY <1>1, <1>2, <2>1, <3>2
        <3>3. CASE ~(q = p /\ u = "tick") /\ ~(q = p /\ w = "tick")
            BY <1>1, <2>1, <3>3 DEF Inv, Sizes, FillsExclude
        <3> QED
            BY <3>1, <3>2, <3>3
    <2> QED
        BY <2>1 DEF FillsExclude
<1> QED
    BY <1>3, <1>4, <1>5, <1>6 DEF Sizes

(* A taker fills the order it has just placed, all at once.                  *)
LEMMA TakerFillKeepsSizes ==
    ASSUME Inv, Sizes, RowsStay, NEW p \in Pairs, NEW t \in Threads, NEW id \in Ids,
           orders[id] = None, NEW row \in OrderRow, row.filled = 0,
           thread[<<p, t>>].at # "upsert",
           NEW rec \in Chain, rec.at = "upsert", rec.order = id, rec.size = row.placed,
           thread' = [thread EXCEPT ![<<p, t>>] = rec],
           remaining' = [remaining EXCEPT ![id] = 0],
           orders' = [orders EXCEPT ![id] = row]
    PROVE  Sizes'
<1>0. /\ remaining \in [Ids -> Nat] /\ orders \in [Ids -> OrderRow \cup {None}]
      /\ thread \in [Pairs \X Threads -> Chain]
    BY DEF Inv, TypeOK, MemoryOK, RowsOK
<1>1. ASSUME NEW q \in Pairs, NEW u \in Threads, NEW k \in Ids, Filling(q, u, k)'
      PROVE  \/ q = p /\ u = t /\ k = id /\ thread'[<<q, u>>] = rec
             \/ /\ Filling(q, u, k) /\ k # id
                /\ thread'[<<q, u>>] = thread[<<q, u>>]
    <2>1. CASE q = p /\ u = t
        BY <1>0, <1>1, <2>1 DEF Filling
    <2>2. CASE ~(q = p /\ u = t)
        <3>1. thread'[<<q, u>>] = thread[<<q, u>>]
            BY <1>0, <2>2
        <3>2. Prepared(q, thread[<<q, u>>], orders)
            BY DEF Inv, References, ChainsPrepared
        <3> QED
            BY <1>1, <2>2, <3>1, <3>2 DEF Filling, Prepared, IsOrderOf
    <2> QED
        BY <2>1, <2>2
<1>2. RowsFit'
    BY <1>0 DEF Inv, Sizes, RowsFit, OrderRow
<1>3. FillsFit'
    BY <1>0, <1>1 DEF Inv, Sizes, FillsFit, OrderRow
<1>4. IntentsFillWhole'
    <2>1. ASSUME NEW q \in Pairs, NEW u \in Slots, NEW k \in Ids, Filling(q, u, k)'
          PROVE  remaining'[k] = 0
        <3>1. k = id \/ (Filling(q, u, k) /\ k # id)
            BY <1>1, <2>1 DEF Threads
        <3> QED
            BY <1>0, <3>1 DEF Inv, Sizes, IntentsFillWhole
    <2> QED
        BY <2>1 DEF IntentsFillWhole
<1>5. FillsExclude'
    BY <1>1 DEF Inv, Sizes, FillsExclude
<1> QED
    BY <1>2, <1>3, <1>4, <1>5 DEF Sizes

(* The fill row has landed: its size moves from the chain to the row, or is    *)
(* in the row while the chain is gone.                                       *)
LEMMA FillRowKeepsSizes ==
    ASSUME Inv, Sizes, NEW p \in Pairs, NEW t \in Threads, NEW id \in Ids, Filling(p, t, id),
           NEW rec \in Chain, rec.at # "upsert",
           thread' = [thread EXCEPT ![<<p, t>>] = rec],
           orders' = [orders EXCEPT ![id].filled = @ + thread[<<p, t>>].size],
           remaining' = remaining
    PROVE  Sizes'
<1>0. /\ remaining \in [Ids -> Nat] /\ orders \in [Ids -> OrderRow \cup {None}]
      /\ thread \in [Pairs \X Threads -> Chain]
    BY DEF Inv, TypeOK, MemoryOK, RowsOK
<1>1. ASSUME NEW q \in Pairs, NEW u \in Threads, NEW k \in Ids, Filling(q, u, k)'
      PROVE  /\ Filling(q, u, k) /\ thread'[<<q, u>>] = thread[<<q, u>>]
             /\ ~(q = p /\ u = t) /\ IsOrderOf(k, q, orders)
    <2>1. ~(q = p /\ u = t) /\ thread'[<<q, u>>] = thread[<<q, u>>]
        BY <1>0, <1>1 DEF Filling
    <2>2. Prepared(q, thread[<<q, u>>], orders)
        BY DEF Inv, References, ChainsPrepared
    <2> QED
        BY <1>1, <2>1, <2>2 DEF Filling, Prepared
<1>2. IsOrderOf(id, p, orders) /\ orders[id] \in OrderRow
    <2>1. Prepared(p, thread[<<p, t>>], orders)
        BY DEF Inv, References, ChainsPrepared
    <2> QED
        BY <1>0, <2>1 DEF Filling, Prepared, IsOrderOf
<1>3. orders'[id].filled + remaining[id] <= orders'[id].placed
    BY <1>0, <1>2 DEF Inv, Sizes, FillsFit, OrderRow
<1>4. \A k \in Ids \ {id} : orders'[k] = orders[k]
    BY <1>0
<1>5. RowsFit'
    <2>1. orders[id] # None
        BY <1>2 DEF IsOrderOf
    <2>0. thread[<<p, t>>].size \in Nat
        BY <1>0 DEF Chain
    <2>2. orders'[id] # None
        <3> DEFINE row == [orders[id] EXCEPT !.filled = @ + thread[<<p, t>>].size]
        <3>1. row \in OrderRow
            BY <1>2, <2>0 DEF OrderRow
        <3>2. orders' = [orders EXCEPT ![id] = row]
            OBVIOUS
        <3> HIDE DEF row
        <3> QED
            BY <1>0, <3>1, <3>2, NamesAssumption
    <2>3. ASSUME NEW k \in Ids
          PROVE  orders'[k] # None => orders'[k].filled + remaining'[k] <= orders'[k].placed
        <3>1. CASE k = id
            BY <1>3, <2>2, <3>1
        <3>2. CASE k # id
            BY <1>4, <3>2 DEF Inv, Sizes, RowsFit
        <3> QED
            BY <3>1, <3>2
    <2> QED
        BY <2>3 DEF RowsFit
<1>6. FillsFit'
    <2>1. ASSUME NEW q \in Pairs, NEW u \in Threads, NEW k \in Ids, Filling(q, u, k)'
          PROVE  orders'[k].filled + thread'[<<q, u>>].size + remaining'[k]
                     <= orders'[k].placed
        <3>1. orders[k].filled + thread[<<q, u>>].size + remaining[k] <= orders[k].placed
            BY <1>1, <2>1 DEF Inv, Sizes, FillsFit
        <3>2. CASE k # id
            BY <1>1, <1>4, <2>1, <3>1, <3>2
        <3>3. CASE k = id
            <4>0. IsOrderOf(id, q, orders) /\ ~(q = p /\ u = t)
                BY <1>1, <2>1, <3>3
            <4>1. q = p /\ u # t
                BY <1>2, <4>0 DEF IsOrderOf
            <4>2. thread[<<p, t>>].size = 0 \/ thread[<<q, u>>].size = 0
                BY <1>1, <2>1, <3>3, <4>1 DEF Inv, Sizes, FillsExclude
            <4>3. thread[<<p, t>>].size \in Nat /\ thread[<<q, u>>].size \in Nat
                BY <1>0 DEF Chain
            <4>4. orders'[id].placed = orders[id].placed
                BY <1>0, <1>2 DEF OrderRow
            <4>5. orders'[id].filled = orders[id].filled + thread[<<p, t>>].size
                BY <1>0, <1>2 DEF OrderRow
            <4>6. /\ orders[id].filled \in Nat /\ orders[id].placed \in Nat
                  /\ remaining[id] \in Nat
                BY <1>0, <1>2 DEF OrderRow
            <4> QED
                BY <1>1, <1>3, <2>1, <3>1, <3>3, <4>2, <4>3, <4>4, <4>5, <4>6
        <3> QED
            BY <3>2, <3>3
    <2> QED
        BY <2>1 DEF FillsFit
<1>7. IntentsFillWhole'
    BY <1>1 DEF Inv, Sizes, IntentsFillWhole, Threads
<1>8. FillsExclude'
    BY <1>1 DEF Inv, Sizes, FillsExclude
<1> QED
    BY <1>5, <1>6, <1>7, <1>8 DEF Sizes

-----------------------------------------------------------------------------
(* The invariant holds at first, and no step of a process that stays up      *)
(* breaks it.                                                                *)

LEMMA InitInv == Init => BrokerInv
<1> SUFFICES ASSUME Init PROVE Inv /\ Sizes
    BY DEF BrokerInv
<1>1. Off \in Chain /\ Off.at = "off" /\ Off.ret = "off"
    BY DEF Off, Chain
<1>2. thread = [x \in Pairs \X Threads |-> Off]
    BY DEF Init
<1>3. \A p \in Pairs, t \in Threads : thread[<<p, t>>] = Off
    BY <1>2
<1>4. RowsOK /\ MemoryOK /\ OthersOK /\ thread \in [Pairs \X Threads -> Chain]
    BY <1>1, <1>2, SizesAssumption DEF Init, RowsOK, MemoryOK, OthersOK
<1>5. References
    BY <1>1, <1>3 DEF Init, References, SlotsRefer, ChainsPrepared, Prepared
<1>6. Sizes
    <2>1. \A id \in Ids : orders[id] = None /\ remaining[id] = 0
        BY DEF Init
    <2>2. \A p \in Pairs, t \in Threads, id \in Ids : ~Filling(p, t, id)
        BY <1>1, <1>3 DEF Filling
    <2> QED
        BY <2>1, <2>2 DEF Sizes, RowsFit, FillsFit, IntentsFillWhole, FillsExclude, Threads
<1>7. UnusedEmpty
    BY DEF Init, UnusedEmpty
<1> QED
    BY <1>4, <1>5, <1>6, <1>7 DEF Inv, TypeOK

(* A step that leaves the rows, the slots, the chains and what remains alone. *)
LEMMA NothingMoves ==
    ASSUME Inv, UNCHANGED <<orders, dbPos, thread, open, remaining>>,
           MemoryOK', OthersOK'
    PROVE  Kept
<1>1. TypeOK'
    BY DEF Inv, TypeOK, RowsOK
<1>2. References'
    BY DEF Inv, References, SlotsRefer, ChainsPrepared
<1>3. Sizes => Sizes'
    BY DEF Sizes, RowsFit, FillsFit, IntentsFillWhole, FillsExclude, Filling
<1>4. UnusedEmpty'
    BY DEF Inv, UnusedEmpty
<1> QED
    BY <1>1, <1>2, <1>3, <1>4 DEF Inv, Kept

(* A step of one chain that fills nothing and writes no row.                 *)
LEMMA ChainMoves ==
    ASSUME Inv, NEW p \in Pairs, NEW t \in Threads, NEW rec,
           Prepared(p, rec, orders), rec.at # "upsert",
           thread' = [thread EXCEPT ![<<p, t>>] = rec],
           UNCHANGED <<orders, dbPos, open, remaining>>, MemoryOK', OthersOK'
    PROVE  Kept
<1>1. RowsStay /\ SlotsRefer' /\ rec \in Chain
    BY DEF RowsStay, Inv, References, SlotsRefer, Prepared
<1>2. References' /\ thread' \in [Pairs \X Threads -> Chain]
    BY <1>1, ReferencesKept
<1>3. \A id \in Ids : orders[id] = None => remaining'[id] = 0
    BY DEF Inv, UnusedEmpty
<1>4. ASSUME Sizes PROVE Sizes'
    BY <1>1, <1>3, <1>4, SizesKept
<1>5. UnusedEmpty'
    BY <1>3 DEF UnusedEmpty
<1> QED
    BY <1>2, <1>4, <1>5 DEF Inv, Kept, TypeOK, RowsOK

LEMMA EngineInv ==
    ASSUME Inv, NEW p \in Pairs, Engine(p)
    PROVE  Kept
<1>0. TypeOK /\ References
    BY DEF Inv
<1>1. CASE DecideStart(p)
    <2>1. MemoryOK' /\ OthersOK'
        BY <1>0, <1>1 DEF TypeOK, MemoryOK, OthersOK, DecideStart
    <2> QED
        BY <1>1, <2>1, NothingMoves DEF DecideStart
<1>2. CASE Enter(p)
    <2>1. PICK usd \in 1 .. Lot, t \in Slots :
              /\ thread' = [thread EXCEPT
                               ![<<p, t>>] = AwaitInsert("entry", usd, "rest", "off")]
              /\ reserved' = [reserved EXCEPT ![p] = usd]
        BY <1>2 DEF Enter
    <2>2. usd \in Nat /\ t \in Threads
        BY SizesAssumption DEF Threads
    <2>3. MemoryOK' /\ OthersOK'
        BY <1>0, <1>2, <2>1, <2>2 DEF TypeOK, MemoryOK, OthersOK, Enter
    <2>4. /\ Prepared(p, AwaitInsert("entry", usd, "rest", "off"), orders)
          /\ AwaitInsert("entry", usd, "rest", "off").at # "upsert"
        BY <2>2 DEF AwaitInsert, Prepared, Off, Chain, Purposes
    <2>5. UNCHANGED <<orders, dbPos, open, remaining>>
        BY <1>2 DEF Enter
    <2> QED
        BY <2>1, <2>2, <2>3, <2>4, <2>5, ChainMoves
<1>3. CASE Exit(p)
    <2> DEFINE Flatten(q) == IF Pooled THEN TakerFlatten(q, "exit", "off")
                                    ELSE ReplaceWithExit(q, "off")
    <2>0. PICK q \in Pairs, t \in Slots :
              \E rec \in OrNoPrice(Flatten(q), "off") :
                  thread' = [thread EXCEPT ![<<q, t>>] = rec]
        BY <1>3 DEF Exit
    <2>1. PICK rec \in OrNoPrice(Flatten(q), "off") :
              thread' = [thread EXCEPT ![<<q, t>>] = rec]
        BY <2>0
    <2>2. t \in Threads /\ "exit" \in Purposes
        BY DEF Threads, Purposes
    <2>3. MemoryOK' /\ OthersOK'
        BY <1>0, <1>3 DEF TypeOK, MemoryOK, OthersOK, Exit
    <2>4. Prepared(q, rec, orders) /\ rec.at # "upsert"
        BY <1>0, <2>1, <2>2, FlattenPrepared, ReplacePrepared
    <2>5. UNCHANGED <<orders, dbPos, open, remaining>>
        BY <1>3 DEF Exit
    <2> QED
        BY <2>1, <2>2, <2>3, <2>4, <2>5, ChainMoves
<1>4. CASE DecideHold(p)
    <2>1. MemoryOK' /\ OthersOK'
        BY <1>0, <1>4 DEF TypeOK, MemoryOK, OthersOK, DecideHold
    <2> QED
        BY <1>4, <2>1, NothingMoves DEF DecideHold
<1> QED
    BY <1>1, <1>2, <1>3, <1>4 DEF Engine

LEMMA MarketInv ==
    ASSUME Inv, NEW p \in Pairs, Market(p)
    PROVE  Kept
<1>1. CASE Ages(p)
    <2>1. open[p] \in Ids
        BY <1>1 DEF Ages, Resting, Inv, TypeOK, MemoryOK
    <2>2. MemoryOK' /\ OthersOK'
        BY <1>1, <2>1 DEF Inv, TypeOK, MemoryOK, OthersOK, Ages
    <2> QED
        BY <1>1, <2>2, NothingMoves DEF Ages
<1>2. CASE HorizonExpires(p)
    <2>1. MemoryOK' /\ OthersOK'
        BY <1>2 DEF Inv, TypeOK, MemoryOK, OthersOK, HorizonExpires
    <2> QED
        BY <1>2, <2>1, NothingMoves DEF HorizonExpires
<1>3. CASE MidMoves(p)
    <2>1. MemoryOK' /\ OthersOK'
        BY <1>3 DEF Inv, TypeOK, MemoryOK, OthersOK, MidMoves
    <2> QED
        BY <1>3, <2>1, NothingMoves DEF MidMoves
<1>4. CASE FeedChanges(p)
    <2>1. MemoryOK' /\ OthersOK'
        BY <1>4 DEF Inv, TypeOK, MemoryOK, OthersOK, FeedChanges
    <2> QED
        BY <1>4, <2>1, NothingMoves DEF FeedChanges
<1> QED
    BY <1>1, <1>2, <1>3, <1>4 DEF Market

(* A fill by the tick of part of an order of its pair.                       *)
LEMMA TickFillInv ==
    ASSUME Inv, NEW p \in Pairs, NEW id, IsOrderOf(id, p, orders),
           thread[<<p, "tick">>].at # "upsert",
           NEW purpose \in Purposes, NEW size \in Nat, size <= remaining[id],
           NEW slips \in BOOLEAN, NEW ret \in {"prints", "guard2"},
           Fill(p, "tick", id, purpose, remaining[id], size, slips, ret),
           UNCHANGED <<orders, dbPos, open, reserved, horizon, engine, market, faults>>
    PROVE  Kept
<1> DEFINE rec == [Off EXCEPT !.at = "upsert", !.order = id, !.size = size, !.ret = ret,
                              !.done = (remaining[id] - size = 0 \/ slips),
                              !.slipped = slips]
<1>0. id \in Ids /\ remaining[id] \in Nat /\ remaining \in [Ids -> Nat]
    BY DEF IsOrderOf, Inv, TypeOK, MemoryOK
<1>1. /\ thread' = [thread EXCEPT ![<<p, "tick">>] = rec]
      /\ remaining' = [remaining EXCEPT ![id] = remaining[id] - size]
    BY DEF Fill
<1>2. rec \in Chain /\ rec.at = "upsert" /\ rec.order = id /\ rec.size = size
    BY <1>0 DEF Off, Chain
<1>3. Prepared(p, rec, orders)
    BY <1>2 DEF Prepared
<1>4. RowsStay /\ SlotsRefer' /\ Prepared(p, rec, orders') /\ "tick" \in Threads
    BY <1>3 DEF RowsStay, Inv, References, SlotsRefer, Threads
<1>5. MemoryOK'
    <2>1. positionBase \in [Pairs -> Nat] /\ poolCash \in Int
        BY DEF Inv, TypeOK, MemoryOK
    <2>2. Applied(positionBase[p], Side(purpose), size) \in Nat
        BY <2>1 DEF Applied, Smaller
    <2>3. positionBase' \in [Pairs -> Nat]
        BY <2>1, <2>2 DEF Fill
    <2>4. poolCash' \in Int
        BY <2>1 DEF Fill, CashOf
    <2>5. remaining' \in [Ids -> Nat]
        BY <1>0, <1>1
    <2>6. entryBlocked' \in [Pairs -> BOOLEAN]
        BY DEF Fill, Inv, TypeOK, MemoryOK
    <2> QED
        BY <2>3, <2>4, <2>5, <2>6 DEF Inv, TypeOK, MemoryOK
<1>6. OthersOK'
    BY DEF Inv, TypeOK, OthersOK
<1> HIDE DEF rec
<1>7. References' /\ thread' \in [Pairs \X Threads -> Chain]
    BY <1>1, <1>4, ReferencesKept
<1>8. ASSUME Sizes PROVE Sizes'
    BY <1>0, <1>1, <1>2, <1>8, TickFillKeepsSizes
<1>9. UnusedEmpty'
    BY <1>0, <1>1 DEF Inv, UnusedEmpty, IsOrderOf
<1> QED
    BY <1>5, <1>6, <1>7, <1>8, <1>9 DEF Inv, Kept, TypeOK, RowsOK

(* A step of the tick that only moves on.                                    *)
LEMMA GoInv ==
    ASSUME Inv, NEW p \in Pairs, NEW rec, Prepared(p, rec, orders), rec.at # "upsert",
           Go(p, rec), MemoryOK', UNCHANGED <<open, remaining>>
    PROVE  Kept
<1>1. OthersOK' /\ "tick" \in Threads
    BY DEF Inv, TypeOK, OthersOK, Go, Threads
<1> QED
    BY <1>1, ChainMoves DEF Go

(* The order a pair's tick works on.                                         *)
LEMMA TickOrder ==
    ASSUME Inv, NEW p \in Pairs, thread[<<p, "tick">>].at \in {"prints", "late"}
    PROVE  LET id == thread[<<p, "tick">>].order IN
           /\ IsOrderOf(id, p, orders) /\ orders[id].purpose \in Purposes
           /\ remaining[id] \in Nat
<1> DEFINE id == thread[<<p, "tick">>].order
<1>1. Prepared(p, thread[<<p, "tick">>], orders)
    BY DEF Inv, References, ChainsPrepared, Threads
<1>2. IsOrderOf(id, p, orders)
    BY <1>1 DEF Prepared
<1>3. orders[id] \in OrderRow /\ remaining[id] \in Nat
    BY <1>2 DEF IsOrderOf, Inv, TypeOK, RowsOK, MemoryOK
<1> QED
    BY <1>2, <1>3 DEF OrderRow

LEMMA TicksInv ==
    ASSUME Inv, NEW p \in Pairs, Ticks(p)
    PROVE  Kept
<1>0. /\ TypeOK /\ References /\ MemoryOK
      /\ UNCHANGED memory => MemoryOK' /\ UNCHANGED <<open, remaining>>
    BY DEF Inv, TypeOK, MemoryOK
<1>1. CASE TickStart(p)
    <2>1. PICK rec : /\ Go(p, rec) /\ UNCHANGED memory
                     /\ \/ rec = At("guard1")
                        \/ open[p] # None /\ rec = AwaitCancel(open[p], "drop", "guard1")
        BY <1>1 DEF TickStart, Resting
    <2>2. open[p] # None => IsOrderOf(open[p], p, orders)
        BY <1>0 DEF References, SlotsRefer
    <2>3. CASE rec = At("guard1")
        BY <1>0, <2>1, <2>3, OffPrepared, GoInv
    <2>4. CASE open[p] # None /\ rec = AwaitCancel(open[p], "drop", "guard1")
        <3>1. Prepared(p, rec, orders) /\ rec.at # "upsert"
            BY <1>0, <2>2, <2>4, DropPrepared
        <3> QED
            BY <1>0, <2>1, <3>1, GoInv
    <2> QED
        BY <2>1, <2>3, <2>4
<1>2. CASE Guard(p)
    <2>0. PICK next \in {"order", "horizon"} :
              \E rec : /\ Go(p, rec) /\ UNCHANGED memory
                       /\ \/ rec = At(next)
                          \/ rec \in OrNoPrice(TakerFlatten(p, "stop", next), next)
        BY <1>2 DEF Guard
    <2>1. PICK rec : /\ Go(p, rec) /\ UNCHANGED memory
                     /\ \/ rec = At(next)
                        \/ rec \in OrNoPrice(TakerFlatten(p, "stop", next), next)
        BY <2>0
    <2>2. "stop" \in Purposes
        BY DEF Purposes
    <2>3. CASE rec = At(next)
        BY <1>0, <2>1, <2>3, OffPrepared, GoInv
    <2>4. CASE rec \in OrNoPrice(TakerFlatten(p, "stop", next), next)
        <3>1. Prepared(p, rec, orders) /\ rec.at # "upsert"
            BY <1>0, <2>2, <2>4, FlattenPrepared
        <3> QED
            BY <1>0, <2>1, <3>1, GoInv
    <2> QED
        BY <2>1, <2>3, <2>4
<1>3. CASE Order(p)
    <2>1. open[p] # None => IsOrderOf(open[p], p, orders)
        BY <1>0 DEF References, SlotsRefer
    <2>2. CASE open[p] # None /\ Resting(p, {"stop"})
        <3>1. /\ remaining[open[p]] \in Nat /\ "stop" \in Purposes
              /\ remaining[open[p]] <= remaining[open[p]] /\ FALSE \in BOOLEAN
            BY <1>0, <2>1, <2>2 DEF MemoryOK, IsOrderOf, Purposes
        <3>2. /\ Fill(p, "tick", open[p], "stop", remaining[open[p]], remaining[open[p]],
                      FALSE, "guard2")
              /\ UNCHANGED <<orders, dbPos, open, reserved, horizon, engine, market, faults>>
              /\ thread[<<p, "tick">>].at # "upsert"
            BY <1>3, <2>2 DEF Order
        <3> QED
            BY <2>1, <2>2, <3>1, <3>2, TickFillInv
    <2>3. CASE ~(open[p] # None /\ Resting(p, {"stop"}))
        <3>1. PICK rec : /\ Go(p, rec) /\ UNCHANGED memory
                         /\ \/ rec = At("guard2")
                            \/ /\ open[p] # None
                               /\ rec = [At("prints") EXCEPT !.order = open[p]]
            BY <1>3, <2>3 DEF Order
        <3>2. CASE rec = At("guard2")
            BY <1>0, <3>1, <3>2, OffPrepared, GoInv
        <3>3. CASE open[p] # None /\ rec = [At("prints") EXCEPT !.order = open[p]]
            <4>1. Prepared(p, rec, orders) /\ rec.at # "upsert"
                BY <2>1, <3>3 DEF Prepared, At, Off, Chain, IsOrderOf
            <4> QED
                BY <1>0, <3>1, <4>1, GoInv
        <3> QED
            BY <3>1, <3>2, <3>3
    <2> QED
        BY <2>2, <2>3
<1>4. CASE OnPrint(p)
    <2> DEFINE id == thread[<<p, "tick">>].order
    <2>1. /\ IsOrderOf(id, p, orders) /\ orders[id].purpose \in Purposes
          /\ remaining[id] \in Nat
        BY <1>4, TickOrder DEF OnPrint
    <2>2. /\ makerFillSize(remaining[id], PrintSize) \in Nat
          /\ makerFillSize(remaining[id], PrintSize) <= remaining[id]
        BY <2>1, SizesAssumption DEF makerFillSize, Smaller
    <2>3. PICK slips \in BOOLEAN :
              Fill(p, "tick", id, orders[id].purpose, remaining[id],
                   makerFillSize(remaining[id], PrintSize), slips, "prints")
        BY <1>4 DEF OnPrint, Slips
    <2>4. /\ UNCHANGED <<orders, dbPos, open, reserved, horizon, engine, market, faults>>
          /\ thread[<<p, "tick">>].at # "upsert"
        BY <1>4 DEF OnPrint
    <2> HIDE DEF id
    <2> QED
        BY <2>1, <2>2, <2>3, <2>4, TickFillInv
<1>5. CASE PrintsEnd(p)
    <2> DEFINE id == thread[<<p, "tick">>].order
               rec == [At("late") EXCEPT !.order = id]
    <2>1. IsOrderOf(id, p, orders)
        BY <1>5, TickOrder DEF PrintsEnd
    <2>2. Prepared(p, rec, orders) /\ rec.at # "upsert"
        BY <2>1 DEF Prepared, At, Off, Chain, IsOrderOf
    <2>3. Go(p, rec) /\ UNCHANGED memory
        BY <1>5 DEF PrintsEnd
    <2> HIDE DEF rec
    <2> QED
        BY <1>0, <2>2, <2>3, GoInv
<1>6. CASE Late(p)
    <2> DEFINE id == thread[<<p, "tick">>].order
    <2>1. /\ IsOrderOf(id, p, orders) /\ orders[id].purpose \in Purposes
          /\ remaining[id] \in Nat
        BY <1>6, TickOrder DEF Late
    <2>2. CASE Go(p, At("guard2")) /\ UNCHANGED memory
        BY <1>0, <2>2, OffPrepared, GoInv
    <2>3. CASE Go(p, AwaitCancel(id, "drop", "guard2")) /\ UNCHANGED memory
        BY <1>0, <2>1, <2>3, DropPrepared, GoInv
    <2>4. CASE /\ Fill(p, "tick", id, orders[id].purpose, remaining[id], remaining[id],
                       FALSE, "guard2")
               /\ UNCHANGED <<orders, dbPos, open, reserved, horizon, engine, market, faults>>
        <3>1. /\ thread[<<p, "tick">>].at # "upsert"
              /\ remaining[id] <= remaining[id] /\ FALSE \in BOOLEAN
            BY <1>6, <2>1 DEF Late
        <3> HIDE DEF id
        <3> QED
            BY <2>1, <2>4, <3>1, TickFillInv
    <2> QED
        BY <1>6, <2>2, <2>3, <2>4 DEF Late
<1>7. CASE Horizon(p)
    <2>1. CASE Go(p, Off) /\ UNCHANGED memory
        <3>1. Prepared(p, Off, orders) /\ Off.at # "upsert"
            BY DEF Prepared, Off, Chain
        <3> QED
            BY <1>0, <2>1, <3>1, GoInv
    <2>2. CASE /\ horizon' = [horizon EXCEPT ![p] = "none"]
               /\ \E rec \in OrNoPrice(ReplaceWithExit(p, "off"), "off") : Go(p, rec)
               /\ UNCHANGED <<positionBase, poolCash, open, remaining, reserved, entryBlocked>>
        <3>1. PICK rec \in OrNoPrice(ReplaceWithExit(p, "off"), "off") : Go(p, rec)
            BY <2>2
        <3>2. Prepared(p, rec, orders) /\ rec.at # "upsert"
            BY <1>0, ReplacePrepared
        <3>3. MemoryOK'
            BY <1>0, <2>2 DEF MemoryOK
        <3> QED
            BY <2>2, <3>1, <3>2, <3>3, GoInv
    <2> QED
        BY <1>7, <2>1, <2>2 DEF Horizon
<1> QED
    BY <1>1, <1>2, <1>3, <1>4, <1>5, <1>6, <1>7 DEF Ticks

(* A step of one chain that fills nothing, and may write rows.               *)
LEMMA RowsMove ==
    ASSUME Inv, NEW p \in Pairs, NEW t \in Threads, NEW rec,
           Prepared(p, rec, orders'), rec.at # "upsert",
           thread' = [thread EXCEPT ![<<p, t>>] = rec],
           RowsOK', MemoryOK', OthersOK', RowsStay, SlotsRefer',
           \A id \in Ids : orders[id] # None =>
               /\ remaining'[id] = remaining[id]
               /\ orders'[id].filled = orders[id].filled
               /\ orders'[id].placed = orders[id].placed,
           \A id \in Ids : orders[id] = None =>
               IF orders'[id] = None THEN remaining'[id] = 0
               ELSE orders'[id].filled + remaining'[id] <= orders'[id].placed
    PROVE  Kept
<1>1. rec \in Chain
    BY DEF Prepared
<1>2. References' /\ thread' \in [Pairs \X Threads -> Chain]
    BY ReferencesKept
<1>3. ASSUME Sizes PROVE Sizes'
    BY <1>1, <1>3, SizesKept
<1>4. UnusedEmpty'
    BY DEF UnusedEmpty, RowsStay
<1> QED
    BY <1>2, <1>3, <1>4 DEF Inv, Kept, TypeOK

(* A row whose status and size are written.                                  *)
LEMMA StatusWritten ==
    ASSUME Inv, NEW k \in Ids, orders[k] # None, NEW row \in OrderRow,
           row.pair = orders[k].pair, row.filled = orders[k].filled,
           row.placed = orders[k].placed,
           orders' = [orders EXCEPT ![k] = row], UNCHANGED <<dbPos, remaining>>
    PROVE  /\ RowsOK' /\ RowsStay
           /\ \A id \in Ids : orders[id] # None =>
                  /\ remaining'[id] = remaining[id]
                  /\ orders'[id].filled = orders[id].filled
                  /\ orders'[id].placed = orders[id].placed
           /\ \A id \in Ids : orders[id] = None =>
                  IF orders'[id] = None THEN remaining'[id] = 0
                  ELSE orders'[id].filled + remaining'[id] <= orders'[id].placed
<1>1. orders \in [Ids -> OrderRow \cup {None}] /\ dbPos \in [Pairs -> Nat]
    BY DEF Inv, TypeOK, RowsOK
<1> QED
    BY <1>1, NamesAssumption DEF RowsOK, RowsStay, Inv, UnusedEmpty

(* A row that is inserted under a fresh id.                                  *)
LEMMA RowInserted ==
    ASSUME Inv, NEW p \in Pairs, NEW id \in Ids, Fresh(id), NEW purpose \in Purposes,
           NEW size \in Nat, orders' = [orders EXCEPT ![id] = Row(p, purpose, size)],
           UNCHANGED dbPos
    PROVE  /\ RowsOK' /\ RowsStay /\ orders[id] = None
           /\ IsOrderOf(id, p, orders')
           /\ Row(p, purpose, size) \in OrderRow
           /\ \A k \in Ids \ {id} : orders'[k] = orders[k]
<1>1. orders \in [Ids -> OrderRow \cup {None}] /\ dbPos \in [Pairs -> Nat]
    BY DEF Inv, TypeOK, RowsOK
<1>2. Row(p, purpose, size) \in OrderRow /\ Row(p, purpose, size).pair = p
    BY DEF Row, OrderRow
<1>3. orders[id] = None
    BY DEF Fresh
<1> QED
    BY <1>1, <1>2, <1>3, NamesAssumption DEF RowsOK, RowsStay, IsOrderOf

LEMMA ReturnPrepared ==
    ASSUME NEW p \in Pairs, NEW rec, Prepared(p, rec, orders)
    PROVE  Prepared(p, Return(rec), orders) /\ Return(rec).at # "upsert"
<1>1. rec \in Chain
    BY DEF Prepared
<1>2. CASE rec.ret = "prints"
    <2>1. IsOrderOf(rec.order, p, orders) /\ rec.order \in Ids
        BY <1>2 DEF Prepared, IsOrderOf
    <2> QED
        BY <1>2, <2>1 DEF Return, Prepared, At, Off, Chain
<1>3. CASE rec.ret # "prints"
    <2>1. rec.ret \in {"off", "guard1", "order", "guard2", "horizon"}
        BY <1>1, <1>3 DEF Chain
    <2> QED
        BY <1>3, <2>1, OffPrepared DEF Return
<1> QED
    BY <1>2, <1>3

LEMMA InsertDoneInv ==
    ASSUME Inv, NEW p \in Pairs, NEW t \in Threads, InsertDone(p, t)
    PROVE  Kept
<1> DEFINE rec == thread[<<p, t>>]
<1>1. Prepared(p, rec, orders) /\ rec.at = "insert"
    BY DEF Inv, References, ChainsPrepared, InsertDone
<1>2. rec \in Chain /\ rec.purpose \in Purposes /\ rec.size \in Nat
    BY <1>1 DEF Prepared, Chain
<1>3. PICK id \in Ids :
         /\ Fresh(id)
         /\ orders' = [orders EXCEPT ![id] = Row(p, rec.purpose, rec.size)]
         /\ open' = [open EXCEPT ![p] = id]
         /\ IF rec.next = "fill"
            THEN /\ Fill(p, t, id, rec.purpose, rec.size, rec.size, FALSE, rec.ret)
                 /\ UNCHANGED reserved
            ELSE /\ remaining' = [remaining EXCEPT ![id] = rec.size]
                 /\ reserved' = [reserved EXCEPT ![p] =
                        IF rec.purpose = "entry" THEN 0 ELSE @]
                 /\ thread' = [thread EXCEPT ![<<p, t>>] = Return(rec)]
                 /\ UNCHANGED <<positionBase, poolCash, entryBlocked>>
    BY DEF InsertDone
<1>4. UNCHANGED <<dbPos, horizon, engine, market, faults>>
    BY DEF InsertDone
<1> HIDE DEF rec
<1>5. /\ RowsOK' /\ RowsStay /\ orders[id] = None /\ IsOrderOf(id, p, orders')
      /\ orders'[id].filled = 0 /\ orders'[id].placed = rec.size
      /\ Row(p, rec.purpose, rec.size) \in OrderRow
      /\ Row(p, rec.purpose, rec.size).filled = 0
      /\ Row(p, rec.purpose, rec.size).placed = rec.size
      /\ \A k \in Ids \ {id} : orders'[k] = orders[k]
    <2>1. /\ Fresh(id) /\ dbPos' = dbPos
          /\ orders' = [orders EXCEPT ![id] = Row(p, rec.purpose, rec.size)]
        BY <1>3, <1>4
    <2>2. /\ RowsOK' /\ RowsStay /\ orders[id] = None /\ IsOrderOf(id, p, orders')
          /\ Row(p, rec.purpose, rec.size) \in OrderRow
          /\ \A k \in Ids \ {id} : orders'[k] = orders[k]
        BY <1>2, <2>1, RowInserted
    <2>3. orders'[id] = Row(p, rec.purpose, rec.size)
        BY <2>1 DEF Inv, TypeOK, RowsOK
    <2>4. /\ Row(p, rec.purpose, rec.size).filled = 0
          /\ Row(p, rec.purpose, rec.size).placed = rec.size
        BY DEF Row
    <2> QED
        BY <2>2, <2>3, <2>4
<1>6. SlotsRefer'
    <2>1. open \in [Pairs -> Ids \cup {None}] /\ SlotsRefer
        BY DEF Inv, TypeOK, MemoryOK, References
    <2>2. ASSUME NEW q \in Pairs, open'[q] # None
          PROVE  IsOrderOf(open'[q], q, orders')
        <3>1. CASE q = p
            BY <1>3, <1>5, <2>1, <3>1
        <3>2. CASE q # p
            <4>1. open'[q] = open[q] /\ IsOrderOf(open[q], q, orders)
                BY <1>3, <2>1, <2>2, <3>2 DEF SlotsRefer
            <4> QED
                BY <1>5, <4>1, OrdersStay
        <3> QED
            BY <3>1, <3>2
    <2> QED
        BY <2>2 DEF SlotsRefer
<1>7. OthersOK' /\ open' \in [Pairs -> Ids \cup {None}] /\ horizon' = horizon
    BY <1>3, <1>4 DEF Inv, TypeOK, OthersOK, MemoryOK
<1>8. CASE rec.next = "fill"
    <2> DEFINE new == [Off EXCEPT !.at = "upsert", !.order = id, !.size = rec.size,
                                  !.ret = rec.ret, !.done = (rec.size - rec.size = 0 \/ FALSE),
                                  !.slipped = FALSE]
    <2>1. /\ thread' = [thread EXCEPT ![<<p, t>>] = new]
          /\ remaining' = [remaining EXCEPT ![id] = rec.size - rec.size]
        BY <1>3, <1>8 DEF Fill
    <2>2. rec.size - rec.size = 0
        BY <1>2
    <2>3. new \in Chain /\ new.at = "upsert" /\ new.order = id /\ new.size = rec.size
        BY <1>2 DEF Off, Chain
    <2>4. Prepared(p, new, orders')
        BY <1>5, <2>3 DEF Prepared
    <2>5. MemoryOK'
        <3>1. /\ positionBase \in [Pairs -> Nat] /\ poolCash \in Int
              /\ remaining \in [Ids -> Nat] /\ entryBlocked \in [Pairs -> BOOLEAN]
            BY DEF Inv, TypeOK, MemoryOK
        <3>2. Applied(positionBase[p], Side(rec.purpose), rec.size) \in Nat
            BY <1>2, <3>1 DEF Applied, Smaller
        <3>3. positionBase' \in [Pairs -> Nat] /\ poolCash' \in Int
            BY <1>2, <1>3, <1>8, <3>1, <3>2 DEF Fill, CashOf
        <3>4. remaining' \in [Ids -> Nat]
            BY <2>1, <2>2, <3>1
        <3>5. entryBlocked' \in [Pairs -> BOOLEAN]
            BY <1>3, <1>8, <3>1 DEF Fill
        <3>6. reserved' = reserved
            BY <1>3, <1>8
        <3> QED
            BY <1>7, <3>3, <3>4, <3>5, <3>6 DEF Inv, TypeOK, MemoryOK
    <2> HIDE DEF new
    <2>6. References' /\ thread' \in [Pairs \X Threads -> Chain]
        BY <1>5, <1>6, <2>1, <2>4, ReferencesKept
    <2>7. thread[<<p, t>>].at # "upsert"
        BY <1>1 DEF rec
    <2>8. ASSUME Sizes PROVE Sizes'
        <3>1. /\ orders' = [orders EXCEPT ![id] = Row(p, rec.purpose, rec.size)]
              /\ remaining' = [remaining EXCEPT ![id] = 0]
              /\ new.size = Row(p, rec.purpose, rec.size).placed
            BY <1>3, <1>5, <2>1, <2>2, <2>3
        <3> QED
            BY <1>5, <2>1, <2>3, <2>7, <2>8, <3>1, TakerFillKeepsSizes
    <2>9. UnusedEmpty'
        <3>1. remaining \in [Ids -> Nat] /\ UnusedEmpty
            BY DEF Inv, TypeOK, MemoryOK
        <3> QED
            BY <1>5, <2>1, <3>1 DEF UnusedEmpty, IsOrderOf
    <2> QED
        BY <1>5, <1>7, <2>5, <2>6, <2>8, <2>9 DEF Inv, Kept, TypeOK
<1>9. CASE rec.next # "fill"
    <2>1. /\ remaining' = [remaining EXCEPT ![id] = rec.size]
          /\ reserved' = [reserved EXCEPT ![p] = IF rec.purpose = "entry" THEN 0 ELSE @]
          /\ thread' = [thread EXCEPT ![<<p, t>>] = Return(rec)]
          /\ UNCHANGED <<positionBase, poolCash, entryBlocked>>
        BY <1>3, <1>9
    <2>2. MemoryOK'
        BY <1>2, <1>7, <2>1 DEF Inv, TypeOK, MemoryOK
    <2>3. Prepared(p, Return(rec), orders') /\ Return(rec).at # "upsert"
        BY <1>1, <1>5, ReturnPrepared, PreparedStays
    <2>4. remaining \in [Ids -> Nat]
        BY DEF Inv, TypeOK, MemoryOK
    <2>5. \A k \in Ids : orders[k] # None =>
              /\ remaining'[k] = remaining[k]
              /\ orders'[k].filled = orders[k].filled
              /\ orders'[k].placed = orders[k].placed
        BY <1>5, <2>1, <2>4
    <2>6. \A k \in Ids : orders[k] = None =>
              IF orders'[k] = None THEN remaining'[k] = 0
              ELSE orders'[k].filled + remaining'[k] <= orders'[k].placed
        <3>1. orders'[id] # None
            BY <1>5 DEF IsOrderOf
        <3>2. orders'[id].filled + remaining'[id] <= orders'[id].placed
            BY <1>2, <1>5, <2>1, <2>4
        <3>3. \A k \in Ids \ {id} : orders[k] = None => remaining'[k] = 0
            BY <2>1, <2>4 DEF Inv, UnusedEmpty
        <3> QED
            BY <1>5, <3>1, <3>2, <3>3
    <2> QED
        BY <1>5, <1>6, <1>7, <2>1, <2>2, <2>3, <2>5, <2>6, RowsMove
<1> QED
    BY <1>8, <1>9

LEMMA CancelDoneInv ==
    ASSUME Inv, NEW p \in Pairs, NEW t \in Threads, CancelDone(p, t)
    PROVE  Kept
<1> DEFINE rec == thread[<<p, t>>]
           k == rec.order
           row == [orders[k] EXCEPT !.status = "canceled"]
<1>1. Prepared(p, rec, orders) /\ rec.at = "cancel"
    BY DEF Inv, References, ChainsPrepared, CancelDone
<1>2. /\ rec.ret \in {"off", "guard1", "order", "guard2", "horizon"}
      /\ rec.next \in {"drop", "flatten", "exit"}
      /\ rec.next = "flatten" => rec.purpose \in Purposes
      /\ IsOrderOf(k, p, orders)
    BY <1>1 DEF Prepared, Chain
<1>3. k \in Ids /\ orders[k] # None /\ orders[k] \in OrderRow
    BY <1>2 DEF IsOrderOf, Inv, TypeOK, RowsOK
<1>4. /\ row \in OrderRow /\ row.pair = orders[k].pair
      /\ row.filled = orders[k].filled /\ row.placed = orders[k].placed
    BY <1>3 DEF OrderRow
<1>5. /\ orders' = [orders EXCEPT ![k] = row]
      /\ open' = [open EXCEPT ![p] = None]
      /\ UNCHANGED <<dbPos, positionBase, poolCash, remaining, reserved, horizon,
                     entryBlocked, engine, market, faults>>
    BY DEF CancelDone
<1>6. PICK new :
         /\ thread' = [thread EXCEPT ![<<p, t>>] = new]
         /\ \/ new = Return(rec)
            \/ new = At(rec.ret)
            \/ rec.next = "flatten" /\ new = SellAll(p, rec.purpose, "fill", rec.ret)
            \/ rec.next = "exit" /\ new = SellAll(p, "exit", "rest", rec.ret)
    BY <1>2 DEF CancelDone, OrNoPrice
<1> HIDE DEF k, row
<1>7. Prepared(p, new, orders) /\ new.at # "upsert"
    <2> HIDE DEF rec
    <2>1. TypeOK /\ "exit" \in Purposes
        BY DEF Inv, Purposes
    <2>2. CASE new = Return(rec)
        BY <1>1, <2>2, ReturnPrepared
    <2>3. CASE new = At(rec.ret)
        BY <1>2, <2>3, OffPrepared
    <2>4. CASE rec.next = "flatten" /\ new = SellAll(p, rec.purpose, "fill", rec.ret)
        BY <1>2, <2>1, <2>4, SellAllPrepared
    <2>5. CASE rec.next = "exit" /\ new = SellAll(p, "exit", "rest", rec.ret)
        BY <1>2, <2>1, <2>5, SellAllPrepared
    <2> QED
        BY <1>6, <2>2, <2>3, <2>4, <2>5
<1>8. /\ RowsOK' /\ RowsStay
      /\ \A id \in Ids : orders[id] # None =>
             /\ remaining'[id] = remaining[id]
             /\ orders'[id].filled = orders[id].filled
             /\ orders'[id].placed = orders[id].placed
      /\ \A id \in Ids : orders[id] = None =>
             IF orders'[id] = None THEN remaining'[id] = 0
             ELSE orders'[id].filled + remaining'[id] <= orders'[id].placed
    BY <1>3, <1>4, <1>5, StatusWritten
<1>9. Prepared(p, new, orders')
    BY <1>7, <1>8, PreparedStays
<1>10. SlotsRefer'
    <2>1. open \in [Pairs -> Ids \cup {None}] /\ SlotsRefer
        BY DEF Inv, TypeOK, MemoryOK, References
    <2>2. ASSUME NEW q \in Pairs, open'[q] # None
          PROVE  IsOrderOf(open'[q], q, orders')
        <3>1. open'[q] = open[q] /\ IsOrderOf(open[q], q, orders)
            BY <1>5, <2>1, <2>2 DEF SlotsRefer
        <3> QED
            BY <1>8, <3>1, OrdersStay
    <2> QED
        BY <2>2 DEF SlotsRefer
<1>11. MemoryOK' /\ OthersOK'
    BY <1>5 DEF Inv, TypeOK, MemoryOK, OthersOK
<1> QED
    BY <1>6, <1>7, <1>8, <1>9, <1>10, <1>11, RowsMove

(* A fill row has landed, and the chain goes on or is gone.                  *)
LEMMA FillRowInv ==
    ASSUME Inv, NEW p \in Pairs, NEW t \in Threads, thread[<<p, t>>].at = "upsert",
           FillRow(thread[<<p, t>>]), NEW new, Prepared(p, new, orders), new.at # "upsert",
           thread' = [thread EXCEPT ![<<p, t>>] = new],
           UNCHANGED <<open, remaining>>, MemoryOK', OthersOK'
    PROVE  Kept
<1> DEFINE rec == thread[<<p, t>>]
           k == rec.order
<1>1. Prepared(p, rec, orders)
    BY DEF Inv, References, ChainsPrepared
<1>2. IsOrderOf(k, p, orders) /\ rec.size \in Nat
    BY <1>1 DEF Prepared, Chain
<1>3. k \in Ids /\ orders[k] # None /\ orders[k].pair = p /\ orders[k] \in OrderRow
    BY <1>2 DEF IsOrderOf, Inv, TypeOK, RowsOK
<1>4. /\ orders' = [orders EXCEPT ![k].filled = @ + rec.size]
      /\ dbPos' = [dbPos EXCEPT ![p] = Applied(@, Side(orders[k].purpose), rec.size)]
    BY <1>3 DEF FillRow
<1>5. orders \in [Ids -> OrderRow \cup {None}] /\ dbPos \in [Pairs -> Nat]
    BY DEF Inv, TypeOK, RowsOK
<1>6. /\ [orders[k] EXCEPT !.filled = @ + rec.size] \in OrderRow
      /\ [orders[k] EXCEPT !.filled = @ + rec.size].pair = p
    BY <1>2, <1>3 DEF OrderRow
<1>7. RowsStay
    BY <1>3, <1>4, <1>5, <1>6, NamesAssumption DEF RowsStay
<1>8. RowsOK'
    <2>1. Applied(dbPos[p], Side(orders[k].purpose), rec.size) \in Nat
        BY <1>2, <1>5 DEF Applied, Smaller
    <2>2. dbPos' \in [Pairs -> Nat]
        BY <1>4, <1>5, <2>1
    <2>3. orders' \in [Ids -> OrderRow \cup {None}]
        BY <1>4, <1>5, <1>6
    <2> QED
        BY <2>2, <2>3 DEF RowsOK
<1>9. SlotsRefer'
    BY <1>7, OrdersStay DEF Inv, References, SlotsRefer
<1>10. Prepared(p, new, orders') /\ new \in Chain
    BY <1>7, PreparedStays DEF Prepared
<1>11. References' /\ thread' \in [Pairs \X Threads -> Chain]
    BY <1>7, <1>9, <1>10, ReferencesKept
<1>12. Filling(p, t, k)
    BY DEF Filling
<1>13. ASSUME Sizes PROVE Sizes'
    BY <1>3, <1>4, <1>10, <1>12, <1>13, FillRowKeepsSizes
<1>14. UnusedEmpty'
    BY <1>7 DEF Inv, UnusedEmpty, RowsStay
<1> QED
    BY <1>8, <1>11, <1>13, <1>14 DEF Inv, Kept, TypeOK

LEMMA UpsertDoneInv ==
    ASSUME Inv, NEW p \in Pairs, NEW t \in Threads, UpsertDone(p, t)
    PROVE  Kept
<1> DEFINE rec == thread[<<p, t>>]
           new == [rec EXCEPT !.at = "status"]
<1>1. Prepared(p, rec, orders) /\ rec.at = "upsert"
    BY DEF Inv, References, ChainsPrepared, UpsertDone
<1>2. rec \in Chain
    BY <1>1 DEF Prepared
<1>3. new \in Chain /\ new.at = "status" /\ new.order = rec.order
    BY <1>2 DEF Chain
<1>4. IsOrderOf(new.order, p, orders)
    BY <1>1, <1>3 DEF Prepared
<1>5. Prepared(p, new, orders) /\ new.at # "upsert"
    BY <1>3, <1>4 DEF Prepared
<1>6. /\ thread' = [thread EXCEPT ![<<p, t>>] = new]
      /\ FillRow(rec) /\ UNCHANGED <<memory, engine, market, faults>>
    BY DEF UpsertDone
<1>7. MemoryOK' /\ OthersOK' /\ UNCHANGED <<open, remaining>>
    BY <1>6 DEF Inv, TypeOK, MemoryOK, OthersOK
<1> HIDE DEF new
<1> QED
    BY <1>1, <1>5, <1>6, <1>7, FillRowInv

(* The row that updateOrder leaves after a fill.                             *)
LEMMA StatusRowWritten ==
    ASSUME Inv, NEW p \in Pairs, NEW rec, rec \in Chain, IsOrderOf(rec.order, p, orders),
           StatusRow(rec), UNCHANGED <<dbPos, remaining>>
    PROVE  /\ RowsOK' /\ RowsStay
           /\ \A id \in Ids : orders[id] # None =>
                  /\ remaining'[id] = remaining[id]
                  /\ orders'[id].filled = orders[id].filled
                  /\ orders'[id].placed = orders[id].placed
           /\ \A id \in Ids : orders[id] = None =>
                  IF orders'[id] = None THEN remaining'[id] = 0
                  ELSE orders'[id].filled + remaining'[id] <= orders'[id].placed
<1> DEFINE k == rec.order
           status == IF rec.slipped /\ remaining[k] > 0 THEN "canceled"
                     ELSE IF rec.done THEN "filled" ELSE "partial"
           size == IF rec.slipped THEN 0 ELSE remaining[k]
           row == [orders[k] EXCEPT !.status = status, !.size = size]
<1>1. k \in Ids /\ orders[k] # None /\ orders[k] \in OrderRow /\ remaining[k] \in Nat
    BY DEF IsOrderOf, Inv, TypeOK, RowsOK, MemoryOK
<1>2. status \in {"open", "partial", "filled", "canceled"} /\ size \in Nat
    BY <1>1
<1>3. orders' = [orders EXCEPT ![k] = row]
    BY <1>1 DEF StatusRow, Inv, TypeOK, RowsOK
<1> HIDE DEF k, status, size
<1>4. /\ row \in OrderRow /\ row.pair = orders[k].pair
      /\ row.filled = orders[k].filled /\ row.placed = orders[k].placed
    BY <1>1, <1>2 DEF OrderRow
<1> HIDE DEF row
<1> QED
    BY <1>1, <1>3, <1>4, StatusWritten

LEMMA StatusDoneInv ==
    ASSUME Inv, NEW p \in Pairs, NEW t \in Threads, StatusDone(p, t)
    PROVE  Kept
<1> DEFINE rec == thread[<<p, t>>]
           profit == [AwaitInsert("take_profit", positionBase[p], "rest", rec.ret)
                         EXCEPT !.order = rec.order]
<1>1. Prepared(p, rec, orders) /\ rec.at = "status"
    BY DEF Inv, References, ChainsPrepared, StatusDone
<1>2. rec \in Chain /\ IsOrderOf(rec.order, p, orders) /\ rec.order \in Ids
    BY <1>1 DEF Prepared, IsOrderOf
<1>3. /\ StatusRow(rec)
      /\ open' = [open EXCEPT ![p] = IF rec.done THEN None ELSE @]
      /\ UNCHANGED <<dbPos, positionBase, poolCash, remaining, reserved, entryBlocked,
                     engine, market, faults>>
    BY DEF StatusDone
<1>4. PICK new : /\ thread' = [thread EXCEPT ![<<p, t>>] = new]
                 /\ new = profit \/ new = Return(rec)
    BY DEF StatusDone
<1>5. MemoryOK' /\ OthersOK'
    <2>1. horizon' \in [Pairs -> {"none", "armed", "due"}]
        BY DEF StatusDone, ClockAfterFill, Inv, TypeOK, MemoryOK
    <2>2. open' \in [Pairs -> Ids \cup {None}]
        BY <1>3 DEF Inv, TypeOK, MemoryOK
    <2> QED
        BY <1>3, <2>1, <2>2 DEF Inv, TypeOK, MemoryOK, OthersOK
<1> HIDE DEF rec
<1>6. Prepared(p, new, orders) /\ new.at # "upsert"
    <2>1. CASE new = Return(rec)
        BY <1>1, <2>1, ReturnPrepared
    <2>2. CASE new = profit
        <3>1. positionBase[p] \in Nat
            BY DEF Inv, TypeOK, MemoryOK
        <3>2. /\ profit \in Chain /\ profit.at = "insert" /\ profit.order = rec.order
              /\ profit.purpose \in Purposes
            BY <1>2, <3>1 DEF AwaitInsert, Off, Chain, Purposes
        <3> HIDE DEF profit
        <3> QED
            BY <1>2, <2>2, <3>2 DEF Prepared
    <2> QED
        BY <1>4, <2>1, <2>2
<1>7. /\ RowsOK' /\ RowsStay
      /\ \A id \in Ids : orders[id] # None =>
             /\ remaining'[id] = remaining[id]
             /\ orders'[id].filled = orders[id].filled
             /\ orders'[id].placed = orders[id].placed
      /\ \A id \in Ids : orders[id] = None =>
             IF orders'[id] = None THEN remaining'[id] = 0
             ELSE orders'[id].filled + remaining'[id] <= orders'[id].placed
    BY <1>2, <1>3, StatusRowWritten
<1>8. Prepared(p, new, orders')
    BY <1>6, <1>7, PreparedStays
<1>9. SlotsRefer'
    <2>1. open \in [Pairs -> Ids \cup {None}] /\ SlotsRefer
        BY DEF Inv, TypeOK, MemoryOK, References
    <2>2. ASSUME NEW q \in Pairs, open'[q] # None
          PROVE  IsOrderOf(open'[q], q, orders')
        <3>1. open'[q] = open[q] /\ IsOrderOf(open[q], q, orders)
            BY <1>3, <2>1, <2>2 DEF SlotsRefer
        <3> QED
            BY <1>7, <3>1, OrdersStay
    <2> QED
        BY <2>2 DEF SlotsRefer
<1> HIDE DEF profit
<1> QED
    BY <1>4, <1>5, <1>6, <1>7, <1>8, <1>9, RowsMove

(* A store call that rejects ends its chain, and leaves what had landed.     *)
LEMMA FailInv ==
    ASSUME Inv, NEW p \in Pairs, NEW t \in Threads, Fail(p, t)
    PROVE  Kept
<1> DEFINE rec == thread[<<p, t>>]
<1>1. Prepared(p, rec, orders) /\ rec \in Chain
    BY DEF Inv, References, ChainsPrepared, Prepared
<1>2. Off \in Chain /\ Off.at # "upsert" /\ Prepared(p, Off, orders)
    BY DEF Off, Chain, Prepared
<1>3. /\ thread' = [thread EXCEPT ![<<p, t>>] = Off]
      /\ UNCHANGED <<open, remaining>>
    BY DEF Fail, Rejected
<1>4. MemoryOK' /\ OthersOK'
    <2>1. reserved' \in [Pairs -> Nat]
        BY DEF Fail, Inv, TypeOK, MemoryOK
    <2>2. faults' \subseteq {"crash", "fail"}
        BY DEF Fail, Inv, TypeOK, OthersOK
    <2> QED
        BY <2>1, <2>2 DEF Fail, Inv, TypeOK, MemoryOK, OthersOK
<1>5. CASE UNCHANGED <<orders, dbPos>>
    BY <1>2, <1>3, <1>4, <1>5, ChainMoves
(* The rows that land leave the slots' rows alone, and count nothing more.   *)
<1>6. ASSUME RowsOK', RowsStay,
             \A id \in Ids : orders[id] # None =>
                 /\ orders'[id].filled = orders[id].filled
                 /\ orders'[id].placed = orders[id].placed,
             \A id \in Ids : orders[id] = None =>
                 IF orders'[id] = None THEN remaining'[id] = 0
                 ELSE orders'[id].filled + remaining'[id] <= orders'[id].placed
      PROVE  Kept
    <2>1. SlotsRefer'
        BY <1>3, <1>6, OrdersStay DEF Inv, References, SlotsRefer
    <2>2. Prepared(p, Off, orders')
        BY <1>2, <1>6, PreparedStays
    <2>3. \A id \in Ids : orders[id] # None => remaining'[id] = remaining[id]
        BY <1>3
    <2> QED
        BY <1>2, <1>3, <1>4, <1>6, <2>1, <2>2, <2>3, RowsMove
<1>7. CASE /\ rec.at = "insert" /\ UNCHANGED dbPos
           /\ \E id \in Ids :
                Fresh(id) /\ orders' = [orders EXCEPT ![id] = Row(p, rec.purpose, rec.size)]
    <2>1. PICK id \in Ids :
              Fresh(id) /\ orders' = [orders EXCEPT ![id] = Row(p, rec.purpose, rec.size)]
        BY <1>7
    <2>2. rec.purpose \in Purposes /\ rec.size \in Nat
        BY <1>1, <1>7 DEF Prepared, Chain
    <2> HIDE DEF rec
    <2>3. /\ RowsOK' /\ RowsStay /\ orders[id] = None /\ IsOrderOf(id, p, orders')
          /\ \A k \in Ids \ {id} : orders'[k] = orders[k]
        BY <1>7, <2>1, <2>2, RowInserted
    <2>4. orders'[id] = Row(p, rec.purpose, rec.size)
        BY <2>1 DEF Inv, TypeOK, RowsOK
    <2>5. orders'[id].filled = 0 /\ orders'[id].placed = rec.size
        BY <2>4 DEF Row
    <2>6. \A k \in Ids : orders[k] = None => remaining'[k] = 0
        BY <1>3 DEF Inv, UnusedEmpty
    <2>7. \A k \in Ids : orders[k] = None =>
              IF orders'[k] = None THEN remaining'[k] = 0
              ELSE orders'[k].filled + remaining'[k] <= orders'[k].placed
        <3>1. orders'[id].filled + remaining'[id] <= orders'[id].placed
            BY <2>2, <2>3, <2>5, <2>6
        <3> QED
            BY <2>3, <2>6, <3>1 DEF IsOrderOf
    <2> QED
        BY <1>6, <2>3, <2>7
<1>8. CASE /\ rec.at = "cancel" /\ UNCHANGED dbPos
           /\ orders' = [orders EXCEPT ![rec.order].status = "canceled"]
    <2> DEFINE k == rec.order
               row == [orders[k] EXCEPT !.status = "canceled"]
    <2>1. IsOrderOf(k, p, orders)
        BY <1>1, <1>8 DEF Prepared
    <2>2. k \in Ids /\ orders[k] # None /\ orders[k] \in OrderRow
        BY <2>1 DEF IsOrderOf, Inv, TypeOK, RowsOK
    <2>3. /\ row \in OrderRow /\ row.pair = orders[k].pair
          /\ row.filled = orders[k].filled /\ row.placed = orders[k].placed
        BY <2>2 DEF OrderRow
    <2>4. orders' = [orders EXCEPT ![k] = row] /\ UNCHANGED <<dbPos, remaining>>
        BY <1>3, <1>8
    <2> HIDE DEF k, row
    <2>5. /\ RowsOK' /\ RowsStay
          /\ \A id \in Ids : orders[id] # None =>
                 /\ orders'[id].filled = orders[id].filled
                 /\ orders'[id].placed = orders[id].placed
          /\ \A id \in Ids : orders[id] = None =>
                 IF orders'[id] = None THEN remaining'[id] = 0
                 ELSE orders'[id].filled + remaining'[id] <= orders'[id].placed
        BY <2>2, <2>3, <2>4, StatusWritten
    <2> QED
        BY <1>6, <2>5
<1>9. CASE rec.at = "upsert" /\ FillRow(rec)
    BY <1>2, <1>3, <1>4, <1>9, FillRowInv
<1>10. CASE rec.at = "status" /\ StatusRow(rec) /\ UNCHANGED dbPos
    <2>1. IsOrderOf(rec.order, p, orders)
        BY <1>1, <1>10 DEF Prepared
    <2> HIDE DEF rec
    <2>2. /\ RowsOK' /\ RowsStay
          /\ \A id \in Ids : orders[id] # None =>
                 /\ orders'[id].filled = orders[id].filled
                 /\ orders'[id].placed = orders[id].placed
          /\ \A id \in Ids : orders[id] = None =>
                 IF orders'[id] = None THEN remaining'[id] = 0
                 ELSE orders'[id].filled + remaining'[id] <= orders'[id].placed
        BY <1>1, <1>3, <1>10, <2>1, StatusRowWritten
    <2> QED
        BY <1>6, <2>2
<1> QED
    BY <1>5, <1>7, <1>8, <1>9, <1>10 DEF Fail

LEMMA StutterInv ==
    ASSUME Inv, UNCHANGED vars
    PROVE  Kept
<1>1. MemoryOK' /\ OthersOK'
    BY DEF Inv, TypeOK, MemoryOK, OthersOK, vars
<1> QED
    BY <1>1, NothingMoves DEF vars

(* The largest of a pair's working rows, which the restore takes.            *)
LEMMA NewestWorks ==
    ASSUME NEW p \in Pairs, Leftover(p) # {}
    PROVE  Max(Leftover(p)) \in Leftover(p)
<1>1. IsFiniteSet(Leftover(p)) /\ Leftover(p) \subseteq Int
    <2>1. IsFiniteSet(Ids) /\ Leftover(p) \subseteq Ids /\ Ids \subseteq Int
        BY FS_Interval, SizesAssumption DEF Ids, Leftover
    <2> QED
        BY <2>1, FS_Subset
<1> HIDE DEF Leftover
<1> QED
    BY <1>1, MaxExists

LEMMA RestartInv ==
    ASSUME Inv, Restart
    PROVE  Inv'
<1> DEFINE needs == IF Pooled THEN {}
                    ELSE {p \in Pairs : dbPos[p] > 0 /\ Leftover(p) = {}}
           unused == {id \in Ids : orders[id] = None}
           Placer(id, k) == CHOOSE q \in needs : id[q] = k
<1>1. PICK id \in [needs -> unused] :
         /\ \A p, q \in needs : p # q => id[p] # id[q]
         /\ orders' = [k \in Ids |-> IF \E p \in needs : id[p] = k
                                    THEN Row(Placer(id, k), "take_profit", dbPos[Placer(id, k)])
                                    ELSE orders[k]]
         /\ open' = [p \in Pairs |-> IF p \in needs THEN id[p]
                                     ELSE IF Leftover(p) = {} THEN None
                                     ELSE Max(Leftover(p))]
    BY DEF Restart
<1>2. /\ remaining' = [k \in Ids |-> IF orders'[k] = None THEN 0 ELSE orders'[k].size]
      /\ positionBase' = dbPos /\ poolCash' \in Int
      /\ horizon' = [p \in Pairs |-> ClockRestored(dbPos[p])]
      /\ reserved' = [p \in Pairs |-> 0] /\ entryBlocked' = [p \in Pairs |-> FALSE]
      /\ busy' = [p \in Pairs |-> "no"]
      /\ thread' = [x \in Pairs \X Threads |-> Off]
      /\ faults' = faults \cup {"crash"}
      /\ UNCHANGED <<dbPos, intents, market>>
    <2>1. BANKROLL \in Int /\ Total(dbPos, Pairs) \in Int
        BY SizesAssumption, NamesAssumption, TotalType DEF Inv, TypeOK, RowsOK
    <2>2. SumOver(dbPos) = Total(dbPos, Pairs)
        BY DEF SumOver, Total
    <2>3. poolCash' \in Int
        BY <2>1, <2>2 DEF Restart
    <2> QED
        BY <2>3 DEF Restart
<1>3. /\ orders \in [Ids -> OrderRow \cup {None}] /\ dbPos \in [Pairs -> Nat]
      /\ needs \subseteq Pairs /\ unused \subseteq Ids /\ None \notin OrderRow
      /\ \A k \in unused : orders[k] = None
    BY NamesAssumption DEF Inv, TypeOK, RowsOK
<1>4. \A p \in Pairs : Row(p, "take_profit", dbPos[p]) \in OrderRow
                       /\ Row(p, "take_profit", dbPos[p]).pair = p
    BY <1>3 DEF Row, OrderRow, Purposes
<1> HIDE DEF needs, unused
<1>5. \A p \in needs : /\ id[p] \in Ids /\ orders'[id[p]] \in OrderRow
                       /\ orders'[id[p]].pair = p /\ id[p] \in unused
    <2> SUFFICES ASSUME NEW p \in needs
                 PROVE  /\ id[p] \in Ids /\ orders'[id[p]] \in OrderRow
                        /\ orders'[id[p]].pair = p /\ id[p] \in unused
        OBVIOUS
    <2>1. id[p] \in unused /\ id[p] \in Ids
        BY <1>1, <1>3
    <2>2. Placer(id, id[p]) = p
        BY <1>1
    <2>3. orders'[id[p]] = Row(p, "take_profit", dbPos[p])
        BY <1>1, <2>1, <2>2
    <2> QED
        BY <1>3, <1>4, <2>1, <2>3
<1>6. \A k \in Ids : orders'[k] = orders[k] \/ \E p \in needs : id[p] = k
    BY <1>1
<1>7. orders' \in [Ids -> OrderRow \cup {None}]
    <2>1. \A k \in Ids : orders'[k] \in OrderRow \cup {None}
        BY <1>3, <1>5, <1>6
    <2>2. orders' = [k \in Ids |-> orders'[k]]
        BY <1>1
    <2> QED
        BY <2>1, <2>2
<1>8. ASSUME NEW p \in Pairs, open'[p] # None
      PROVE  IsOrderOf(open'[p], p, orders')
    <2>1. CASE p \in needs
        <3>1. open'[p] = id[p]
            BY <1>1, <2>1
        <3>2. id[p] \in Ids /\ orders'[id[p]] \in OrderRow /\ orders'[id[p]].pair = p
            BY <1>5, <2>1
        <3>3. orders'[id[p]] # None
            BY <1>3, <3>2
        <3> QED
            BY <3>1, <3>2, <3>3 DEF IsOrderOf
    <2>2. CASE p \notin needs
        <3>1. open'[p] = Max(Leftover(p)) /\ Leftover(p) # {}
            BY <1>1, <1>8, <2>2
        <3>2. open'[p] \in Leftover(p)
            BY <3>1, NewestWorks
        <3>3. /\ open'[p] \in Ids /\ orders[open'[p]] # None
              /\ orders[open'[p]].pair = p
            BY <3>2 DEF Leftover, Working
        <3>4. orders'[open'[p]] = orders[open'[p]]
            BY <1>3, <1>5, <1>6, <3>3
        <3> QED
            BY <3>3, <3>4 DEF IsOrderOf
    <2> QED
        BY <2>1, <2>2
<1>9. \A p \in Pairs : open'[p] \in Ids \cup {None}
    BY <1>8 DEF IsOrderOf
<1>10. Off \in Chain /\ Off.at = "off" /\ Off.ret = "off"
    BY DEF Off, Chain
<1>11. References'
    <2>1. SlotsRefer'
        BY <1>8 DEF SlotsRefer
    <2>2. \A p \in Pairs, t \in Threads : thread'[<<p, t>>] = Off
        BY <1>2
    <2>3. \A p \in Pairs : Prepared(p, Off, orders')
        BY <1>10 DEF Prepared
    <2>4. ChainsPrepared'
        BY <2>2, <2>3 DEF ChainsPrepared
    <2> QED
        BY <2>1, <2>4 DEF References
<1>12. remaining' \in [Ids -> Nat] /\ UnusedEmpty'
    <2>1. \A k \in Ids : orders'[k] # None => orders'[k].size \in Nat
        BY <1>7 DEF OrderRow
    <2> QED
        BY <1>2, <2>1 DEF UnusedEmpty
<1>13. open' \in [Pairs -> Ids \cup {None}]
    <2>1. open' = [p \in Pairs |-> open'[p]]
        BY <1>1
    <2> QED
        BY <1>9, <2>1
<1>14. MemoryOK'
    <2>1. horizon' \in [Pairs -> {"none", "armed", "due"}]
        BY <1>2 DEF ClockRestored
    <2> QED
        BY <1>2, <1>3, <1>12, <1>13, <2>1 DEF MemoryOK
<1>15. OthersOK'
    BY <1>2 DEF OthersOK, Inv, TypeOK
<1>16. RowsOK'
    BY <1>2, <1>3, <1>7 DEF RowsOK
<1>17. thread' \in [Pairs \X Threads -> Chain]
    BY <1>2, <1>10
<1> QED
    BY <1>11, <1>12, <1>14, <1>15, <1>16, <1>17 DEF Inv, TypeOK

LEMMA NextInv ==
    ASSUME Inv, [Next]_vars
    PROVE  /\ Inv' /\ faults \subseteq faults'
           /\ (Sizes => Sizes') \/ "crash" \in faults'
<1>1. CASE UNCHANGED vars
    BY <1>1, StutterInv DEF Kept, vars
<1>2. ASSUME NEW p \in Pairs, Engine(p) \/ Ticks(p) \/ Market(p)
      PROVE  Kept /\ faults' = faults
    <2>1. Kept
        BY <1>2, EngineInv, TicksInv, MarketInv
    <2>2. faults' = faults
        BY <1>2 DEF Engine, DecideStart, Enter, Exit, DecideHold, Ticks, TickStart, Guard,
            Order, OnPrint, PrintsEnd, Late, Horizon, Go, Market, Ages, HorizonExpires,
            MidMoves, FeedChanges
    <2> QED
        BY <2>1, <2>2
<1>3. ASSUME NEW p \in Pairs, NEW t \in Threads, Answers(p, t) \/ Fail(p, t)
      PROVE  Kept /\ faults \subseteq faults'
    <2>1. Kept
        BY <1>3, InsertDoneInv, CancelDoneInv, UpsertDoneInv, StatusDoneInv, FailInv
        DEF Answers
    <2>2. faults \subseteq faults'
        BY <1>3 DEF Answers, InsertDone, CancelDone, UpsertDone, StatusDone, Fail
    <2> QED
        BY <2>1, <2>2
<1>4. CASE Restart
    <2>1. faults' = faults \cup {"crash"}
        BY <1>4 DEF Restart
    <2> QED
        BY <1>4, <2>1, RestartInv
<1> QED
    BY <1>1, <1>2, <1>3, <1>4 DEF Next, Kept

LEMMA InductiveInv ==
    ASSUME BrokerInv, [Next]_vars
    PROVE  BrokerInv'
BY NextInv DEF BrokerInv

-----------------------------------------------------------------------------
(* Every row, chain and amount stays one the code can write, and the chains   *)
(* and the slot of a pair refer to rows of that pair, whatever crashes, fails  *)
(* or overlaps.                                                             *)
THEOREM BrokerTypeCorrect == Spec => [](TypeOK /\ References)
<1>1. BrokerInv /\ [Next]_vars => BrokerInv'
    BY InductiveInv
<1>2. BrokerInv => TypeOK /\ References
    BY DEF BrokerInv, Inv
<1> QED
    BY InitInv, <1>1, <1>2, PTL DEF Spec

(* However its fills, its cancel and the calls that fail overlap, no order    *)
(* gets more fill rows than it was placed for, until the process crashes      *)
(* (PaperBroker.fill, processOrder).                                         *)
THEOREM NoOverfillHolds == Spec => []NoOverfill
<1>1. BrokerInv /\ [Next]_vars => BrokerInv'
    BY InductiveInv
<1>2. BrokerInv => NoOverfill
    <2> SUFFICES ASSUME Inv, Sizes, NEW id \in Ids, orders[id] # None
                 PROVE  orders[id].filled <= orders[id].placed
        BY DEF BrokerInv, NoOverfill
    <2>1. orders[id] \in OrderRow /\ remaining[id] \in Nat
        BY DEF Inv, TypeOK, RowsOK, MemoryOK
    <2>2. orders[id].filled + remaining[id] <= orders[id].placed
        BY DEF Sizes, RowsFit
    <2> QED
        BY <2>1, <2>2 DEF OrderRow
<1> QED
    BY InitInv, <1>1, <1>2, PTL DEF Spec

-----------------------------------------------------------------------------
(* The fill rows and the position.  Where an intent only rests orders, the    *)
(* tick of a pair is the only chain that fills, one order at a time.         *)

Tick(p) == thread[<<p, "tick">>]

Rests(rec) == rec.at \notin {"upsert", "status"} /\ rec.next \notin {"fill", "flatten"}

IntentsRest == \A p \in Pairs, t \in Slots : Rests(thread[<<p, t>>])

(* The rows are behind the position by the fill whose row is awaited.        *)
LedgerFollows ==
    \A p \in Pairs :
        positionBase[p] = IF Tick(p).at = "upsert"
                          THEN Applied(dbPos[p], Side(orders[Tick(p).order].purpose),
                                       Tick(p).size)
                          ELSE dbPos[p]

LedgerInv == IntentsRest /\ ("fail" \in faults \/ LedgerFollows)

PurposesStay ==
    \A id \in Ids : orders[id] # None => orders'[id].purpose = orders[id].purpose

LEMMA SlotsAreThreads == "tick" \in Threads /\ Slots \subseteq Threads /\ "tick" \notin Slots
BY NamesAssumption DEF Threads

(* A step of one chain leaves the others' chains resting.                    *)
LEMMA RestsKept ==
    ASSUME Inv, IntentsRest, NEW p \in Pairs, NEW t \in Threads, NEW rec,
           t \in Slots => Rests(rec), thread' = [thread EXCEPT ![<<p, t>>] = rec]
    PROVE  IntentsRest'
<1>1. thread \in [Pairs \X Threads -> Chain]
    BY DEF Inv, TypeOK
<1> SUFFICES ASSUME NEW q \in Pairs, NEW u \in Slots PROVE Rests(thread'[<<q, u>>])
    BY DEF IntentsRest, Rests
<1>2. u \in Threads /\ Rests(thread[<<q, u>>])
    BY SlotsAreThreads DEF IntentsRest
<1> QED
    BY <1>1, <1>2

(* The order a pair's tick is filling.                                       *)
LEMMA TickFills ==
    ASSUME Inv, NEW p \in Pairs, Tick(p).at = "upsert"
    PROVE  /\ Tick(p).order \in Ids /\ orders[Tick(p).order] # None
           /\ orders[Tick(p).order].pair = p
<1>1. Prepared(p, Tick(p), orders)
    BY SlotsAreThreads DEF Inv, References, ChainsPrepared, Tick
<1> QED
    BY <1>1 DEF Prepared, IsOrderOf

(* A step that fills nothing and records no fill.                            *)
LEMMA LedgerKept ==
    ASSUME Inv, LedgerFollows, NEW p \in Pairs, NEW t \in Threads, NEW rec,
           rec.at # "upsert", t = "tick" => Tick(p).at # "upsert",
           thread' = [thread EXCEPT ![<<p, t>>] = rec], PurposesStay,
           UNCHANGED <<positionBase, dbPos>>
    PROVE  LedgerFollows'
<1>1. thread \in [Pairs \X Threads -> Chain]
    BY DEF Inv, TypeOK
<1> SUFFICES ASSUME NEW q \in Pairs
             PROVE  positionBase[q] = IF Tick(q)'.at = "upsert"
                                      THEN Applied(dbPos[q], Side(orders'[Tick(q)'.order].purpose),
                                                   Tick(q)'.size)
                                      ELSE dbPos[q]
    BY DEF LedgerFollows
<1>2. CASE q = p /\ t = "tick"
    <2>1. Tick(q)' = rec
        BY <1>1, <1>2 DEF Tick
    <2> QED
        BY <1>2, <2>1 DEF LedgerFollows
<1>3. CASE ~(q = p /\ t = "tick")
    <2>1. Tick(q)' = Tick(q)
        BY <1>1, <1>3, SlotsAreThreads DEF Tick
    <2>2. Tick(q).at = "upsert" => orders'[Tick(q).order].purpose = orders[Tick(q).order].purpose
        BY TickFills DEF PurposesStay
    <2> QED
        BY <2>1, <2>2 DEF LedgerFollows
<1> QED
    BY <1>2, <1>3

(* The tick fills, and awaits the row.                                       *)
LEMMA LedgerFilled ==
    ASSUME Inv, LedgerFollows, NEW p \in Pairs, Tick(p).at # "upsert", NEW id,
           NEW purpose, NEW size, NEW rec, rec.at = "upsert", rec.order = id, rec.size = size,
           orders'[id].purpose = purpose, PurposesStay,
           thread' = [thread EXCEPT ![<<p, "tick">>] = rec],
           positionBase' = [positionBase EXCEPT ![p] = Applied(@, Side(purpose), size)],
           UNCHANGED dbPos
    PROVE  LedgerFollows'
<1>1. /\ thread \in [Pairs \X Threads -> Chain] /\ positionBase \in [Pairs -> Nat]
      /\ "tick" \in Threads
    BY SlotsAreThreads DEF Inv, TypeOK, MemoryOK
<1> SUFFICES ASSUME NEW q \in Pairs
             PROVE  positionBase'[q] = IF Tick(q)'.at = "upsert"
                                       THEN Applied(dbPos[q], Side(orders'[Tick(q)'.order].purpose),
                                                    Tick(q)'.size)
                                       ELSE dbPos[q]
    BY DEF LedgerFollows
<1>2. CASE q = p
    <2>1. Tick(q)' = rec
        BY <1>1, <1>2 DEF Tick
    <2>2. positionBase'[p] = Applied(dbPos[p], Side(purpose), size)
        BY <1>1 DEF LedgerFollows
    <2> QED
        BY <1>2, <2>1, <2>2
<1>3. CASE q # p
    <2>1. Tick(q)' = Tick(q) /\ positionBase'[q] = positionBase[q]
        BY <1>1, <1>3 DEF Tick
    <2>2. Tick(q).at = "upsert" => orders'[Tick(q).order].purpose = orders[Tick(q).order].purpose
        BY TickFills DEF PurposesStay
    <2> QED
        BY <2>1, <2>2 DEF LedgerFollows
<1> QED
    BY <1>2, <1>3

(* Its row has landed.                                                       *)
LEMMA LedgerRecorded ==
    ASSUME Inv, LedgerFollows, NEW p \in Pairs, UpsertDone(p, "tick")
    PROVE  LedgerFollows'
<1> DEFINE rec == Tick(p)
           k == rec.order
<1>0. /\ rec.at = "upsert" /\ k \in Ids /\ orders[k] # None /\ orders[k].pair = p
    BY TickFills DEF UpsertDone, Tick
<1>1. /\ thread \in [Pairs \X Threads -> Chain] /\ dbPos \in [Pairs -> Nat]
      /\ orders \in [Ids -> OrderRow \cup {None}] /\ "tick" \in Threads
    BY SlotsAreThreads DEF Inv, TypeOK, RowsOK
<1>2. /\ orders' = [orders EXCEPT ![k].filled = @ + rec.size]
      /\ dbPos' = [dbPos EXCEPT ![p] = Applied(@, Side(orders[k].purpose), rec.size)]
      /\ thread' = [thread EXCEPT ![<<p, "tick">>].at = "status"]
      /\ positionBase' = positionBase
    BY <1>0 DEF UpsertDone, FillRow, Tick
<1>3. PurposesStay
    <2>1. orders[k] \in OrderRow
        BY <1>0, <1>1
    <2> QED
        BY <1>0, <1>1, <1>2, <2>1 DEF PurposesStay, OrderRow
<1> SUFFICES ASSUME NEW q \in Pairs
             PROVE  positionBase[q] = IF Tick(q)'.at = "upsert"
                                      THEN Applied(dbPos'[q], Side(orders'[Tick(q)'.order].purpose),
                                                   Tick(q)'.size)
                                      ELSE dbPos'[q]
    BY <1>2 DEF LedgerFollows
<1>4. CASE q = p
    <2>1. Tick(q)'.at = "status"
        BY <1>1, <1>2, <1>4 DEF Tick, Chain
    <2>2. dbPos'[p] = Applied(dbPos[p], Side(orders[k].purpose), rec.size)
        BY <1>1, <1>2
    <2> QED
        BY <1>0, <1>4, <2>1, <2>2 DEF LedgerFollows
<1>5. CASE q # p
    <2>1. Tick(q)' = Tick(q) /\ dbPos'[q] = dbPos[q]
        BY <1>1, <1>2, <1>5 DEF Tick
    <2>2. Tick(q).at = "upsert" => orders'[Tick(q).order].purpose = orders[Tick(q).order].purpose
        BY <1>3, TickFills DEF PurposesStay
    <2> QED
        BY <2>1, <2>2 DEF LedgerFollows
<1> QED
    BY <1>4, <1>5

(* A step that moves no chain.                                               *)
LEMMA LedgerStill ==
    ASSUME LedgerInv, UNCHANGED <<thread, orders, dbPos, positionBase, faults>>
    PROVE  LedgerInv'
BY DEF LedgerInv, IntentsRest, Rests, LedgerFollows, Tick

(* A chain's step that fills nothing and records no fill.                    *)
LEMMA LedgerMoves ==
    ASSUME Inv, LedgerInv, NEW p \in Pairs, NEW t \in Threads, NEW rec,
           rec.at # "upsert", t \in Slots => Rests(rec), t = "tick" => Tick(p).at # "upsert",
           thread' = [thread EXCEPT ![<<p, t>>] = rec], PurposesStay,
           UNCHANGED <<positionBase, dbPos, faults>>
    PROVE  LedgerInv'
BY RestsKept, LedgerKept DEF LedgerInv

(* A fill by the tick.                                                       *)
LEMMA LedgerTickFill ==
    ASSUME Inv, LedgerInv, NEW p \in Pairs, Tick(p).at # "upsert", NEW id,
           NEW purpose, NEW left, NEW size, NEW slips, NEW ret,
           Fill(p, "tick", id, purpose, left, size, slips, ret),
           orders'[id].purpose = purpose, PurposesStay, UNCHANGED <<dbPos, faults>>
    PROVE  LedgerInv'
<1> DEFINE rec == [Off EXCEPT !.at = "upsert", !.order = id, !.size = size, !.ret = ret,
                              !.done = (left - size = 0 \/ slips), !.slipped = slips]
<1>1. /\ thread' = [thread EXCEPT ![<<p, "tick">>] = rec]
      /\ positionBase' = [positionBase EXCEPT ![p] = Applied(@, Side(purpose), size)]
    BY DEF Fill
<1>2. rec.at = "upsert" /\ rec.order = id /\ rec.size = size
    BY DEF Off
<1> HIDE DEF rec
<1>3. IntentsRest'
    BY <1>1, RestsKept, SlotsAreThreads DEF LedgerInv
<1> QED
    BY <1>1, <1>2, <1>3, LedgerFilled DEF LedgerInv

LEMMA EngineLedger ==
    ASSUME Inv, LedgerInv, ~Pooled \/ "exit" \notin Enabled, NEW p \in Pairs, Engine(p)
    PROVE  LedgerInv'
<1>1. CASE DecideStart(p) \/ DecideHold(p)
    BY <1>1, LedgerStill DEF DecideStart, DecideHold
<1>2. CASE Enter(p)
    <2>1. PICK usd \in 1 .. Lot, t \in Slots :
              thread' = [thread EXCEPT ![<<p, t>>] = AwaitInsert("entry", usd, "rest", "off")]
        BY <1>2 DEF Enter
    <2>2. /\ AwaitInsert("entry", usd, "rest", "off").at # "upsert"
          /\ Rests(AwaitInsert("entry", usd, "rest", "off"))
        BY DEF AwaitInsert, Off, Rests
    <2>3. PurposesStay /\ UNCHANGED <<positionBase, dbPos, faults>>
        BY <1>2 DEF Enter, PurposesStay
    <2> QED
        BY <2>1, <2>2, <2>3, LedgerMoves, SlotsAreThreads
<1>3. CASE Exit(p)
    <2>1. PICK q \in Pairs, t \in Slots :
              \E rec \in OrNoPrice(ReplaceWithExit(q, "off"), "off") :
                  thread' = [thread EXCEPT ![<<q, t>>] = rec]
        BY <1>3 DEF Exit
    <2>2. PICK rec \in OrNoPrice(ReplaceWithExit(q, "off"), "off") :
              thread' = [thread EXCEPT ![<<q, t>>] = rec]
        BY <2>1
    <2>3. rec.at # "upsert" /\ Rests(rec)
        BY DEF OrNoPrice, ReplaceWithExit, SellAll, AwaitInsert, AwaitCancel, At, Off, Rests
    <2>4. PurposesStay /\ UNCHANGED <<positionBase, dbPos, faults>>
        BY <1>3 DEF Exit, PurposesStay
    <2> QED
        BY <2>2, <2>3, <2>4, LedgerMoves, SlotsAreThreads
<1> QED
    BY <1>1, <1>2, <1>3 DEF Engine

LEMMA MarketLedger ==
    ASSUME LedgerInv, NEW p \in Pairs, Market(p)
    PROVE  LedgerInv'
BY LedgerStill DEF Market, Ages, HorizonExpires, MidMoves, FeedChanges

(* The phases of the tick in which nothing is filled.                        *)
LEMMA GoMovesLedger ==
    ASSUME Inv, LedgerInv, NEW p \in Pairs, NEW rec, rec.at # "upsert", Tick(p).at # "upsert",
           Go(p, rec), UNCHANGED positionBase
    PROVE  LedgerInv'
BY LedgerMoves, SlotsAreThreads DEF Go, PurposesStay

LEMMA TicksLedger ==
    ASSUME Inv, LedgerInv, NEW p \in Pairs, Ticks(p)
    PROVE  LedgerInv'
<1>0. Tick(p).at # "upsert"
    BY DEF Ticks, TickStart, Guard, Order, OnPrint, PrintsEnd, Late, Horizon, Tick
<1>1. CASE \E rec : rec.at # "upsert" /\ Go(p, rec) /\ UNCHANGED positionBase
    BY <1>0, <1>1, GoMovesLedger
<1>2. ASSUME NEW id, NEW left, NEW size, NEW slips, NEW ret,
             Fill(p, "tick", id, orders[id].purpose, left, size, slips, ret),
             UNCHANGED <<orders, dbPos, faults>>
      PROVE  LedgerInv'
    <2>1. PurposesStay /\ orders'[id].purpose = orders[id].purpose
        BY <1>2 DEF PurposesStay
    <2> QED
        BY <1>0, <1>2, <2>1, LedgerTickFill
<1>3. CASE TickStart(p)
    BY <1>1, <1>3 DEF TickStart, memory, At, AwaitCancel, Off
<1>4. CASE Guard(p)
    BY <1>1, <1>4 DEF Guard, memory, OrNoPrice, TakerFlatten, SellAll, AwaitInsert,
        AwaitCancel, At, Off
<1>5. CASE Order(p)
    <2>1. CASE open[p] # None /\ Resting(p, {"stop"})
        <3>1. orders[open[p]].purpose = "stop"
            BY <2>1 DEF Resting
        <3> QED
            BY <1>2, <1>5, <2>1, <3>1 DEF Order
    <2>2. CASE ~(open[p] # None /\ Resting(p, {"stop"}))
        BY <1>1, <1>5, <2>2 DEF Order, memory, At, Off
    <2> QED
        BY <2>1, <2>2
<1>6. CASE OnPrint(p)
    BY <1>2, <1>6 DEF OnPrint
<1>7. CASE PrintsEnd(p)
    BY <1>1, <1>7 DEF PrintsEnd, memory, At, Off
<1>8. CASE Late(p)
    <2>1. CASE /\ Go(p, At("guard2")) \/ Go(p, AwaitCancel(Tick(p).order, "drop", "guard2"))
               /\ UNCHANGED memory
        BY <1>1, <2>1 DEF memory, At, AwaitCancel, Off
    <2> QED
        BY <1>2, <1>8, <2>1 DEF Late, Tick
<1>9. CASE Horizon(p)
    BY <1>1, <1>9 DEF Horizon, memory, OrNoPrice, ReplaceWithExit, SellAll, AwaitInsert,
        AwaitCancel, At, Off
<1> QED
    BY <1>3, <1>4, <1>5, <1>6, <1>7, <1>8, <1>9 DEF Ticks

(* What a chain that returns goes on to.                                     *)
LEMMA ReturnRests ==
    ASSUME NEW p \in Pairs, NEW rec, Prepared(p, rec, orders)
    PROVE  Return(rec).at # "upsert" /\ Rests(Return(rec)) /\ Rests(At(rec.ret))
<1>1. rec.ret \in {"off", "guard1", "order", "prints", "guard2", "horizon"}
    BY DEF Prepared, Chain
<1> QED
    BY <1>1 DEF Return, At, Off, Rests

LEMMA InsertDoneLedger ==
    ASSUME Inv, LedgerInv, NEW p \in Pairs, NEW t \in Threads, InsertDone(p, t)
    PROVE  LedgerInv'
<1> DEFINE rec == thread[<<p, t>>]
<1>1. Prepared(p, rec, orders) /\ rec.at = "insert" /\ (t \in Slots => Rests(rec))
    BY DEF Inv, References, ChainsPrepared, InsertDone, LedgerInv, IntentsRest
<1>2. PICK id \in Ids :
         /\ Fresh(id)
         /\ orders' = [orders EXCEPT ![id] = Row(p, rec.purpose, rec.size)]
         /\ IF rec.next = "fill"
            THEN Fill(p, t, id, rec.purpose, rec.size, rec.size, FALSE, rec.ret)
            ELSE /\ thread' = [thread EXCEPT ![<<p, t>>] = Return(rec)]
                 /\ UNCHANGED positionBase
    BY DEF InsertDone
<1>3. UNCHANGED <<dbPos, faults>>
    BY DEF InsertDone
<1>4. PurposesStay /\ orders'[id].purpose = rec.purpose
    BY <1>2 DEF Inv, TypeOK, RowsOK, PurposesStay, Fresh, Row
<1>5. t = "tick" => Tick(p).at # "upsert"
    BY <1>1 DEF Tick
<1> HIDE DEF rec
<1>6. CASE rec.next = "fill"
    <2>1. t = "tick"
        BY <1>1, <1>6 DEF Rests, Threads
    <2> QED
        BY <1>2, <1>3, <1>4, <1>5, <1>6, <2>1, LedgerTickFill
<1>7. CASE rec.next # "fill"
    <2>1. Return(rec).at # "upsert" /\ Rests(Return(rec))
        BY <1>1, ReturnRests
    <2> QED
        BY <1>2, <1>3, <1>4, <1>5, <1>7, <2>1, LedgerMoves
<1> QED
    BY <1>6, <1>7

LEMMA CancelDoneLedger ==
    ASSUME Inv, LedgerInv, NEW p \in Pairs, NEW t \in Threads, CancelDone(p, t)
    PROVE  LedgerInv'
<1> DEFINE rec == thread[<<p, t>>]
<1>1. /\ Prepared(p, rec, orders) /\ rec.at = "cancel" /\ (t \in Slots => Rests(rec))
      /\ IsOrderOf(rec.order, p, orders) /\ rec.next \in {"drop", "flatten", "exit"}
    BY DEF Inv, References, ChainsPrepared, Prepared, CancelDone, LedgerInv, IntentsRest
<1>2. PICK new :
         /\ thread' = [thread EXCEPT ![<<p, t>>] = new]
         /\ \/ new = Return(rec)
            \/ new = At(rec.ret)
            \/ rec.next = "flatten" /\ new = SellAll(p, rec.purpose, "fill", rec.ret)
            \/ rec.next = "exit" /\ new = SellAll(p, "exit", "rest", rec.ret)
    BY <1>1 DEF CancelDone, OrNoPrice
<1>3. orders' = [orders EXCEPT ![rec.order].status = "canceled"]
    BY DEF CancelDone
<1>4. UNCHANGED <<positionBase, dbPos, faults>>
    BY DEF CancelDone
<1>5. PurposesStay
    <2>1. rec.order \in Ids /\ orders[rec.order] \in OrderRow
        BY <1>1 DEF IsOrderOf, Inv, TypeOK, RowsOK
    <2> QED
        BY <1>3, <2>1 DEF PurposesStay, OrderRow, Inv, TypeOK, RowsOK
<1>6. t = "tick" => Tick(p).at # "upsert"
    BY <1>1 DEF Tick
<1> HIDE DEF rec
<1>7. new.at # "upsert" /\ (t \in Slots => Rests(new))
    <2>1. Return(rec).at # "upsert" /\ Rests(Return(rec)) /\ Rests(At(rec.ret))
        BY <1>1, ReturnRests
    <2>2. CASE new = Return(rec) \/ new = At(rec.ret)
        BY <2>1, <2>2 DEF Rests
    <2>3. CASE rec.next = "flatten" /\ new = SellAll(p, rec.purpose, "fill", rec.ret)
        <3>1. t \notin Slots
            BY <1>1, <2>3 DEF Rests
        <3>2. At(rec.ret).at # "upsert"
            BY <2>1 DEF Rests
        <3>3. AwaitInsert(rec.purpose, positionBase[p], "fill", rec.ret).at = "insert"
            BY DEF AwaitInsert, Off
        <3> QED
            BY <2>3, <3>1, <3>2, <3>3 DEF SellAll
    <2>4. CASE rec.next = "exit" /\ new = SellAll(p, "exit", "rest", rec.ret)
        <3>1. /\ AwaitInsert("exit", positionBase[p], "rest", rec.ret).at = "insert"
              /\ Rests(AwaitInsert("exit", positionBase[p], "rest", rec.ret))
            BY DEF AwaitInsert, Off, Rests
        <3> QED
            BY <2>1, <2>4, <3>1 DEF SellAll, Rests
    <2> QED
        BY <1>2, <2>2, <2>3, <2>4
<1> QED
    BY <1>2, <1>4, <1>5, <1>6, <1>7, LedgerMoves

LEMMA UpsertDoneLedger ==
    ASSUME Inv, LedgerInv, NEW p \in Pairs, NEW t \in Threads, UpsertDone(p, t)
    PROVE  LedgerInv'
<1>1. t = "tick"
    BY DEF UpsertDone, LedgerInv, IntentsRest, Rests, Threads
<1>2. IntentsRest'
    <2>1. thread' = [thread EXCEPT ![<<p, t>>] = [thread[<<p, t>>] EXCEPT !.at = "status"]]
        BY DEF UpsertDone
    <2> QED
        BY <1>1, <2>1, RestsKept, SlotsAreThreads DEF LedgerInv
<1>3. faults' = faults
    BY DEF UpsertDone
<1> QED
    BY <1>1, <1>2, <1>3, LedgerRecorded DEF LedgerInv

LEMMA StatusDoneLedger ==
    ASSUME Inv, LedgerInv, NEW p \in Pairs, NEW t \in Threads, StatusDone(p, t)
    PROVE  LedgerInv'
<1> DEFINE rec == thread[<<p, t>>]
           profit == [AwaitInsert("take_profit", positionBase[p], "rest", rec.ret)
                         EXCEPT !.order = rec.order]
<1>1. /\ Prepared(p, rec, orders) /\ rec.at = "status" /\ IsOrderOf(rec.order, p, orders)
      /\ t \notin Slots
    BY DEF Inv, References, ChainsPrepared, Prepared, StatusDone, LedgerInv, IntentsRest, Rests
<1>2. PICK new : /\ thread' = [thread EXCEPT ![<<p, t>>] = new]
                 /\ new = profit \/ new = Return(rec)
    BY DEF StatusDone
<1>3. StatusRow(rec) /\ UNCHANGED <<positionBase, dbPos, faults>>
    BY DEF StatusDone
<1>4. PurposesStay
    <2>1. rec.order \in Ids /\ orders[rec.order] \in OrderRow
        BY <1>1 DEF IsOrderOf, Inv, TypeOK, RowsOK
    <2> QED
        BY <1>3, <2>1 DEF PurposesStay, StatusRow, OrderRow, Inv, TypeOK, RowsOK
<1>5. t = "tick" => Tick(p).at # "upsert"
    BY <1>1 DEF Tick
<1>6. profit.at = "insert"
    BY DEF AwaitInsert, Off
<1> HIDE DEF rec, profit
<1>7. new.at # "upsert"
    BY <1>1, <1>2, <1>6, ReturnRests
<1> QED
    BY <1>1, <1>2, <1>3, <1>4, <1>5, <1>7, LedgerMoves

LEMMA FailLedger ==
    ASSUME Inv, LedgerInv, NEW p \in Pairs, NEW t \in Threads, Fail(p, t)
    PROVE  LedgerInv'
<1>1. thread' = [thread EXCEPT ![<<p, t>>] = Off] /\ "fail" \in faults'
    BY DEF Fail, Rejected
<1>2. Rests(Off)
    BY DEF Off, Rests
<1>3. IntentsRest'
    BY <1>1, <1>2, RestsKept DEF LedgerInv
<1> QED
    BY <1>1, <1>3 DEF LedgerInv

LEMMA RestartLedger ==
    ASSUME Inv, Restart
    PROVE  LedgerInv'
<1>1. thread' = [x \in Pairs \X Threads |-> Off] /\ positionBase' = dbPos /\ dbPos' = dbPos
    BY DEF Restart
<1>2. \A p \in Pairs, t \in Threads : thread'[<<p, t>>] = Off
    BY <1>1
<1>3. Off.at = "off" /\ Off.next = "none"
    BY DEF Off
<1> QED
    BY <1>1, <1>2, <1>3, SlotsAreThreads DEF LedgerInv, IntentsRest, Rests, LedgerFollows, Tick

(* At rest the fill rows replay to the position, through crashes and restarts, *)
(* slipped and partial fills and every overlap of the chains, while no store  *)
(* call has failed: on a broker of split clips whatever is enabled, and on a   *)
(* pooled one whose intents flatten nothing (Accounting.apply, restore).      *)
THEOREM LedgerIsPositionHolds ==
    ASSUME ~Pooled \/ "exit" \notin Enabled
    PROVE  Spec => []LedgerIsPosition
<1>1. Init => Inv /\ LedgerInv
    <2> SUFFICES ASSUME Init PROVE LedgerInv
        BY InitInv DEF BrokerInv
    <2>1. \A p \in Pairs, t \in Threads : thread[<<p, t>>] = Off
        BY DEF Init
    <2>2. Off.at = "off" /\ Off.next = "none"
        BY DEF Off
    <2> QED
        BY <2>1, <2>2, SlotsAreThreads DEF Init, LedgerInv, IntentsRest, Rests, LedgerFollows, Tick
<1>2. Inv /\ LedgerInv /\ [Next]_vars => Inv' /\ LedgerInv'
    <2> SUFFICES ASSUME Inv, LedgerInv, [Next]_vars PROVE LedgerInv'
        BY NextInv
    <2>1. CASE UNCHANGED vars
        BY <2>1, LedgerStill DEF vars
    <2>2. CASE \E p \in Pairs : Engine(p) \/ Ticks(p) \/ Market(p)
        BY <2>2, EngineLedger, TicksLedger, MarketLedger
    <2>3. CASE \E p \in Pairs, t \in Threads : Answers(p, t) \/ Fail(p, t)
        BY <2>3, InsertDoneLedger, CancelDoneLedger, UpsertDoneLedger, StatusDoneLedger,
            FailLedger DEF Answers
    <2>4. CASE Restart
        BY <2>4, RestartLedger
    <2> QED
        BY <2>1, <2>2, <2>3, <2>4 DEF Next
<1>3. LedgerInv => LedgerIsPosition
    BY SlotsAreThreads DEF LedgerInv, LedgerFollows, LedgerIsPosition, Quiet, Tick
<1> QED
    BY <1>1, <1>2, <1>3, PTL DEF Spec

-----------------------------------------------------------------------------
(* The cash of the pool and the fill rows.  A fill moves the cash before its   *)
(* row is written, so the cash is ahead of the rows by the fills awaited.     *)

Sells(id, rows) == rows[id].purpose # "entry"

Signed(purpose, size) == IF purpose = "entry" THEN -size ELSE size

(* What each chain has moved and not yet recorded.                           *)
Owed ==
    [x \in Pairs \X Threads |->
        IF thread[x].at = "upsert"
        THEN Signed(orders[thread[x].order].purpose, thread[x].size) ELSE 0]

CashInv ==
    Pooled /\ faults = {} =>
        poolCash = BANKROLL + Total(Moved, Ids) + Total(Owed, Pairs \X Threads)

(* Rows that come come unfilled, and no row fills.                           *)
FilledStays ==
    \A id \in Ids :
        IF orders[id] = None THEN orders'[id] = None \/ orders'[id].filled = 0
        ELSE orders'[id].filled = orders[id].filled

(* No answer of the store takes a row away or changes what it is for.        *)
LEMMA RowsStand ==
    ASSUME Inv, NEW p \in Pairs, NEW t \in Threads, Answers(p, t) \/ Fail(p, t)
    PROVE  RowsStay /\ PurposesStay
<1> DEFINE rec == thread[<<p, t>>]
           k == rec.order
<1>0. /\ Prepared(p, rec, orders) /\ orders \in [Ids -> OrderRow \cup {None}]
      /\ None \notin OrderRow /\ rec \in Chain
    BY NamesAssumption DEF Inv, TypeOK, RowsOK, References, ChainsPrepared, Prepared
<1>1. CASE UNCHANGED orders
    BY <1>1 DEF RowsStay, PurposesStay
<1>2. CASE /\ rec.at = "insert"
           /\ \E id \in Ids : /\ Fresh(id)
                              /\ orders' = [orders EXCEPT ![id] = Row(p, rec.purpose, rec.size)]
    <2>1. PICK id \in Ids : /\ orders[id] = None
                            /\ orders' = [orders EXCEPT ![id] = Row(p, rec.purpose, rec.size)]
        BY <1>2 DEF Fresh
    <2> QED
        BY <1>0, <2>1 DEF RowsStay, PurposesStay
<1>3. ASSUME IsOrderOf(k, p, orders), NEW row, row \in OrderRow,
             row.pair = orders[k].pair, row.purpose = orders[k].purpose,
             orders' = [orders EXCEPT ![k] = row]
      PROVE  RowsStay /\ PurposesStay
    BY <1>0, <1>3 DEF RowsStay, PurposesStay, IsOrderOf
<1>4. rec.at \in {"cancel", "upsert", "status"} =>
          /\ IsOrderOf(k, p, orders) /\ k \in Ids /\ orders[k] \in OrderRow
          /\ remaining[k] \in Nat
    BY <1>0 DEF Prepared, IsOrderOf, Inv, TypeOK, MemoryOK
<1>5. CASE rec.at = "cancel" /\ orders' = [orders EXCEPT ![k].status = "canceled"]
    <2> DEFINE row == [orders[k] EXCEPT !.status = "canceled"]
    <2>1. row \in OrderRow /\ row.pair = orders[k].pair /\ row.purpose = orders[k].purpose
        BY <1>4, <1>5 DEF OrderRow
    <2> HIDE DEF k
    <2> QED
        BY <1>3, <1>4, <1>5, <2>1
<1>6. CASE rec.at = "upsert" /\ FillRow(rec)
    <2> DEFINE row == [orders[k] EXCEPT !.filled = @ + rec.size]
    <2>1. row \in OrderRow /\ row.pair = orders[k].pair /\ row.purpose = orders[k].purpose
        BY <1>0, <1>4, <1>6 DEF OrderRow, Chain
    <2>2. orders' = [orders EXCEPT ![k] = row]
        BY <1>6 DEF FillRow
    <2> HIDE DEF k, row
    <2> QED
        BY <1>3, <1>4, <1>6, <2>1, <2>2
<1>7. CASE rec.at = "status" /\ StatusRow(rec)
    <2> DEFINE status == IF rec.slipped /\ remaining[k] > 0 THEN "canceled"
                         ELSE IF rec.done THEN "filled" ELSE "partial"
               size == IF rec.slipped THEN 0 ELSE remaining[k]
               row == [orders[k] EXCEPT !.status = status, !.size = size]
    <2>1. status \in {"open", "partial", "filled", "canceled"} /\ size \in Nat
        BY <1>4, <1>7
    <2>2. orders' = [orders EXCEPT ![k] = row]
        BY <1>0, <1>4, <1>7 DEF StatusRow
    <2> HIDE DEF status, size
    <2>3. row \in OrderRow /\ row.pair = orders[k].pair /\ row.purpose = orders[k].purpose
        BY <1>4, <1>7, <2>1 DEF OrderRow
    <2> HIDE DEF k, row
    <2> QED
        BY <1>3, <1>4, <1>7, <2>2, <2>3
<1>8. \/ UNCHANGED orders
      \/ rec.at = "insert" /\ \E id \in Ids :
             Fresh(id) /\ orders' = [orders EXCEPT ![id] = Row(p, rec.purpose, rec.size)]
      \/ rec.at = "cancel" /\ orders' = [orders EXCEPT ![k].status = "canceled"]
      \/ rec.at = "upsert" /\ FillRow(rec)
      \/ rec.at = "status" /\ StatusRow(rec)
    BY DEF Answers, InsertDone, CancelDone, UpsertDone, StatusDone, Fail
<1> QED
    BY <1>1, <1>2, <1>5, <1>6, <1>7, <1>8

LEMMA ChainsAreFinite == IsFiniteSet(Ids) /\ IsFiniteSet(Pairs \X Threads)
<1>1. IsFiniteSet(Ids)
    BY SizesAssumption, FS_Interval DEF Ids
<1>2. IsFiniteSet(Threads)
    BY NamesAssumption, FS_Singleton, FS_Union DEF Threads
<1> QED
    BY <1>1, <1>2, NamesAssumption, FS_Product

(* Both are integers, entry by entry.                                        *)
LEMMA MovedAndOwedAreNumbers ==
    ASSUME Inv
    PROVE  /\ \A id \in Ids : Moved[id] \in Int
           /\ \A x \in Pairs \X Threads : Owed[x] \in Int
           /\ Total(Moved, Ids) \in Int /\ Total(Owed, Pairs \X Threads) \in Int
<1>1. \A id \in Ids : orders[id] # None => orders[id].filled \in Nat
    BY DEF Inv, TypeOK, RowsOK, OrderRow
<1>2. \A x \in Pairs \X Threads : thread[x].size \in Nat
    BY DEF Inv, TypeOK, Chain
<1>3. \A id \in Ids : Moved[id] \in Int
    BY <1>1 DEF Moved
<1>4. \A x \in Pairs \X Threads : Owed[x] \in Int
    BY <1>2 DEF Owed, Signed
<1> QED
    BY <1>3, <1>4, ChainsAreFinite, TotalType

LEMMA MovedStays ==
    ASSUME RowsStay, PurposesStay, FilledStays
    PROVE  Moved' = Moved
<1>1. ASSUME NEW id \in Ids
      PROVE  (IF orders'[id] = None THEN 0
              ELSE IF orders'[id].purpose = "entry" THEN -orders'[id].filled
                   ELSE orders'[id].filled) =
             (IF orders[id] = None THEN 0
              ELSE IF orders[id].purpose = "entry" THEN -orders[id].filled
                   ELSE orders[id].filled)
    BY DEF RowsStay, PurposesStay, FilledStays
<1> QED
    BY <1>1 DEF Moved

(* A chain that moves on changes only what it owes itself.                   *)
LEMMA OthersOwe ==
    ASSUME Inv, RowsStay, PurposesStay, NEW p \in Pairs, NEW t \in Threads, NEW rec,
           thread' = [thread EXCEPT ![<<p, t>>] = rec]
    PROVE  \A x \in (Pairs \X Threads) \ {<<p, t>>} : Owed'[x] = Owed[x]
<1> SUFFICES ASSUME NEW q \in Pairs, NEW u \in Threads, <<q, u>> # <<p, t>>
             PROVE  Owed'[<<q, u>>] = Owed[<<q, u>>]
    OBVIOUS
<1> DEFINE x == <<q, u>>
<1>1. thread'[x] = thread[x] /\ x \in Pairs \X Threads
    BY DEF Inv, TypeOK
<1>2. thread[x].at = "upsert" => IsOrderOf(thread[x].order, q, orders)
    BY DEF Inv, References, ChainsPrepared, Prepared
<1>3. thread[x].at = "upsert" =>
          orders'[thread[x].order].purpose = orders[thread[x].order].purpose
    BY <1>2 DEF IsOrderOf, PurposesStay
<1> QED
    BY <1>1, <1>3 DEF Owed

(* A step that moves no chain, no row and no cash.                           *)
LEMMA CashStill ==
    ASSUME CashInv, UNCHANGED <<thread, orders, poolCash, faults>>
    PROVE  CashInv'
<1>1. Moved' = Moved /\ Owed' = Owed
    BY DEF Moved, Owed
<1> QED
    BY <1>1 DEF CashInv

(* A chain moves on that neither fills nor records a fill.                   *)
LEMMA CashMoves ==
    ASSUME Inv, CashInv, NEW p \in Pairs, NEW t \in Threads, NEW rec,
           thread' = [thread EXCEPT ![<<p, t>>] = rec],
           thread[<<p, t>>].at # "upsert", rec.at # "upsert",
           RowsStay, PurposesStay, FilledStays, UNCHANGED <<poolCash, faults>>
    PROVE  CashInv'
<1>1. Moved' = Moved
    BY MovedStays
<1>2. thread'[<<p, t>>] = rec
    BY DEF Inv, TypeOK
<1>3. Owed'[<<p, t>>] = Owed[<<p, t>>]
    BY <1>2 DEF Owed
<1>4. \A x \in Pairs \X Threads : Owed'[x] = Owed[x] /\ Owed[x] \in Int
    BY <1>3, OthersOwe, MovedAndOwedAreNumbers
<1>5. Total(Owed', Pairs \X Threads) = Total(Owed, Pairs \X Threads)
    BY <1>4, ChainsAreFinite, TotalSame
<1> QED
    BY <1>1, <1>5 DEF CashInv

(* A fill: the cash moves, and its chain owes the row.                       *)
LEMMA CashFills ==
    ASSUME Inv, CashInv, NEW p \in Pairs, NEW t \in Threads, NEW id \in Ids,
           NEW purpose, orders'[id].purpose = purpose, NEW left, NEW size \in Nat,
           NEW slips, NEW ret, Fill(p, t, id, purpose, left, size, slips, ret),
           thread[<<p, t>>].at # "upsert",
           RowsStay, PurposesStay, FilledStays, UNCHANGED faults
    PROVE  CashInv'
<1> DEFINE rec == [Off EXCEPT !.at = "upsert", !.order = id, !.size = size, !.ret = ret,
                              !.done = (left - size = 0 \/ slips), !.slipped = slips]
           x == <<p, t>>
<1> SUFFICES ASSUME Pooled, faults = {}
             PROVE  poolCash' = BANKROLL + Total(Moved', Ids) + Total(Owed', Pairs \X Threads)
    BY DEF CashInv
<1>1. /\ thread' = [thread EXCEPT ![x] = rec]
      /\ poolCash' = poolCash + CashOf(Side(purpose), size)
    BY DEF Fill
<1>2. rec.at = "upsert" /\ rec.order = id /\ rec.size = size
    BY DEF Off
<1> HIDE DEF rec
<1>3. thread'[x] = rec /\ x \in Pairs \X Threads
    BY <1>1 DEF Inv, TypeOK
<1>4. Owed'[x] = Signed(purpose, size) /\ Owed[x] = 0
    BY <1>2, <1>3 DEF Owed
<1>5. CashOf(Side(purpose), size) = Signed(purpose, size) /\ Signed(purpose, size) \in Int
    BY DEF CashOf, Side, Signed
<1>6. \A y \in (Pairs \X Threads) \ {x} : Owed'[y] = Owed[y]
    BY <1>1, OthersOwe
<1>7. Total(Owed', Pairs \X Threads) = Total(Owed, Pairs \X Threads) - 0 + Signed(purpose, size)
    <2>1. Owed'[x] \in Int /\ \A y \in Pairs \X Threads : Owed[y] \in Int
        BY <1>4, <1>5, MovedAndOwedAreNumbers
    <2> HIDE DEF x
    <2>2. Total(Owed', Pairs \X Threads) = Total(Owed, Pairs \X Threads) - Owed[x] + Owed'[x]
        BY <1>3, <1>6, <2>1, ChainsAreFinite, TotalChanges
    <2> QED
        BY <1>4, <2>2
<1>8. Total(Moved', Ids) = Total(Moved, Ids)
    BY MovedStays
<1>9. /\ poolCash = BANKROLL + Total(Moved, Ids) + Total(Owed, Pairs \X Threads)
      /\ Total(Moved, Ids) \in Int /\ Total(Owed, Pairs \X Threads) \in Int
      /\ BANKROLL \in Int
    BY MovedAndOwedAreNumbers, SizesAssumption DEF CashInv
<1> DEFINE rows == Total(Moved, Ids)
           owed == Total(Owed, Pairs \X Threads)
           rowsNow == Total(Moved', Ids)
           owedNow == Total(Owed', Pairs \X Threads)
           moved == Signed(purpose, size)
<1>10. /\ poolCash' = poolCash + moved /\ owedNow = owed - 0 + moved /\ rowsNow = rows
       /\ poolCash = BANKROLL + rows + owed /\ rows \in Int /\ owed \in Int /\ moved \in Int
    BY <1>1, <1>5, <1>7, <1>8, <1>9
<1> HIDE DEF rows, owed, rowsNow, owedNow, moved
<1>11. poolCash' = BANKROLL + rowsNow + owedNow
    BY <1>9, <1>10
<1> QED
    BY <1>11 DEF rowsNow, owedNow

(* The row lands: what the chain owed is in the row.                         *)
LEMMA CashRecorded ==
    ASSUME Inv, Inv', CashInv, NEW p \in Pairs, NEW t \in Threads, UpsertDone(p, t)
    PROVE  CashInv'
<1> DEFINE x == <<p, t>>
           id == thread[x].order
           moved == Signed(orders[id].purpose, thread[x].size)
<1> SUFFICES ASSUME Pooled, faults = {}
             PROVE  poolCash' = BANKROLL + Total(Moved', Ids) + Total(Owed', Pairs \X Threads)
    BY DEF CashInv, UpsertDone
<1>1. /\ thread[x].at = "upsert" /\ x \in Pairs \X Threads
      /\ thread' = [thread EXCEPT ![x].at = "status"]
      /\ poolCash' = poolCash
    BY DEF UpsertDone
<1>2. /\ IsOrderOf(id, p, orders) /\ thread[x] \in Chain /\ thread[x].size \in Nat
      /\ thread \in [Pairs \X Threads -> Chain]
    BY <1>1 DEF Inv, TypeOK, References, ChainsPrepared, Prepared, Chain
<1>3. RowsStay /\ PurposesStay
    BY RowsStand DEF Answers
<1>4. thread'[x].at = "status"
    BY <1>1, <1>2 DEF Chain
<1>5. thread' = [thread EXCEPT ![x] = [thread[x] EXCEPT !.at = "status"]]
    BY <1>1
<1>6. \A y \in (Pairs \X Threads) \ {x} : Owed'[y] = Owed[y]
    BY <1>3, <1>5, OthersOwe
<1>7. Owed'[x] = 0 /\ Owed[x] = moved /\ moved \in Int
    BY <1>1, <1>2, <1>4 DEF Owed, Signed
<1>8. /\ orders' = [orders EXCEPT ![id].filled = @ + thread[x].size]
      /\ orders \in [Ids -> OrderRow \cup {None}]
    BY DEF UpsertDone, FillRow, Inv, TypeOK, RowsOK
<1>9. /\ orders[id] \in OrderRow /\ id \in Ids /\ orders[id].filled \in Nat
      /\ orders[id] # None
    BY <1>2, <1>8 DEF IsOrderOf, OrderRow
<1>10. /\ orders'[id].filled = orders[id].filled + thread[x].size
       /\ orders'[id].purpose = orders[id].purpose /\ orders'[id] # None
    BY <1>3, <1>8, <1>9 DEF OrderRow, RowsStay
<1>11. Moved'[id] = Moved[id] + moved
    <2>1. /\ Moved[id] = Signed(orders[id].purpose, orders[id].filled)
          /\ Moved'[id] = Signed(orders[id].purpose, orders[id].filled + thread[x].size)
        BY <1>9, <1>10 DEF Moved, Signed
    <2> DEFINE a == orders[id].filled
               b == thread[x].size
               s == orders[id].purpose
    <2>2. a \in Nat /\ b \in Nat
        BY <1>2, <1>9
    <2> HIDE DEF a, b, s
    <2>3. Signed(s, a + b) = Signed(s, a) + Signed(s, b)
        BY <2>2 DEF Signed
    <2> QED
        BY <2>1, <2>3 DEF a, b, s
<1>12. \A k \in Ids \ {id} : Moved'[k] = Moved[k]
    <2>1. \A k \in Ids \ {id} : orders'[k] = orders[k]
        BY <1>8
    <2> QED
        BY <2>1 DEF Moved
<1>13. \A k \in Ids : Moved[k] \in Int /\ Moved'[k] \in Int
    BY MovedAndOwedAreNumbers, <1>7, <1>11, <1>12, <1>9
<1>14. Total(Moved', Ids) = Total(Moved, Ids) - Moved[id] + (Moved[id] + moved)
    BY <1>9, <1>11, <1>12, <1>13, ChainsAreFinite, TotalChanges
<1>15. Total(Owed', Pairs \X Threads) = Total(Owed, Pairs \X Threads) - moved + 0
    <2>1. Owed'[x] \in Int /\ \A y \in Pairs \X Threads : Owed[y] \in Int
        BY <1>7, MovedAndOwedAreNumbers
    <2>2. x \in Pairs \X Threads
        BY <1>1
    <2> HIDE DEF x, moved, id
    <2>3. Total(Owed', Pairs \X Threads) = Total(Owed, Pairs \X Threads) - Owed[x] + Owed'[x]
        BY <1>6, <2>1, <2>2, ChainsAreFinite, TotalChanges
    <2> QED
        BY <1>7, <2>3
<1>16. /\ poolCash = BANKROLL + Total(Moved, Ids) + Total(Owed, Pairs \X Threads)
       /\ Total(Moved, Ids) \in Int /\ Total(Owed, Pairs \X Threads) \in Int
       /\ BANKROLL \in Int /\ Moved[id] \in Int
    BY MovedAndOwedAreNumbers, SizesAssumption, <1>9 DEF CashInv
<1> DEFINE rows == Total(Moved, Ids)
           owed == Total(Owed, Pairs \X Threads)
           rowsNow == Total(Moved', Ids)
           owedNow == Total(Owed', Pairs \X Threads)
           old == Moved[id]
<1>17. /\ poolCash' = poolCash /\ owedNow = owed - moved + 0
       /\ rowsNow = rows - old + (old + moved)
       /\ poolCash = BANKROLL + rows + owed
       /\ rows \in Int /\ owed \in Int /\ moved \in Int /\ old \in Int
    BY <1>1, <1>7, <1>14, <1>15, <1>16
<1> HIDE DEF moved, id, rows, owed, rowsNow, owedNow, old
<1>18. poolCash' = BANKROLL + rowsNow + owedNow
    BY <1>16, <1>17
<1> QED
    BY <1>18 DEF rowsNow, owedNow

LEMMA EngineCash ==
    ASSUME Inv, CashInv, NEW p \in Pairs, Engine(p)
    PROVE  CashInv'
<1>1. CASE DecideStart(p) \/ DecideHold(p)
    BY <1>1, CashStill DEF DecideStart, DecideHold
<1>2. UNCHANGED orders => RowsStay /\ PurposesStay /\ FilledStays
    BY DEF RowsStay, PurposesStay, FilledStays
<1>3. CASE Enter(p)
    <2>1. PICK usd \in 1 .. Lot, t \in Slots :
              /\ thread[<<p, t>>].at = "off"
              /\ thread' = [thread EXCEPT ![<<p, t>>] = AwaitInsert("entry", usd, "rest", "off")]
        BY <1>3 DEF Enter
    <2>2. AwaitInsert("entry", usd, "rest", "off").at # "upsert"
        BY DEF AwaitInsert, Off
    <2>3. UNCHANGED <<orders, poolCash, faults>>
        BY <1>3 DEF Enter
    <2> QED
        BY <1>2, <2>1, <2>2, <2>3, CashMoves, SlotsAreThreads
<1>4. CASE Exit(p)
    <2>1. PICK q \in Pairs, t \in Slots :
              /\ thread[<<q, t>>].at = "off"
              /\ \E rec \in OrNoPrice(IF Pooled THEN TakerFlatten(q, "exit", "off")
                                      ELSE ReplaceWithExit(q, "off"), "off") :
                     thread' = [thread EXCEPT ![<<q, t>>] = rec]
        BY <1>4 DEF Exit
    <2>2. PICK rec : /\ rec.at # "upsert"
                     /\ thread' = [thread EXCEPT ![<<q, t>>] = rec]
        BY <2>1 DEF OrNoPrice, TakerFlatten, ReplaceWithExit, SellAll, AwaitInsert,
            AwaitCancel, At, Off
    <2>3. UNCHANGED <<orders, poolCash, faults>>
        BY <1>4 DEF Exit
    <2> QED
        BY <1>2, <2>1, <2>2, <2>3, CashMoves, SlotsAreThreads
<1> QED
    BY <1>1, <1>3, <1>4 DEF Engine

LEMMA MarketCash ==
    ASSUME CashInv, NEW p \in Pairs, Market(p)
    PROVE  CashInv'
BY CashStill DEF Market, Ages, HorizonExpires, MidMoves, FeedChanges

LEMMA TicksCash ==
    ASSUME Inv, CashInv, NEW p \in Pairs, Ticks(p)
    PROVE  CashInv'
<1>0. /\ thread[<<p, "tick">>].at # "upsert" /\ "tick" \in Threads
      /\ Prepared(p, thread[<<p, "tick">>], orders)
    BY SlotsAreThreads DEF Ticks, TickStart, Guard, Order, OnPrint, PrintsEnd, Late, Horizon,
        Inv, References, ChainsPrepared
<1>1. UNCHANGED orders => RowsStay /\ PurposesStay /\ FilledStays
    BY DEF RowsStay, PurposesStay, FilledStays
<1>2. CASE \E rec : rec.at # "upsert" /\ Go(p, rec) /\ UNCHANGED poolCash
    BY <1>0, <1>1, <1>2, CashMoves DEF Go
<1>3. ASSUME NEW id, IsOrderOf(id, p, orders), NEW left, NEW size \in Nat, NEW slips, NEW ret,
             Fill(p, "tick", id, orders[id].purpose, left, size, slips, ret),
             UNCHANGED <<orders, faults>>
      PROVE  CashInv'
    <2>1. id \in Ids /\ orders'[id].purpose = orders[id].purpose
        BY <1>3 DEF IsOrderOf
    <2> QED
        BY <1>0, <1>1, <1>3, <2>1, CashFills
<1>4. \A id : IsOrderOf(id, p, orders) => remaining[id] \in Nat
    BY DEF IsOrderOf, Inv, TypeOK, MemoryOK
<1>5. CASE TickStart(p)
    BY <1>2, <1>5 DEF TickStart, memory, At, AwaitCancel, Off
<1>6. CASE Guard(p)
    BY <1>2, <1>6 DEF Guard, memory, OrNoPrice, TakerFlatten, SellAll, AwaitInsert,
        AwaitCancel, At, Off
<1>7. CASE Order(p)
    <2>1. CASE open[p] # None /\ Resting(p, {"stop"})
        <3>1. orders[open[p]].purpose = "stop" /\ IsOrderOf(open[p], p, orders)
            BY <2>1 DEF Resting, Inv, References, SlotsRefer
        <3> QED
            BY <1>3, <1>4, <1>7, <2>1, <3>1 DEF Order
    <2>2. CASE ~(open[p] # None /\ Resting(p, {"stop"}))
        BY <1>2, <1>7, <2>2 DEF Order, memory, At, Off
    <2> QED
        BY <2>1, <2>2
<1>8. CASE OnPrint(p)
    <2> DEFINE id == thread[<<p, "tick">>].order
    <2>1. IsOrderOf(id, p, orders) /\ remaining[id] \in Nat
        BY <1>0, <1>4, <1>8 DEF OnPrint, Prepared
    <2>2. makerFillSize(remaining[id], PrintSize) \in Nat
        BY <2>1, SizesAssumption DEF makerFillSize, Smaller
    <2>3. PICK slips : Fill(p, "tick", id, orders[id].purpose, remaining[id],
                            makerFillSize(remaining[id], PrintSize), slips, "prints")
        BY <1>8 DEF OnPrint
    <2>4. UNCHANGED <<orders, faults>>
        BY <1>8 DEF OnPrint
    <2> QED
        BY <1>3, <2>1, <2>2, <2>3, <2>4
<1>9. CASE PrintsEnd(p)
    BY <1>2, <1>9 DEF PrintsEnd, memory, At, Off
<1>10. CASE Late(p)
    <2> DEFINE id == thread[<<p, "tick">>].order
    <2>1. CASE /\ Go(p, At("guard2")) \/ Go(p, AwaitCancel(id, "drop", "guard2"))
               /\ UNCHANGED memory
        BY <1>2, <2>1 DEF memory, At, AwaitCancel, Off
    <2>2. IsOrderOf(id, p, orders) /\ remaining[id] \in Nat
        BY <1>0, <1>4, <1>10 DEF Late, Prepared
    <2> QED
        BY <1>3, <1>10, <2>1, <2>2 DEF Late
<1>11. CASE Horizon(p)
    BY <1>2, <1>11 DEF Horizon, memory, OrNoPrice, ReplaceWithExit, SellAll, AwaitInsert,
        AwaitCancel, At, Off
<1> QED
    BY <1>5, <1>6, <1>7, <1>8, <1>9, <1>10, <1>11 DEF Ticks

LEMMA InsertDoneCash ==
    ASSUME Inv, CashInv, NEW p \in Pairs, NEW t \in Threads, InsertDone(p, t)
    PROVE  CashInv'
<1> DEFINE rec == thread[<<p, t>>]
<1>1. Prepared(p, rec, orders) /\ rec.at = "insert" /\ rec.size \in Nat
    BY DEF Inv, TypeOK, Chain, References, ChainsPrepared, InsertDone
<1>2. PICK id \in Ids :
         /\ Fresh(id)
         /\ orders' = [orders EXCEPT ![id] = Row(p, rec.purpose, rec.size)]
         /\ IF rec.next = "fill"
            THEN Fill(p, t, id, rec.purpose, rec.size, rec.size, FALSE, rec.ret)
            ELSE /\ thread' = [thread EXCEPT ![<<p, t>>] = Return(rec)]
                 /\ UNCHANGED poolCash
    BY DEF InsertDone
<1>3. UNCHANGED faults
    BY DEF InsertDone
<1>4. RowsStay /\ PurposesStay
    BY RowsStand DEF Answers
<1>5. FilledStays /\ orders'[id].purpose = rec.purpose
    BY <1>2 DEF Inv, TypeOK, RowsOK, FilledStays, Fresh, Row
<1> HIDE DEF rec
<1>6. CASE rec.next = "fill"
    BY <1>1, <1>2, <1>3, <1>4, <1>5, <1>6, CashFills DEF rec
<1>7. CASE rec.next # "fill"
    <2>1. Return(rec).at # "upsert"
        BY <1>1, ReturnRests
    <2> QED
        BY <1>1, <1>2, <1>3, <1>4, <1>5, <1>7, <2>1, CashMoves DEF rec
<1> QED
    BY <1>6, <1>7

LEMMA CancelDoneCash ==
    ASSUME Inv, CashInv, NEW p \in Pairs, NEW t \in Threads, CancelDone(p, t)
    PROVE  CashInv'
<1> DEFINE rec == thread[<<p, t>>]
<1>1. /\ Prepared(p, rec, orders) /\ rec.at = "cancel"
      /\ IsOrderOf(rec.order, p, orders) /\ rec.next \in {"drop", "flatten", "exit"}
    BY DEF Inv, References, ChainsPrepared, Prepared, CancelDone
<1>2. PICK new :
         /\ thread' = [thread EXCEPT ![<<p, t>>] = new]
         /\ \/ new = Return(rec)
            \/ new = At(rec.ret)
            \/ \E purpose, next : new = SellAll(p, purpose, next, rec.ret)
    BY <1>1 DEF CancelDone, OrNoPrice
<1>3. orders' = [orders EXCEPT ![rec.order].status = "canceled"]
    BY DEF CancelDone
<1>4. RowsStay /\ PurposesStay /\ UNCHANGED <<poolCash, faults>>
    BY RowsStand DEF Answers, CancelDone
<1>5. FilledStays
    <2>1. rec.order \in Ids /\ orders[rec.order] \in OrderRow
        BY <1>1 DEF IsOrderOf, Inv, TypeOK, RowsOK
    <2> QED
        BY <1>1, <1>3, <2>1 DEF FilledStays, IsOrderOf, OrderRow, Inv, TypeOK, RowsOK
<1>6. new.at # "upsert"
    <2>1. Return(rec).at # "upsert" /\ At(rec.ret).at # "upsert"
        BY <1>1, ReturnRests DEF Rests
    <2>2. \A purpose, next : SellAll(p, purpose, next, rec.ret).at # "upsert"
        BY <2>1 DEF SellAll, AwaitInsert, Off
    <2> QED
        BY <1>2, <2>1, <2>2
<1> QED
    BY <1>1, <1>2, <1>4, <1>5, <1>6, CashMoves

LEMMA StatusDoneCash ==
    ASSUME Inv, CashInv, NEW p \in Pairs, NEW t \in Threads, StatusDone(p, t)
    PROVE  CashInv'
<1> DEFINE rec == thread[<<p, t>>]
           profit == [AwaitInsert("take_profit", positionBase[p], "rest", rec.ret)
                         EXCEPT !.order = rec.order]
<1>1. Prepared(p, rec, orders) /\ rec.at = "status" /\ IsOrderOf(rec.order, p, orders)
    BY DEF Inv, References, ChainsPrepared, Prepared, StatusDone
<1>2. PICK new : /\ thread' = [thread EXCEPT ![<<p, t>>] = new]
                 /\ new = profit \/ new = Return(rec)
    BY DEF StatusDone
<1>3. StatusRow(rec) /\ UNCHANGED <<poolCash, faults>>
    BY DEF StatusDone
<1>4. RowsStay /\ PurposesStay
    BY RowsStand DEF Answers
<1>5. FilledStays
    <2>1. rec.order \in Ids /\ orders[rec.order] \in OrderRow
        BY <1>1 DEF IsOrderOf, Inv, TypeOK, RowsOK
    <2> QED
        BY <1>1, <1>3, <2>1 DEF FilledStays, IsOrderOf, StatusRow, OrderRow, Inv, TypeOK, RowsOK
<1>6. profit.at = "insert"
    BY DEF AwaitInsert, Off
<1>7. new.at # "upsert"
    BY <1>1, <1>2, <1>6, ReturnRests
<1> HIDE DEF profit
<1> QED
    BY <1>1, <1>2, <1>3, <1>4, <1>5, <1>7, CashMoves

(* At rest, and until a call fails or the process crashes, the cash of the     *)
(* pool is what the fill rows paid and got: for every number of pairs and of   *)
(* chains, and two flattens of one position included (PaperBroker.fill).     *)
THEOREM CashFollowsTheRowsHolds == Spec => []CashFollowsTheRows
<1>1. Init => Inv /\ CashInv
    <2> SUFFICES ASSUME Init PROVE CashInv
        BY InitInv DEF BrokerInv
    <2>1. \A id \in Ids : Moved[id] = 0
        BY DEF Init, Moved
    <2>2. \A x \in Pairs \X Threads : Owed[x] = 0
        BY DEF Init, Owed, Off
    <2>3. Total(Moved, Ids) = 0 /\ Total(Owed, Pairs \X Threads) = 0
        BY <2>1, <2>2, ChainsAreFinite, TotalOfZero
    <2> QED
        BY <2>3, SizesAssumption DEF Init, CashInv
<1>2. Inv /\ CashInv /\ [Next]_vars => Inv' /\ CashInv'
    <2> SUFFICES ASSUME Inv, CashInv, [Next]_vars PROVE CashInv'
        BY NextInv
    <2>0. Inv'
        BY NextInv
    <2>1. CASE UNCHANGED vars
        BY <2>1, CashStill DEF vars
    <2>2. CASE \E p \in Pairs : Engine(p) \/ Ticks(p) \/ Market(p)
        BY <2>2, EngineCash, TicksCash, MarketCash
    <2>3. CASE \E p \in Pairs, t \in Threads : Answers(p, t)
        BY <2>0, <2>3, InsertDoneCash, CancelDoneCash, CashRecorded, StatusDoneCash DEF Answers
    <2>4. CASE Restart \/ \E p \in Pairs, t \in Threads : Fail(p, t)
        <3>1. faults' # {}
            BY <2>4 DEF Restart, Fail
        <3> QED
            BY <3>1 DEF CashInv
    <2> QED
        BY <2>1, <2>2, <2>3, <2>4 DEF Next
<1>3. Inv /\ CashInv => CashFollowsTheRows
    <2> SUFFICES ASSUME Inv, CashInv, Pooled, faults = {}, \A p \in Pairs : Quiet(p)
                 PROVE  poolCash = BANKROLL + MapThenSumSet(LAMBDA id : Moved[id], Ids)
        BY DEF CashFollowsTheRows
    <2>1. \A x \in Pairs \X Threads : Owed[x] = 0
        BY DEF Quiet, Owed
    <2>2. Total(Owed, Pairs \X Threads) = 0
        BY <2>1, ChainsAreFinite, TotalOfZero
    <2>3. Total(Moved, Ids) \in Int /\ BANKROLL \in Int
        BY MovedAndOwedAreNumbers, SizesAssumption
    <2>4. poolCash = BANKROLL + Total(Moved, Ids)
        BY <2>2, <2>3 DEF CashInv
    <2> QED
        BY <2>4 DEF Total
<1> QED
    BY <1>1, <1>2, <1>3, PTL DEF Spec

SlotsOff(p) == \A t \in Slots : thread[<<p, t>>].at = "off"

Entering(rec) == rec.at = "insert" /\ rec.purpose = "entry"

-----------------------------------------------------------------------------
(* The way out of a long.  Where an intent only rests orders and a decision   *)
(* waits for the last intent, a pair has one intent chain at a time, none      *)
(* while an entry rests, and every order that sells is placed for all that is  *)
(* held.                                                                    *)

(* A chain of an intent inserts an entry or an exit, or cancels for an exit.  *)
Intent(rec) ==
    /\ rec.ret = "off"
    /\ \/ rec.at = "off"
       \/ rec.at = "insert" /\ rec.next = "rest" /\ rec.purpose \in {"entry", "exit"}
       \/ rec.at = "cancel" /\ rec.next = "exit"

(* The tick has taken its order, and has not left it.                        *)
InHand(rec) == rec.at \in {"prints", "late", "upsert", "status"} \/ rec.ret = "prints"

(* It has filled the last of it, and may be inserting a take-profit.          *)
Finished(rec) ==
    \/ rec.at \in {"upsert", "status"} /\ rec.done
    \/ rec.at = "insert" /\ rec.ret = "prints"

Alone(p) ==
    /\ \A t \in Slots : Intent(thread[<<p, t>>])
    /\ \A t, u \in Slots : t # u => "off" \in {thread[<<p, t>>].at, thread[<<p, u>>].at}
    /\ \A t \in Slots : Entering(thread[<<p, t>>]) => ~Long(p)
    /\ busy[p] # "no" => SlotsOff(p)
    /\ busy[p] = "flat" => ~Long(p)
    /\ Resting(p, {"entry"}) => SlotsOff(p) /\ busy[p] = "no"

(* An entry in the tick's hand that is not filled is the one in the slot.     *)
TickKnows(p) ==
    /\ ~Entering(Tick(p))
    /\ Tick(p).at = "cancel" /\ Tick(p).next = "flatten" => Tick(p).purpose # "entry"
    /\ Tick(p).at = "cancel" /\ Tick(p).next = "drop" => Resting(p, {"entry"})
    /\ InHand(Tick(p)) /\ ~Sells(Tick(p).order, orders) /\ remaining[Tick(p).order] > 0
           => open[p] = Tick(p).order
    /\ Finished(Tick(p)) => remaining[Tick(p).order] = 0

InsertsAll(p) ==
    \A t \in Threads : thread[<<p, t>>].at = "insert" /\ ~Entering(thread[<<p, t>>])
        => thread[<<p, t>>].size >= positionBase[p]

OneIntent(p) == Alone(p) /\ TickKnows(p) /\ InsertsAll(p)

Leaving(rec) ==
    \/ rec.at = "insert" /\ rec.purpose # "entry"
    \/ rec.at = "cancel" /\ rec.next \in {"exit", "flatten"}

RestsToSell(p) == open[p] # None /\ Sells(open[p], orders)

(* What rests to sell and what the tick sells of are for all that is held.    *)
CoversAll(p) ==
    /\ RestsToSell(p) => remaining[open[p]] >= positionBase[p]
    /\ InHand(Tick(p)) /\ Sells(Tick(p).order, orders)
           => remaining[Tick(p).order] >= positionBase[p]

(* A long without a clock has just been bought, or is on its way out.         *)
WayOut(p) ==
    Long(p) /\ horizon[p] = "none" =>
        \/ Tick(p).at \in {"upsert", "status"} /\ ~Sells(Tick(p).order, orders)
        \/ /\ RestsToSell(p) \/ \E t \in Threads : Leaving(thread[<<p, t>>])
           /\ (Tick(p).at = "cancel" /\ Tick(p).next = "exit") \/ CoversAll(p)

WayInv ==
    /\ \A p \in Pairs : OneIntent(p)
    /\ "fail" \in faults \/ \A p \in Pairs : WayOut(p)

LEMMA WayTypes ==
    ASSUME Inv
    PROVE  /\ thread \in [Pairs \X Threads -> Chain]
           /\ Slots \subseteq Threads /\ "tick" \in Threads /\ "tick" \notin Slots
           /\ \A t \in Threads : t # "tick" => t \in Slots
           /\ positionBase \in [Pairs -> Nat] /\ remaining \in [Ids -> Nat]
           /\ orders \in [Ids -> OrderRow \cup {None}] /\ open \in [Pairs -> Ids \cup {None}]
           /\ horizon \in [Pairs -> {"none", "armed", "due"}]
           /\ busy \in [Pairs -> {"no", "flat", "long"}]
           /\ None \notin Ids /\ None \notin OrderRow
BY SlotsAreThreads, NamesAssumption DEF Inv, TypeOK, MemoryOK, RowsOK, OthersOK, Threads, Ids

(* What the slot of a pair holds and what its tick has in hand.              *)
LEMMA InSlotAndHand ==
    ASSUME Inv, NEW p \in Pairs
    PROVE  /\ open[p] # None => IsOrderOf(open[p], p, orders)
           /\ InHand(Tick(p)) => IsOrderOf(Tick(p).order, p, orders)
<1>1. open[p] # None => IsOrderOf(open[p], p, orders)
    BY DEF Inv, References, SlotsRefer
<1>2. InHand(Tick(p)) => IsOrderOf(Tick(p).order, p, orders)
    BY SlotsAreThreads DEF Inv, References, ChainsPrepared, Prepared, InHand, Tick
<1> QED
    BY <1>1, <1>2

(* A pair whose chains, slot, clock and amounts a step leaves alone.          *)
LEMMA WayStays ==
    ASSUME Inv, PurposesStay, NEW q \in Pairs, OneIntent(q),
           \A t \in Threads : thread'[<<q, t>>] = thread[<<q, t>>],
           open'[q] = open[q], positionBase'[q] = positionBase[q],
           busy'[q] \in {busy[q], "no"},
           \A id \in Ids : IsOrderOf(id, q, orders) => remaining'[id] = remaining[id]
    PROVE  /\ OneIntent(q)'
           /\ WayOut(q) /\ (horizon'[q] = "none" => horizon[q] = "none") => WayOut(q)'
<1>1. /\ open[q] # None => IsOrderOf(open[q], q, orders)
      /\ InHand(Tick(q)) => IsOrderOf(Tick(q).order, q, orders)
    BY InSlotAndHand
<1>2. ASSUME NEW id, IsOrderOf(id, q, orders)
      PROVE  remaining'[id] = remaining[id] /\ (Sells(id, orders') <=> Sells(id, orders))
             /\ orders'[id].purpose = orders[id].purpose
    BY <1>2 DEF IsOrderOf, Sells, PurposesStay
<1>3. /\ Tick(q)' = Tick(q) /\ (Long(q)' <=> Long(q)) /\ Slots \subseteq Threads
      /\ \A t \in Slots : thread'[<<q, t>>] = thread[<<q, t>>]
    BY SlotsAreThreads DEF Tick, Long
<1>4. /\ (Resting(q, {"entry"})' <=> Resting(q, {"entry"}))
      /\ (RestsToSell(q)' <=> RestsToSell(q))
    BY <1>1, <1>2 DEF Resting, RestsToSell
<1>5. Alone(q)'
    BY <1>3, <1>4 DEF OneIntent, Alone, SlotsOff, Entering, Intent
<1>6. TickKnows(q)'
    <2>1. Finished(Tick(q)) => remaining'[Tick(q).order] = 0
        BY <1>1, <1>2 DEF OneIntent, TickKnows, InHand, Finished
    <2>2. InHand(Tick(q)) /\ ~Sells(Tick(q).order, orders') /\ remaining'[Tick(q).order] > 0
              => open[q] = Tick(q).order
        BY <1>1, <1>2 DEF OneIntent, TickKnows
    <2>3. /\ ~Entering(Tick(q))
          /\ Tick(q).at = "cancel" /\ Tick(q).next = "flatten" => Tick(q).purpose # "entry"
          /\ Tick(q).at = "cancel" /\ Tick(q).next = "drop" => Resting(q, {"entry"})
        BY DEF OneIntent, TickKnows
    <2> QED
        BY <1>3, <1>4, <2>1, <2>2, <2>3 DEF TickKnows, InHand, Finished, Entering, Sells
<1>7. InsertsAll(q)'
    BY DEF OneIntent, InsertsAll, Entering
<1>8. CoversAll(q) => CoversAll(q)'
    BY <1>1, <1>2, <1>3, <1>4 DEF CoversAll, RestsToSell, InHand, Sells
<1>9. Tick(q).at \in {"upsert", "status"} /\ ~Sells(Tick(q).order, orders)
          => ~Sells(Tick(q).order, orders')
    BY <1>1, <1>2 DEF InHand
<1>10. WayOut(q) /\ (horizon'[q] = "none" => horizon[q] = "none") => WayOut(q)'
    BY <1>3, <1>4, <1>8, <1>9 DEF WayOut, Leaving, Sells
<1> QED
    BY <1>5, <1>6, <1>7, <1>10 DEF OneIntent

(* A step of one pair.                                                      *)
LEMMA WayPair ==
    ASSUME Inv, WayInv, PurposesStay, NEW p \in Pairs, OneIntent(p)',
           "fail" \in faults' \/ (WayOut(p) => WayOut(p)'), faults \subseteq faults',
           \A q \in Pairs \ {p} :
               /\ \A t \in Threads : thread'[<<q, t>>] = thread[<<q, t>>]
               /\ open'[q] = open[q] /\ positionBase'[q] = positionBase[q]
               /\ busy'[q] = busy[q] /\ horizon'[q] = horizon[q],
           \A id \in Ids : orders[id] # None /\ orders[id].pair # p
                               => remaining'[id] = remaining[id]
    PROVE  WayInv'
<1>1. ASSUME NEW q \in Pairs, q # p
      PROVE  OneIntent(q)' /\ (WayOut(q) => WayOut(q)')
    <2>1. \A id \in Ids : IsOrderOf(id, q, orders) => remaining'[id] = remaining[id]
        BY <1>1 DEF IsOrderOf
    <2> QED
        BY <1>1, <2>1, WayStays DEF WayInv
<1>2. \A q \in Pairs : OneIntent(q)'
    BY <1>1
<1>3. "fail" \in faults' \/ \A q \in Pairs : WayOut(q)'
    BY <1>1 DEF WayInv
<1> QED
    BY <1>2, <1>3 DEF WayInv

(* What the tick of p goes on to; its position may shrink, or grow while no   *)
(* intent is under way.                                                     *)
LEMMA TickIntent ==
    ASSUME Inv, Inv', NEW p \in Pairs, OneIntent(p), PurposesStay, NEW rec,
           thread' = [thread EXCEPT ![<<p, "tick">>] = rec], busy' = busy,
           positionBase'[p] <= positionBase[p]
               \/ (SlotsOff(p) /\ busy[p] = "no"),
           \/ open'[p] = open[p] \/ open'[p] = None
           \/ open'[p] \in Ids /\ Sells(open'[p], orders'),
           ~Entering(rec), rec.at = "cancel" /\ rec.next = "flatten" => rec.purpose # "entry",
           rec.at = "cancel" /\ rec.next = "drop" => Resting(p, {"entry"})',
           InHand(rec) /\ ~Sells(rec.order, orders') /\ remaining'[rec.order] > 0
               => open'[p] = rec.order,
           Finished(rec) => remaining'[rec.order] = 0,
           rec.at = "insert" => rec.size >= positionBase'[p]
    PROVE  OneIntent(p)'
<1>0. /\ thread \in [Pairs \X Threads -> Chain] /\ Slots \subseteq Threads
      /\ "tick" \in Threads /\ "tick" \notin Slots /\ \A t \in Threads : t # "tick" => t \in Slots
      /\ positionBase[p] \in Nat /\ positionBase'[p] \in Nat
    BY WayTypes DEF Inv, TypeOK, MemoryOK
<1>1. /\ Tick(p)' = rec /\ \A t \in Slots : thread'[<<p, t>>] = thread[<<p, t>>]
      /\ SlotsOff(p)' <=> SlotsOff(p)
    BY <1>0 DEF Tick, SlotsOff
<1>2. Resting(p, {"entry"})' => Resting(p, {"entry"})
    <2>1. open[p] # None => IsOrderOf(open[p], p, orders)
        BY InSlotAndHand
    <2>2. open[p] # None => orders'[open[p]].purpose = orders[open[p]].purpose
        BY <2>1 DEF PurposesStay, IsOrderOf
    <2> QED
        BY <2>2 DEF Resting, Sells
<1>3. Alone(p)'
    <2>1. \A t \in Slots : Entering(thread'[<<p, t>>]) => ~Long(p)'
        BY <1>0, <1>1 DEF OneIntent, Alone, SlotsOff, Entering, Long
    <2>2. busy'[p] = "flat" => ~Long(p)'
        BY <1>0 DEF OneIntent, Alone, Long
    <2> QED
        BY <1>1, <1>2, <2>1, <2>2 DEF OneIntent, Alone, Entering, Intent
<1>4. TickKnows(p)'
    BY <1>1 DEF TickKnows, InHand, Finished, Entering, Sells
<1>5. InsertsAll(p)'
    <2>1. ASSUME NEW t \in Threads, thread'[<<p, t>>].at = "insert",
                 ~Entering(thread'[<<p, t>>])
          PROVE  thread'[<<p, t>>].size >= positionBase'[p]
        <3>1. CASE t = "tick"
            BY <1>1, <2>1, <3>1 DEF Tick
        <3>2. CASE t # "tick"
            <4>1. thread'[<<p, t>>] = thread[<<p, t>>] /\ t \in Slots /\ thread[<<p, t>>] \in Chain
                BY <1>0, <1>1, <3>2
            <4>2. thread[<<p, t>>].size >= positionBase[p] /\ thread[<<p, t>>].size \in Nat
                BY <2>1, <4>1 DEF OneIntent, InsertsAll, Chain
            <4>3. ~SlotsOff(p)
                BY <2>1, <4>1 DEF SlotsOff
            <4> QED
                BY <1>0, <4>1, <4>2, <4>3
        <3> QED
            BY <3>1, <3>2
    <2> QED
        BY <2>1 DEF InsertsAll, Entering
<1> QED
    BY <1>3, <1>4, <1>5 DEF OneIntent

(* What a chain of an intent goes on to, while no entry rests.                *)
LEMMA SlotIntent ==
    ASSUME Inv, NEW p \in Pairs, OneIntent(p), PurposesStay, NEW t \in Slots, NEW rec,
           thread' = [thread EXCEPT ![<<p, t>>] = rec], busy'[p] = "no",
           SlotsOff(p) \/ thread[<<p, t>>].at # "off", ~Resting(p, {"entry"}),
           Intent(rec), Entering(rec) => ~Long(p), Resting(p, {"entry"})' => rec.at = "off",
           rec.at = "insert" => rec.size >= positionBase[p] \/ Entering(rec),
           positionBase'[p] = positionBase[p],
           \A id \in Ids : IsOrderOf(id, p, orders) => remaining'[id] = remaining[id]
    PROVE  OneIntent(p)'
<1>0. /\ thread \in [Pairs \X Threads -> Chain] /\ Slots \subseteq Threads
      /\ "tick" \in Threads /\ "tick" \notin Slots /\ t \in Threads
    BY WayTypes
<1>1. /\ Tick(p)' = Tick(p) /\ thread'[<<p, t>>] = rec
      /\ \A u \in Threads \ {t} : thread'[<<p, u>>] = thread[<<p, u>>]
      /\ Long(p)' <=> Long(p)
    BY <1>0 DEF Tick, Long
<1>2. \A u \in Slots \ {t} : thread'[<<p, u>>].at = "off" /\ thread[<<p, u>>].at = "off"
    BY <1>0, <1>1 DEF OneIntent, Alone, SlotsOff
<1>3. rec.at = "off" => SlotsOff(p)'
    BY <1>1, <1>2 DEF SlotsOff
<1>4. Alone(p)'
    <2>1. \A u \in Slots : Intent(thread'[<<p, u>>])
        BY <1>0, <1>1 DEF OneIntent, Alone
    <2>2. \A u, w \in Slots : u # w => "off" \in {thread'[<<p, u>>].at, thread'[<<p, w>>].at}
        BY <1>2
    <2>3. \A u \in Slots : Entering(thread'[<<p, u>>]) => ~Long(p)'
        BY <1>1, <1>2 DEF Entering
    <2> QED
        BY <1>3, <2>1, <2>2, <2>3 DEF Alone, Entering, Intent
<1>5. TickKnows(p)'
    <2>1. InHand(Tick(p)) => IsOrderOf(Tick(p).order, p, orders)
        BY InSlotAndHand
    <2>2. InHand(Tick(p)) =>
              /\ remaining'[Tick(p).order] = remaining[Tick(p).order]
              /\ Sells(Tick(p).order, orders') <=> Sells(Tick(p).order, orders)
        BY <2>1 DEF IsOrderOf, Sells, PurposesStay
    <2>3. ~(InHand(Tick(p)) /\ ~Sells(Tick(p).order, orders) /\ remaining[Tick(p).order] > 0)
        BY <2>1, NamesAssumption DEF OneIntent, TickKnows, Resting, Sells, IsOrderOf, Ids
    <2>4. Finished(Tick(p)) => remaining'[Tick(p).order] = 0
        BY <2>2 DEF OneIntent, TickKnows, Finished, InHand
    <2>5. /\ ~Entering(Tick(p))
          /\ Tick(p).at = "cancel" /\ Tick(p).next = "flatten" => Tick(p).purpose # "entry"
          /\ ~(Tick(p).at = "cancel" /\ Tick(p).next = "drop")
        BY DEF OneIntent, TickKnows
    <2> QED
        BY <1>1, <2>2, <2>3, <2>4, <2>5 DEF TickKnows, InHand, Finished, Entering, Sells
<1>6. InsertsAll(p)'
    BY <1>1 DEF OneIntent, InsertsAll, Entering
<1> QED
    BY <1>4, <1>5, <1>6 DEF OneIntent

(* What the tick goes on to without a fill: nothing, a cancel, a sale of all  *)
(* that is held, or the order in the slot or in its hand.                     *)
Goes(p, rec) ==
    /\ ~Entering(rec) /\ ~Finished(rec)
    /\ rec.at = "cancel" => \/ rec.next = "drop" /\ Resting(p, {"entry"})
                            \/ rec.next = "flatten" /\ rec.purpose # "entry"
                            \/ rec.next = "exit"
    /\ rec.at = "insert" => rec.size >= positionBase[p]
    /\ InHand(rec) => \/ rec.order = open[p] /\ open[p] # None
                      \/ InHand(Tick(p)) /\ rec.order = Tick(p).order

LEMMA GoIntent ==
    ASSUME Inv, Inv', WayInv, NEW p \in Pairs, NEW rec, Go(p, rec),
           UNCHANGED <<positionBase, open, remaining>>, Goes(p, rec),
           \A q \in Pairs \ {p} : horizon'[q] = horizon[q]
    PROVE  /\ OneIntent(p)' /\ PurposesStay
           /\ (WayOut(p) => WayOut(p)') => WayInv'
<1>1. /\ thread' = [thread EXCEPT ![<<p, "tick">>] = rec] /\ busy' = busy /\ orders' = orders
      /\ faults' = faults /\ OneIntent(p) /\ PurposesStay
    BY DEF Go, WayInv, PurposesStay
<1>2. positionBase'[p] <= positionBase[p]
    BY DEF Inv, TypeOK, MemoryOK
<1>3. Resting(p, {"entry"})' <=> Resting(p, {"entry"})
    BY <1>1 DEF Resting
<1>4. /\ ~Entering(rec) /\ ~Finished(rec)
      /\ rec.at = "cancel" /\ rec.next = "flatten" => rec.purpose # "entry"
      /\ rec.at = "cancel" /\ rec.next = "drop" => Resting(p, {"entry"})'
      /\ rec.at = "insert" => rec.size >= positionBase'[p]
    BY <1>3 DEF Goes
<1>5. InHand(rec) /\ ~Sells(rec.order, orders') /\ remaining'[rec.order] > 0
          => open'[p] = rec.order
    BY <1>1 DEF OneIntent, TickKnows, Sells, Goes
<1>6. OneIntent(p)'
    BY <1>1, <1>2, <1>3, <1>4, <1>5, TickIntent
<1>7. /\ \A q \in Pairs \ {p}, t \in Threads : thread'[<<q, t>>] = thread[<<q, t>>]
      /\ \A id \in Ids : remaining'[id] = remaining[id]
    BY <1>1, WayTypes
<1> QED
    BY <1>1, <1>6, <1>7, WayPair

LEMMA GoWay ==
    ASSUME Inv, Inv', WayInv, NEW p \in Pairs, NEW rec, Go(p, rec),
           UNCHANGED <<positionBase, open, remaining, horizon>>, Goes(p, rec),
           Tick(p).at \notin {"insert", "cancel", "upsert", "status"}
    PROVE  WayInv'
<1>1. WayOut(p) => WayOut(p)'
    <2> SUFFICES ASSUME WayOut(p), Long(p), horizon[p] = "none" PROVE WayOut(p)'
        BY DEF WayOut, Long
    <2>1. /\ thread' = [thread EXCEPT ![<<p, "tick">>] = rec] /\ orders' = orders
          /\ thread \in [Pairs \X Threads -> Chain]
        BY WayTypes DEF Go
    <2>2. Tick(p)' = rec
        BY <2>1, WayTypes DEF Tick
    <2>3. CoversAll(p) /\ (RestsToSell(p) \/ \E t \in Threads : Leaving(thread[<<p, t>>]))
        BY DEF WayOut
    <2>4. CoversAll(p)'
        BY <2>1, <2>2, <2>3 DEF CoversAll, RestsToSell, InHand, Sells, Goes
    <2>5. RestsToSell(p)' \/ \E t \in Threads : Leaving(thread'[<<p, t>>])
        <3>1. CASE RestsToSell(p)
            BY <2>1, <3>1 DEF RestsToSell, Sells
        <3>2. CASE \E t \in Threads : Leaving(thread[<<p, t>>])
            <4>1. PICK t \in Threads : Leaving(thread[<<p, t>>])
                BY <3>2
            <4>2. t # "tick"
                BY <4>1 DEF Leaving, Tick
            <4>3. thread'[<<p, t>>] = thread[<<p, t>>]
                BY <2>1, <4>2
            <4> QED
                BY <4>1, <4>3
        <3> QED
            BY <2>3, <3>1, <3>2
    <2> QED
        BY <2>4, <2>5 DEF WayOut, Leaving
<1> QED
    BY <1>1, GoIntent

(* The tick fills, of the order it has in hand or the stop in the slot.       *)
LEMMA FillWay ==
    ASSUME Inv, Inv', WayInv, NEW p \in Pairs, NEW id, NEW size \in Nat, NEW ret,
           Fill(p, "tick", id, orders[id].purpose, remaining[id], size, FALSE, ret),
           UNCHANGED <<orders, open, horizon, busy, faults>>,
           Tick(p).at \in {"order", "prints", "late"}, IsOrderOf(id, p, orders),
           id = open[p] \/ (InHand(Tick(p)) /\ id = Tick(p).order),
           ~Sells(id, orders) => remaining[id] > 0, size <= remaining[id]
    PROVE  WayInv'
<1> DEFINE rec == [Off EXCEPT !.at = "upsert", !.order = id, !.size = size, !.ret = ret,
                              !.done = (remaining[id] - size = 0 \/ FALSE), !.slipped = FALSE]
<1>0. /\ thread \in [Pairs \X Threads -> Chain] /\ "tick" \in Threads /\ "tick" \notin Slots
      /\ positionBase \in [Pairs -> Nat] /\ remaining \in [Ids -> Nat] /\ None \notin Ids
      /\ OneIntent(p) /\ PurposesStay /\ id \in Ids /\ orders[id].pair = p
    BY WayTypes DEF WayInv, PurposesStay, IsOrderOf
<1>1. /\ thread' = [thread EXCEPT ![<<p, "tick">>] = rec]
      /\ remaining' = [remaining EXCEPT ![id] = remaining[id] - size]
      /\ positionBase' = [positionBase EXCEPT
                             ![p] = Applied(@, Side(orders[id].purpose), size)]
    BY DEF Fill
<1>2. rec.at = "upsert" /\ rec.order = id /\ (rec.done => remaining[id] - size = 0)
    BY DEF Off
<1> HIDE DEF rec
<1>3. Tick(p)' = rec /\ remaining'[id] = remaining[id] - size
    BY <1>0, <1>1 DEF Tick
<1>4. Sells(id, orders) =>
          positionBase'[p] = positionBase[p] - Smaller(size, positionBase[p])
    BY <1>0, <1>1 DEF Applied, Side, Sells
<1>5. ~Sells(id, orders) => open[p] = id /\ SlotsOff(p) /\ busy[p] = "no"
    <2> SUFFICES ASSUME ~Sells(id, orders) PROVE open[p] = id /\ SlotsOff(p) /\ busy[p] = "no"
        OBVIOUS
    <2>1. open[p] = id
        BY DEF WayInv, OneIntent, TickKnows
    <2> QED
        BY <1>0, <2>1 DEF OneIntent, Alone, Resting, Sells
<1>6. OneIntent(p)'
    <2>1. \/ positionBase'[p] <= positionBase[p]
          \/ SlotsOff(p) /\ busy[p] = "no"
        BY <1>0, <1>4, <1>5 DEF Smaller
    <2>2. ~Entering(rec) /\ rec.at # "cancel" /\ rec.at # "insert"
        BY <1>2 DEF Entering
    <2>3. ~Sells(rec.order, orders') => open'[p] = rec.order
        BY <1>2, <1>5 DEF Sells
    <2>4. Finished(rec) => remaining'[rec.order] = 0
        BY <1>2, <1>3 DEF Finished
    <2> QED
        BY <1>0, <1>1, <2>1, <2>2, <2>3, <2>4, TickIntent
<1>7. WayOut(p) => WayOut(p)'
    <2> SUFFICES ASSUME WayOut(p), Long(p)', horizon'[p] = "none" PROVE WayOut(p)'
        BY DEF WayOut
    <2>1. CASE ~Sells(id, orders)
        BY <1>2, <1>3, <2>1 DEF WayOut, Sells
    <2>2. CASE Sells(id, orders)
        <3>0. positionBase[p] \in Nat /\ positionBase'[p] \in Int /\ remaining[id] \in Nat
            BY <1>0, <1>4, <2>2 DEF Smaller
        <3>1. /\ Long(p) /\ positionBase'[p] <= positionBase[p]
              /\ positionBase'[p] <= positionBase[p] - size
            BY <1>0, <1>4, <2>2 DEF Long, Smaller
        <3>2. CoversAll(p) /\ (RestsToSell(p) \/ \E t \in Threads : Leaving(thread[<<p, t>>]))
            BY <3>1 DEF WayOut
        <3>3. remaining[id] >= positionBase[p]
            BY <1>0, <2>2, <3>2 DEF CoversAll, RestsToSell
        <3>4. remaining'[id] >= positionBase'[p]
            BY <1>3, <3>0, <3>1, <3>3
        <3>5. RestsToSell(p) => remaining'[open[p]] >= positionBase'[p]
            <4> SUFFICES ASSUME RestsToSell(p), open[p] # id
                         PROVE  remaining'[open[p]] >= positionBase'[p]
                BY <3>4
            <4>1. open[p] \in Ids /\ remaining[open[p]] >= positionBase[p]
                BY <3>2, InSlotAndHand DEF CoversAll, RestsToSell, IsOrderOf
            <4>2. remaining'[open[p]] = remaining[open[p]] /\ remaining[open[p]] \in Nat
                BY <1>0, <1>1, <4>1
            <4> QED
                BY <3>0, <3>1, <4>1, <4>2
        <3>6. CoversAll(p)'
            BY <1>2, <1>3, <3>4, <3>5 DEF CoversAll, RestsToSell, Sells
        <3>7. RestsToSell(p)' \/ \E t \in Threads : Leaving(thread'[<<p, t>>])
            <4>1. CASE RestsToSell(p)
                BY <4>1 DEF RestsToSell, Sells
            <4>2. CASE \E t \in Threads : Leaving(thread[<<p, t>>])
                <5>1. PICK t \in Threads : Leaving(thread[<<p, t>>])
                    BY <4>2
                <5>2. t # "tick"
                    BY <5>1 DEF Leaving, Tick
                <5>3. thread'[<<p, t>>] = thread[<<p, t>>]
                    BY <1>0, <1>1, <5>2
                <5> QED
                    BY <5>1, <5>3
            <4> QED
                BY <3>2, <4>1, <4>2
        <3> QED
            BY <3>6, <3>7 DEF WayOut, Leaving
    <2> QED
        BY <2>1, <2>2
<1>8. \A q \in Pairs \ {p} :
          /\ \A t \in Threads : thread'[<<q, t>>] = thread[<<q, t>>]
          /\ positionBase'[q] = positionBase[q]
    BY <1>0, <1>1
<1>9. \A k \in Ids : orders[k] # None /\ orders[k].pair # p => remaining'[k] = remaining[k]
    BY <1>0, <1>1
<1> QED
    BY <1>0, <1>6, <1>7, <1>8, <1>9, WayPair

LEMMA AtGoes ==
    ASSUME NEW p, NEW phase \in {"off", "guard1", "order", "guard2", "horizon"}
    PROVE  /\ Goes(p, At(phase)) /\ At(phase).at = phase /\ ~InHand(At(phase))
           /\ ~Leaving(At(phase)) /\ At(phase).ret = "off"
BY DEF Goes, Entering, Finished, InHand, Leaving, At, Off

(* Where there is a price, a chain that is to sell sells all that is held.    *)
LEMMA SellAllGoes ==
    ASSUME Inv, NEW p \in Pairs, NEW purpose \in Purposes \ {"entry"}, NEW next,
           NEW ret \in {"off", "guard1", "order", "guard2", "horizon"}
    PROVE  LET rec == SellAll(p, purpose, next, ret) IN
           /\ Goes(p, rec) /\ ~InHand(rec) /\ (Long(p) => Leaving(rec))
           /\ rec.at = "insert" => /\ rec.purpose = purpose /\ rec.next = next
                                   /\ rec.ret = ret /\ rec.size >= positionBase[p]
           /\ rec.at # "insert" => rec = At(ret)
           /\ rec.at # "cancel"
<1> DEFINE rec == AwaitInsert(purpose, positionBase[p], next, ret)
<1>1. /\ rec.at = "insert" /\ rec.purpose = purpose /\ rec.next = next /\ rec.ret = ret
      /\ rec.size = positionBase[p] /\ positionBase[p] \in Nat
    BY WayTypes DEF AwaitInsert, Off
<1>2. CASE Long(p)
    <2>1. SellAll(p, purpose, next, ret) = rec
        BY <1>2 DEF SellAll
    <2> HIDE DEF rec
    <2>2. rec.size >= positionBase[p]
        BY <1>1
    <2> QED
        BY <1>1, <2>1, <2>2 DEF Goes, Entering, Finished, InHand, Leaving
<1>3. CASE ~Long(p)
    BY <1>3, AtGoes DEF SellAll
<1> QED
    BY <1>2, <1>3

LEMMA FlattenGoes ==
    ASSUME Inv, "thin" \notin Enabled, NEW p \in Pairs,
           NEW ret \in {"off", "guard1", "order", "guard2", "horizon"},
           NEW rec \in OrNoPrice(TakerFlatten(p, "stop", ret), ret)
    PROVE  Goes(p, rec)
<1>1. rec = TakerFlatten(p, "stop", ret) /\ "stop" \in Purposes \ {"entry"}
    BY DEF OrNoPrice, Purposes
<1>2. CASE open[p] = None
    BY <1>1, <1>2, SellAllGoes DEF TakerFlatten
<1>3. CASE open[p] # None
    BY <1>1, <1>3 DEF TakerFlatten, AwaitCancel, Off, Goes, Entering, Finished, InHand
<1> QED
    BY <1>2, <1>3

(* An exit is on its way, or its slot is taken by an order that stays there.  *)
LEMMA ReplaceGoes ==
    ASSUME Inv, "thin" \notin Enabled, NEW p \in Pairs, NEW rec,
           rec \in OrNoPrice(ReplaceWithExit(p, "off"), "off")
    PROVE  /\ Goes(p, rec) /\ Intent(rec) /\ ~InHand(rec)
           /\ rec.at = "insert" => rec.purpose = "exit" /\ rec.size >= positionBase[p]
           /\ Long(p) /\ open[p] = None => Leaving(rec)
           /\ Resting(p, {"take_profit"}) => rec.at = "cancel" /\ rec.next = "exit"
<1>1. rec = ReplaceWithExit(p, "off") /\ "exit" \in Purposes \ {"entry"}
    BY DEF OrNoPrice, Purposes
<1>2. CASE open[p] = None
    BY <1>1, <1>2, SellAllGoes, AtGoes DEF ReplaceWithExit, Intent, Resting
<1>3. CASE open[p] # None /\ Resting(p, {"take_profit"})
    <2> DEFINE new == [AwaitCancel(open[p], "exit", "off") EXCEPT !.purpose = "exit"]
    <2>1. /\ new.at = "cancel" /\ new.next = "exit" /\ new.ret = "off"
        BY DEF AwaitCancel, Off
    <2>2. rec = new
        BY <1>1, <1>3 DEF ReplaceWithExit
    <2> HIDE DEF new
    <2> QED
        BY <1>3, <2>1, <2>2 DEF Goes, Entering, Finished, InHand, Intent
<1>4. CASE open[p] # None /\ ~Resting(p, {"take_profit"})
    BY <1>1, <1>4, AtGoes DEF ReplaceWithExit, Intent
<1> QED
    BY <1>2, <1>3, <1>4

(* The clock is stopped for an exit of all that is held.                     *)
LEMMA HorizonWay ==
    ASSUME Inv, Inv', WayInv, "thin" \notin Enabled, NEW p \in Pairs, Horizon(p)
    PROVE  WayInv'
<1>1. Tick(p).at = "horizon"
    BY DEF Horizon, Tick
<1>2. CASE Go(p, Off) /\ UNCHANGED memory
    <2>1. Goes(p, Off)
        BY DEF Off, Goes, Entering, Finished, InHand
    <2> QED
        BY <1>1, <1>2, <2>1, GoWay
<1>3. CASE /\ Long(p) /\ (open[p] # None => Resting(p, {"take_profit"}))
           /\ \E rec \in OrNoPrice(ReplaceWithExit(p, "off"), "off") : Go(p, rec)
           /\ horizon' = [horizon EXCEPT ![p] = "none"]
           /\ UNCHANGED <<positionBase, open, remaining>>
    <2>1. PICK rec \in OrNoPrice(ReplaceWithExit(p, "off"), "off") : Go(p, rec)
        BY <1>3
    <2>2. /\ Goes(p, rec) /\ ~InHand(rec)
          /\ open[p] = None => Leaving(rec)
          /\ open[p] # None => Leaving(rec) /\ rec.at = "cancel" /\ rec.next = "exit"
        BY <1>3, ReplaceGoes DEF Leaving
    <2>3. Tick(p)' = rec /\ thread'[<<p, "tick">>] = rec
        BY <2>1, WayTypes DEF Go, Tick
    <2>4. open[p] = None => CoversAll(p)'
        BY <1>3, <2>2, <2>3 DEF CoversAll, RestsToSell, InHand
    <2>5. \E t \in Threads : Leaving(thread'[<<p, t>>])
        BY <2>2, <2>3, WayTypes
    <2>6. WayOut(p)'
        BY <2>2, <2>3, <2>4, <2>5 DEF WayOut, Leaving
    <2>7. \A q \in Pairs \ {p} : horizon'[q] = horizon[q]
        BY <1>3, WayTypes
    <2> QED
        BY <1>3, <2>1, <2>2, <2>6, <2>7, GoIntent
<1> QED
    BY <1>2, <1>3 DEF Horizon

LEMMA TicksWay ==
    ASSUME Inv, Inv', WayInv, "thin" \notin Enabled, "slip" \notin Enabled,
           NEW p \in Pairs, Ticks(p)
    PROVE  WayInv'
<1>1. CASE TickStart(p)
    <2>1. PICK rec : /\ Go(p, rec) /\ Tick(p).at = "off"
                     /\ UNCHANGED <<positionBase, open, remaining, horizon>>
                     /\ \/ rec = At("guard1")
                        \/ Resting(p, {"entry"}) /\ rec = AwaitCancel(open[p], "drop", "guard1")
        BY <1>1 DEF TickStart, Tick
    <2>2. Resting(p, {"entry"}) => Goes(p, AwaitCancel(open[p], "drop", "guard1"))
        BY DEF AwaitCancel, Off, Goes, Entering, Finished, InHand
    <2> QED
        BY <2>1, <2>2, AtGoes, GoWay
<1>2. CASE Guard(p)
    <2>1. PICK next \in {"order", "horizon"} :
              \E rec : /\ Go(p, rec) /\ Tick(p).at \in {"guard1", "guard2"}
                       /\ UNCHANGED <<positionBase, open, remaining, horizon>>
                       /\ \/ rec = At(next)
                          \/ rec \in OrNoPrice(TakerFlatten(p, "stop", next), next)
        BY <1>2 DEF Guard, Tick
    <2>2. PICK rec : /\ Go(p, rec) /\ Tick(p).at \in {"guard1", "guard2"}
                     /\ UNCHANGED <<positionBase, open, remaining, horizon>>
                     /\ \/ rec = At(next)
                        \/ rec \in OrNoPrice(TakerFlatten(p, "stop", next), next)
        BY <2>1
    <2>3. Goes(p, rec)
        BY <2>2, AtGoes, FlattenGoes
    <2> QED
        BY <2>2, <2>3, GoWay
<1>3. CASE Order(p)
    <2>1. CASE open[p] # None /\ Resting(p, {"stop"})
        <3>1. /\ orders[open[p]].purpose = "stop" /\ Sells(open[p], orders)
              /\ IsOrderOf(open[p], p, orders)
              /\ remaining[open[p]] \in Nat /\ remaining[open[p]] <= remaining[open[p]]
            BY <2>1, InSlotAndHand, WayTypes DEF Resting, Sells, IsOrderOf
        <3>2. /\ Fill(p, "tick", open[p], orders[open[p]].purpose, remaining[open[p]],
                      remaining[open[p]], FALSE, "guard2")
              /\ UNCHANGED <<orders, open, horizon, busy, faults>> /\ Tick(p).at = "order"
            BY <1>3, <2>1, <3>1 DEF Order, Tick
        <3> QED
            BY <3>1, <3>2, FillWay
    <2>2. CASE ~(open[p] # None /\ Resting(p, {"stop"}))
        <3>1. PICK rec : /\ Go(p, rec) /\ Tick(p).at = "order"
                         /\ UNCHANGED <<positionBase, open, remaining, horizon>>
                         /\ \/ rec = At("guard2")
                            \/ open[p] # None /\ rec = [At("prints") EXCEPT !.order = open[p]]
            BY <1>3, <2>2 DEF Order, Tick
        <3>2. open[p] # None => Goes(p, [At("prints") EXCEPT !.order = open[p]])
            BY DEF At, Off, Goes, Entering, Finished, InHand
        <3> QED
            BY <3>1, <3>2, AtGoes, GoWay
    <2> QED
        BY <2>1, <2>2
<1>4. CASE OnPrint(p)
    <2> DEFINE id == Tick(p).order
    <2>1. InHand(Tick(p)) /\ Tick(p).at = "prints" /\ IsOrderOf(id, p, orders)
        BY <1>4, InSlotAndHand DEF OnPrint, Tick, InHand
    <2>2. /\ remaining[id] > 0 /\ remaining[id] \in Nat
          /\ UNCHANGED <<orders, open, horizon, busy, faults>>
        BY <1>4, <2>1, WayTypes DEF OnPrint, Tick, IsOrderOf
    <2>3. /\ makerFillSize(remaining[id], PrintSize) \in Nat
          /\ makerFillSize(remaining[id], PrintSize) <= remaining[id]
        BY <2>2, SizesAssumption DEF makerFillSize, Smaller
    <2>4. Fill(p, "tick", id, orders[id].purpose, remaining[id],
               makerFillSize(remaining[id], PrintSize), FALSE, "prints")
        BY <1>4 DEF OnPrint, Slips, Tick
    <2> HIDE DEF id
    <2> QED
        BY <2>1, <2>2, <2>3, <2>4, FillWay DEF id
<1>5. CASE PrintsEnd(p)
    <2> DEFINE rec == [At("late") EXCEPT !.order = Tick(p).order]
    <2>1. /\ Go(p, rec) /\ Tick(p).at = "prints"
          /\ UNCHANGED <<positionBase, open, remaining, horizon>>
        BY <1>5 DEF PrintsEnd, Tick
    <2>2. Goes(p, rec)
        BY <2>1 DEF At, Off, Goes, Entering, Finished, InHand
    <2> HIDE DEF rec
    <2> QED
        BY <2>1, <2>2, GoWay
<1>6. CASE Late(p)
    <2> DEFINE id == Tick(p).order
    <2>1. InHand(Tick(p)) /\ Tick(p).at = "late" /\ IsOrderOf(id, p, orders)
        BY <1>6, InSlotAndHand DEF Late, Tick, InHand
    <2>2. CASE Go(p, At("guard2")) /\ UNCHANGED memory
        BY <2>1, <2>2, AtGoes, GoWay
    <2>3. CASE /\ open[p] = id /\ Overdue(id, {"entry"})
               /\ Go(p, AwaitCancel(id, "drop", "guard2")) /\ UNCHANGED memory
        <3>1. Resting(p, {"entry"})
            BY <2>1, <2>3, WayTypes DEF Resting, Overdue, IsOrderOf
        <3>2. Goes(p, AwaitCancel(id, "drop", "guard2"))
            BY <3>1 DEF AwaitCancel, Off, Goes, Entering, Finished, InHand
        <3> QED
            BY <2>1, <2>3, <3>2, GoWay
    <2>4. CASE /\ Fill(p, "tick", id, orders[id].purpose, remaining[id], remaining[id], FALSE,
                       "guard2")
               /\ orders[id].purpose = "take_profit" \/ Overdue(id, {"exit"})
               /\ UNCHANGED <<orders, open, horizon, busy, faults>>
        <3> HIDE DEF id
        <3>1. remaining[id] \in Nat /\ remaining[id] <= remaining[id] /\ Sells(id, orders)
            BY <2>1, <2>4, WayTypes DEF Overdue, Sells, IsOrderOf
        <3> QED
            BY <2>1, <2>4, <3>1, FillWay DEF id
    <2> QED
        BY <1>6, <2>2, <2>3, <2>4 DEF Late, Tick
<1>7. CASE Horizon(p)
    BY <1>7, HorizonWay
<1> QED
    BY <1>1, <1>2, <1>3, <1>4, <1>5, <1>6, <1>7 DEF Ticks

(* A chain of an intent moves, and what it leaves still sells all.            *)
LEMMA SlotWay ==
    ASSUME Inv, WayInv, RowsStay, PurposesStay, NEW p \in Pairs, NEW t \in Slots, NEW rec,
           thread' = [thread EXCEPT ![<<p, t>>] = rec], OneIntent(p)',
           UNCHANGED <<positionBase, horizon, faults>>,
           \A q \in Pairs \ {p} : open'[q] = open[q] /\ busy'[q] = busy[q],
           \A id \in Ids : orders[id] # None => remaining'[id] = remaining[id],
           Long(p) =>
               \/ open'[p] = open[p] /\ ~Leaving(thread[<<p, t>>])
               \/ open'[p] = None /\ Leaving(rec)
               \/ /\ open'[p] \in Ids /\ Sells(open'[p], orders')
                  /\ remaining'[open'[p]] >= positionBase[p]
    PROVE  WayInv'
<1>0. /\ thread \in [Pairs \X Threads -> Chain] /\ Slots \subseteq Threads
      /\ "tick" \in Threads /\ "tick" \notin Slots /\ t \in Threads /\ None \notin Ids
    BY WayTypes
<1>1. /\ Tick(p)' = Tick(p) /\ thread'[<<p, t>>] = rec
      /\ \A u \in Threads \ {t} : thread'[<<p, u>>] = thread[<<p, u>>]
    BY <1>0 DEF Tick
<1>2. ASSUME NEW id, IsOrderOf(id, p, orders)
      PROVE  remaining'[id] = remaining[id] /\ (Sells(id, orders') <=> Sells(id, orders))
    BY <1>2 DEF IsOrderOf, Sells, PurposesStay
<1>3. WayOut(p) => WayOut(p)'
    <2> SUFFICES ASSUME WayOut(p), Long(p), horizon[p] = "none" PROVE WayOut(p)'
        BY DEF WayOut, Long
    <2>1. CASE Tick(p).at \in {"upsert", "status"} /\ ~Sells(Tick(p).order, orders)
        <3>1. ~Sells(Tick(p).order, orders')
            BY <1>2, <2>1, InSlotAndHand DEF InHand
        <3> QED
            BY <1>1, <2>1, <3>1 DEF WayOut, Sells
    <2>2. CASE ~(Tick(p).at \in {"upsert", "status"} /\ ~Sells(Tick(p).order, orders))
        <3>1. /\ RestsToSell(p) \/ \E u \in Threads : Leaving(thread[<<p, u>>])
              /\ (Tick(p).at = "cancel" /\ Tick(p).next = "exit") \/ CoversAll(p)
            BY <2>2 DEF WayOut
        <3>2. RestsToSell(p)' \/ \E u \in Threads : Leaving(thread'[<<p, u>>])
            <4>1. CASE open'[p] = open[p] /\ ~Leaving(thread[<<p, t>>])
                <5>1. CASE RestsToSell(p)
                    BY <1>2, <4>1, <5>1, InSlotAndHand DEF RestsToSell, Sells
                <5>2. CASE \E u \in Threads : Leaving(thread[<<p, u>>])
                    BY <1>1, <4>1, <5>2
                <5> QED
                    BY <3>1, <5>1, <5>2
            <4>2. CASE Leaving(rec)
                BY <1>0, <1>1, <4>2
            <4>3. CASE open'[p] \in Ids /\ Sells(open'[p], orders')
                BY <1>0, <4>3 DEF RestsToSell, Sells
            <4> QED
                BY <4>1, <4>2, <4>3
        <3>3. CoversAll(p) => CoversAll(p)'
            <4> SUFFICES ASSUME CoversAll(p) PROVE CoversAll(p)'
                OBVIOUS
            <4>1. InHand(Tick(p)) /\ Sells(Tick(p).order, orders')
                      => remaining'[Tick(p).order] >= positionBase[p]
                BY <1>2, InSlotAndHand DEF CoversAll
            <4>2. RestsToSell(p)' => remaining'[open'[p]] >= positionBase[p]
                <5>1. CASE open'[p] = open[p]
                    BY <1>2, <5>1, InSlotAndHand DEF CoversAll, RestsToSell, Sells
                <5>2. CASE open'[p] # open[p]
                    BY <5>2 DEF RestsToSell
                <5> QED
                    BY <5>1, <5>2
            <4> QED
                BY <1>1, <4>1, <4>2 DEF CoversAll, RestsToSell, InHand, Sells
        <3> QED
            BY <1>1, <3>1, <3>2, <3>3 DEF WayOut, Leaving
    <2> QED
        BY <2>1, <2>2
<1>4. \A q \in Pairs \ {p}, u \in Threads : thread'[<<q, u>>] = thread[<<q, u>>]
    BY <1>0
<1> QED
    BY <1>3, <1>4, WayPair

(* A step that moves no chain, slot or amount, and may end a decision or let  *)
(* a clock run out.                                                         *)
LEMMA WayStill ==
    ASSUME Inv, WayInv, UNCHANGED <<orders, open, positionBase, remaining, thread, faults>>,
           \A q \in Pairs : /\ busy'[q] \in {busy[q], "no"}
                            /\ horizon'[q] = "none" => horizon[q] = "none"
    PROVE  WayInv'
<1>1. PurposesStay
    BY DEF PurposesStay
<1>2. \A q \in Pairs : OneIntent(q)' /\ (WayOut(q) => WayOut(q)')
    <2> SUFFICES ASSUME NEW q \in Pairs PROVE OneIntent(q)' /\ (WayOut(q) => WayOut(q)')
        OBVIOUS
    <2>1. /\ \A t \in Threads : thread'[<<q, t>>] = thread[<<q, t>>]
          /\ open'[q] = open[q] /\ positionBase'[q] = positionBase[q]
          /\ busy'[q] \in {busy[q], "no"}
          /\ \A id \in Ids : IsOrderOf(id, q, orders) => remaining'[id] = remaining[id]
        OBVIOUS
    <2> QED
        BY <1>1, <2>1, WayStays DEF WayInv
<1> QED
    BY <1>2 DEF WayInv

LEMMA EngineWay ==
    ASSUME Inv, Inv', WayInv, ~Pooled \/ "exit" \notin Enabled, "thin" \notin Enabled,
           "hasty" \notin Enabled, NEW p \in Pairs, Engine(p)
    PROVE  WayInv'
<1>0. /\ busy \in [Pairs -> {"no", "flat", "long"}] /\ OneIntent(p) /\ WayInv
      /\ thread \in [Pairs \X Threads -> Chain] /\ positionBase[p] \in Nat
    BY WayTypes DEF WayInv
<1>1. busy[p] # "no" => SlotsOff(p) /\ ~Resting(p, {"entry"})
    BY <1>0 DEF OneIntent, Alone
<1>2. CASE DecideStart(p)
    <2>1. /\ \A t \in Slots : thread[<<p, t>>].at = "off"
          /\ ~Resting(p, {"entry"})
          /\ busy' = [busy EXCEPT ![p] = IF Long(p) THEN "long" ELSE "flat"]
          /\ UNCHANGED <<orders, open, positionBase, remaining, thread, faults, horizon>>
        BY <1>2 DEF DecideStart
    <2>2. OneIntent(p)'
        <3>1. Tick(p)' = Tick(p) /\ SlotsOff(p)' /\ (Long(p)' <=> Long(p))
              /\ ~Resting(p, {"entry"})' /\ (busy'[p] = "flat" => ~Long(p))
            BY <1>0, <2>1 DEF Tick, SlotsOff, Long, Resting
        <3>2. Alone(p)'
            BY <1>0, <2>1, <3>1 DEF OneIntent, Alone, SlotsOff, Entering, Intent
        <3>3. TickKnows(p)'
            BY <1>0, <2>1, <3>1 DEF OneIntent, TickKnows, InHand, Finished, Entering, Sells
        <3>4. InsertsAll(p)'
            BY <1>0, <2>1 DEF OneIntent, InsertsAll, Entering
        <3> QED
            BY <3>2, <3>3, <3>4 DEF OneIntent
    <2>3. WayOut(p) => WayOut(p)'
        BY <2>1 DEF WayOut, Long, Tick, RestsToSell, Sells, Leaving, CoversAll, InHand
    <2>4. PurposesStay /\ \A q \in Pairs \ {p} : busy'[q] = busy[q]
        BY <1>0, <2>1 DEF PurposesStay
    <2> QED
        BY <2>1, <2>2, <2>3, <2>4, WayPair
<1>3. CASE Enter(p)
    <2>1. PICK usd \in 1 .. Lot, t \in Slots :
              thread' = [thread EXCEPT ![<<p, t>>] = AwaitInsert("entry", usd, "rest", "off")]
        BY <1>3 DEF Enter
    <2> DEFINE rec == AwaitInsert("entry", usd, "rest", "off")
    <2>2. /\ busy[p] = "flat" /\ busy' = [busy EXCEPT ![p] = "no"]
          /\ UNCHANGED <<orders, open, positionBase, remaining, faults, horizon>>
        BY <1>3 DEF Enter
    <2>3. Intent(rec) /\ Entering(rec)
        BY DEF AwaitInsert, Off, Intent, Entering
    <2> HIDE DEF rec
    <2>4. /\ RowsStay /\ PurposesStay /\ busy'[p] = "no"
          /\ \A q \in Pairs \ {p} : busy'[q] = busy[q]
          /\ ~Long(p) /\ ~Resting(p, {"entry"})' /\ SlotsOff(p) /\ ~Resting(p, {"entry"})
        BY <1>0, <1>1, <2>2 DEF RowsStay, PurposesStay, OneIntent, Alone, Resting
    <2>5. OneIntent(p)'
        BY <1>0, <2>1, <2>2, <2>3, <2>4, SlotIntent DEF rec
    <2> QED
        BY <1>0, <2>1, <2>2, <2>4, <2>5, SlotWay
<1>4. CASE Exit(p)
    <2>1. PICK t \in Slots :
              \E rec \in OrNoPrice(ReplaceWithExit(p, "off"), "off") :
                  thread' = [thread EXCEPT ![<<p, t>>] = rec]
        BY <1>4 DEF Exit
    <2>2. PICK rec \in OrNoPrice(ReplaceWithExit(p, "off"), "off") :
              thread' = [thread EXCEPT ![<<p, t>>] = rec]
        BY <2>1
    <2>3. /\ Intent(rec) /\ ~Entering(rec)
          /\ rec.at = "insert" => rec.size >= positionBase[p]
        BY <2>2, ReplaceGoes DEF Goes
    <2>4. /\ busy[p] # "no" /\ busy' = [busy EXCEPT ![p] = "no"]
          /\ UNCHANGED <<orders, open, positionBase, remaining, faults, horizon>>
        BY <1>4 DEF Exit
    <2>5. /\ RowsStay /\ PurposesStay /\ busy'[p] = "no"
          /\ \A q \in Pairs \ {p} : busy'[q] = busy[q]
          /\ ~Resting(p, {"entry"})' /\ SlotsOff(p) /\ ~Resting(p, {"entry"})
        BY <1>0, <1>1, <2>4 DEF RowsStay, PurposesStay, Resting
    <2>6. OneIntent(p)'
        BY <1>0, <2>2, <2>3, <2>4, <2>5, SlotIntent
    <2>7. ~Leaving(thread[<<p, t>>])
        BY <2>5 DEF SlotsOff, Leaving
    <2> QED
        BY <1>0, <2>2, <2>4, <2>5, <2>6, <2>7, SlotWay
<1>5. CASE DecideHold(p)
    <2>1. /\ UNCHANGED <<orders, open, positionBase, remaining, thread, faults>>
          /\ \A q \in Pairs : /\ busy'[q] \in {busy[q], "no"}
                              /\ horizon'[q] = "none" => horizon[q] = "none"
        BY <1>0, <1>5 DEF DecideHold
    <2> QED
        BY <2>1, WayStill
<1> QED
    BY <1>2, <1>3, <1>4, <1>5 DEF Engine

LEMMA MarketWay ==
    ASSUME Inv, WayInv, NEW p \in Pairs, Market(p)
    PROVE  WayInv'
<1>1. /\ UNCHANGED <<orders, open, positionBase, remaining, thread, faults>>
      /\ \A q \in Pairs : /\ busy'[q] \in {busy[q], "no"}
                          /\ horizon'[q] = "none" => horizon[q] = "none"
    BY WayTypes DEF Market, Ages, HorizonExpires, MidMoves, FeedChanges
<1> QED
    BY <1>1, WayStill

(* While a chain of an intent is under way no decision waits and no entry      *)
(* rests.                                                                   *)
LEMMA IntentAlone ==
    ASSUME WayInv, NEW p \in Pairs, NEW t \in Slots, thread[<<p, t>>].at # "off"
    PROVE  /\ OneIntent(p) /\ Intent(thread[<<p, t>>]) /\ busy[p] = "no"
           /\ ~Resting(p, {"entry"}) /\ (Entering(thread[<<p, t>>]) => ~Long(p))
BY DEF WayInv, OneIntent, Alone, SlotsOff

(* The order of an intent rests.                                            *)
LEMMA IntentRestsWay ==
    ASSUME Inv, WayInv, NEW p \in Pairs, NEW t \in Slots, InsertDone(p, t)
    PROVE  WayInv'
<1> DEFINE rec == thread[<<p, t>>]
<1>0. /\ remaining \in [Ids -> Nat] /\ orders \in [Ids -> OrderRow \cup {None}]
      /\ open \in [Pairs -> Ids \cup {None}] /\ rec \in Chain /\ t \in Threads
    BY WayTypes
<1>1. /\ rec.at = "insert" /\ rec.ret = "off" /\ rec.next = "rest"
      /\ rec.purpose \in {"entry", "exit"} /\ OneIntent(p) /\ busy[p] = "no"
      /\ ~Resting(p, {"entry"}) /\ (Entering(rec) => ~Long(p))
    BY IntentAlone DEF InsertDone, Intent
<1>2. RowsStay /\ PurposesStay
    BY <1>0, RowsStand DEF Answers
<1>3. PICK id \in Ids :
         /\ orders[id] = None
         /\ orders' = [orders EXCEPT ![id] = Row(p, rec.purpose, rec.size)]
         /\ open' = [open EXCEPT ![p] = id]
         /\ remaining' = [remaining EXCEPT ![id] = rec.size]
         /\ thread' = [thread EXCEPT ![<<p, t>>] = At("off")]
         /\ UNCHANGED <<positionBase, horizon, busy, faults>>
    BY <1>1 DEF InsertDone, Fresh, Return
<1>4. /\ orders'[id].purpose = rec.purpose /\ open'[p] = id /\ remaining'[id] = rec.size
      /\ \A k \in Ids : orders[k] # None => remaining'[k] = remaining[k]
      /\ \A q \in Pairs \ {p} : open'[q] = open[q] /\ busy'[q] = busy[q]
    BY <1>0, <1>3 DEF Row
<1>5. Intent(At("off")) /\ ~Entering(At("off")) /\ At("off").at = "off"
    BY DEF At, Off, Intent, Entering
<1>6. Long(p) => Sells(id, orders') /\ remaining'[id] >= positionBase[p]
    BY <1>0, <1>1, <1>4 DEF Entering, Sells, OneIntent, InsertsAll
<1> HIDE DEF rec
<1>7. OneIntent(p)'
    BY <1>1, <1>2, <1>3, <1>4, <1>5, SlotIntent DEF rec, IsOrderOf
<1> QED
    BY <1>2, <1>3, <1>4, <1>6, <1>7, SlotWay

(* The order the tick inserted rests, or closes the position.                *)
LEMMA TickInsertedWay ==
    ASSUME Inv, Inv', WayInv, NEW p \in Pairs, InsertDone(p, "tick")
    PROVE  WayInv'
<1> DEFINE rec == Tick(p)
<1>0. /\ remaining \in [Ids -> Nat] /\ orders \in [Ids -> OrderRow \cup {None}]
      /\ open \in [Pairs -> Ids \cup {None}] /\ rec \in Chain /\ "tick" \in Threads
      /\ positionBase \in [Pairs -> Nat] /\ thread \in [Pairs \X Threads -> Chain]
      /\ None \notin Ids
    BY WayTypes DEF Tick
<1>1. OneIntent(p) /\ rec.at = "insert" /\ Tick(p) = thread[<<p, "tick">>]
    BY DEF WayInv, InsertDone, Tick
<1>2. /\ rec.purpose # "entry" /\ rec.size >= positionBase[p] /\ rec.size \in Nat
      /\ positionBase[p] \in Nat
    BY <1>0, <1>1 DEF OneIntent, TickKnows, InsertsAll, Entering, Chain
<1>3. RowsStay /\ PurposesStay
    BY <1>0, RowsStand DEF Answers
<1>4. PICK id \in Ids :
         /\ orders[id] = None
         /\ orders' = [orders EXCEPT ![id] = Row(p, rec.purpose, rec.size)]
         /\ open' = [open EXCEPT ![p] = id]
         /\ IF rec.next = "fill"
            THEN Fill(p, "tick", id, rec.purpose, rec.size, rec.size, FALSE, rec.ret)
            ELSE /\ remaining' = [remaining EXCEPT ![id] = rec.size]
                 /\ thread' = [thread EXCEPT ![<<p, "tick">>] = Return(rec)]
                 /\ UNCHANGED positionBase
         /\ UNCHANGED <<horizon, busy, faults>>
    BY DEF InsertDone, Fresh, Tick
<1>5. /\ orders'[id].purpose = rec.purpose /\ open'[p] = id /\ Sells(id, orders')
      /\ \A q \in Pairs \ {p} : open'[q] = open[q]
    BY <1>0, <1>2, <1>4 DEF Row, Sells
<1> HIDE DEF rec
<1>6. CASE rec.next = "fill"
    <2> DEFINE new == [Off EXCEPT !.at = "upsert", !.order = id, !.size = rec.size,
                                  !.ret = rec.ret,
                                  !.done = (rec.size - rec.size = 0 \/ FALSE),
                                  !.slipped = FALSE]
    <2>1. /\ thread' = [thread EXCEPT ![<<p, "tick">>] = new]
          /\ remaining' = [remaining EXCEPT ![id] = rec.size - rec.size]
          /\ positionBase' = [positionBase EXCEPT
                                 ![p] = Applied(@, Side(rec.purpose), rec.size)]
        BY <1>4, <1>6 DEF Fill
    <2>2. new.at = "upsert" /\ new.order = id
        BY DEF Off
    <2> HIDE DEF new
    <2>3. remaining'[id] = 0 /\ positionBase'[p] = 0
        BY <1>0, <1>2, <2>1 DEF Applied, Side, Smaller
    <2>4. ~Entering(new) /\ new.at # "cancel" /\ new.at # "insert"
        BY <2>2 DEF Entering
    <2>5. OneIntent(p)'
        <3>1. /\ busy' = busy /\ positionBase'[p] <= positionBase[p]
              /\ open'[p] \in Ids /\ Sells(new.order, orders')
              /\ remaining'[new.order] = 0
            BY <1>2, <1>4, <1>5, <2>2, <2>3
        <3> QED
            BY <1>1, <1>3, <1>5, <2>1, <2>4, <3>1, TickIntent
    <2>6. WayOut(p)'
        BY <2>3 DEF WayOut, Long
    <2>7. /\ \A q \in Pairs \ {p} : /\ \A t \in Threads : thread'[<<q, t>>] = thread[<<q, t>>]
                                    /\ positionBase'[q] = positionBase[q]
          /\ \A k \in Ids : orders[k] # None => remaining'[k] = remaining[k]
        BY <1>0, <1>4, <2>1
    <2> QED
        BY <1>3, <1>4, <1>5, <2>5, <2>6, <2>7, WayPair
<1>7. CASE rec.next # "fill"
    <2> DEFINE new == Return(rec)
    <2>1. /\ thread' = [thread EXCEPT ![<<p, "tick">>] = new]
          /\ remaining' = [remaining EXCEPT ![id] = rec.size]
          /\ positionBase' = positionBase
        BY <1>4, <1>7
    <2>2. /\ new.at # "insert" /\ new.at # "cancel" /\ ~Entering(new) /\ ~Finished(new)
          /\ InHand(new) => rec.ret = "prints" /\ new.order = rec.order
        <3>1. rec.ret \in {"off", "guard1", "order", "prints", "guard2", "horizon"}
            BY <1>0 DEF Chain
        <3> QED
            BY <3>1 DEF Return, At, Off, Entering, Finished, InHand
    <2> HIDE DEF new
    <2>3. InHand(new) =>
              /\ InHand(Tick(p)) /\ IsOrderOf(rec.order, p, orders)
              /\ remaining'[rec.order] = remaining[rec.order] /\ remaining[rec.order] = 0
              /\ Sells(rec.order, orders') <=> Sells(rec.order, orders)
        <3> SUFFICES ASSUME rec.ret = "prints"
                     PROVE  /\ InHand(Tick(p)) /\ IsOrderOf(rec.order, p, orders)
                            /\ remaining'[rec.order] = remaining[rec.order]
                            /\ remaining[rec.order] = 0
                            /\ Sells(rec.order, orders') <=> Sells(rec.order, orders)
            BY <2>2
        <3>1. InHand(Tick(p)) /\ Finished(Tick(p))
            BY <1>1 DEF rec, InHand, Finished
        <3>2. IsOrderOf(rec.order, p, orders) /\ remaining[rec.order] = 0
            BY <1>1, <3>1, InSlotAndHand DEF rec, OneIntent, TickKnows
        <3> QED
            BY <1>0, <1>3, <1>4, <2>1, <3>1, <3>2 DEF IsOrderOf, Sells, PurposesStay
    <2>4. OneIntent(p)'
        <3>1. ~(InHand(new) /\ ~Sells(new.order, orders') /\ remaining'[new.order] > 0)
            BY <2>2, <2>3
        <3>2. /\ busy' = busy /\ positionBase'[p] <= positionBase[p] /\ open'[p] \in Ids
            BY <1>2, <1>4, <1>5, <2>1
        <3> QED
            BY <1>1, <1>3, <1>5, <2>1, <2>2, <3>1, <3>2, TickIntent
    <2>5. WayOut(p) => WayOut(p)'
        <3> SUFFICES ASSUME WayOut(p), Long(p), horizon[p] = "none" PROVE WayOut(p)'
            BY <1>4, <2>1 DEF WayOut, Long
        <3>1. CoversAll(p)
            BY <1>1 DEF rec, WayOut
        <3>2. RestsToSell(p)' /\ remaining'[open'[p]] >= positionBase'[p]
            BY <1>0, <1>2, <1>5, <2>1 DEF RestsToSell, Sells
        <3>3. Tick(p)' = new
            BY <1>0, <2>1 DEF Tick
        <3>4. InHand(new) /\ Sells(new.order, orders')
                  => remaining'[new.order] >= positionBase'[p]
            BY <2>1, <2>2, <2>3, <3>1 DEF CoversAll, rec
        <3>5. CoversAll(p)'
            BY <3>2, <3>3, <3>4 DEF CoversAll, InHand, Sells
        <3> QED
            BY <3>2, <3>5 DEF WayOut
    <2>6. /\ \A q \in Pairs \ {p}, t \in Threads : thread'[<<q, t>>] = thread[<<q, t>>]
          /\ \A k \in Ids : orders[k] # None => remaining'[k] = remaining[k]
        BY <1>0, <1>4, <2>1
    <2> QED
        BY <1>3, <1>4, <1>5, <2>1, <2>4, <2>5, <2>6, WayPair
<1> QED
    BY <1>6, <1>7

(* The take-profit is off the slot, and its chain sells all that is held.     *)
LEMMA IntentCanceledWay ==
    ASSUME Inv, WayInv, "thin" \notin Enabled, NEW p \in Pairs, NEW t \in Slots,
           CancelDone(p, t)
    PROVE  WayInv'
<1> DEFINE rec == thread[<<p, t>>]
           new == SellAll(p, "exit", "rest", "off")
<1>0. open \in [Pairs -> Ids \cup {None}] /\ t \in Threads /\ "exit" \in Purposes \ {"entry"}
    BY WayTypes DEF Purposes
<1>1. /\ rec.at = "cancel" /\ rec.ret = "off" /\ rec.next = "exit" /\ OneIntent(p)
      /\ busy[p] = "no" /\ ~Resting(p, {"entry"})
    BY IntentAlone DEF CancelDone, Intent
<1>2. RowsStay /\ PurposesStay
    BY <1>0, RowsStand DEF Answers
<1>3. /\ thread' = [thread EXCEPT ![<<p, t>>] = new] /\ open' = [open EXCEPT ![p] = None]
      /\ UNCHANGED <<remaining, positionBase, horizon, busy, faults>>
    BY <1>1 DEF CancelDone, OrNoPrice
<1>4. /\ new.at = "insert" => /\ new.purpose = "exit" /\ new.next = "rest"
                              /\ new.ret = "off" /\ new.size >= positionBase[p]
      /\ new.at # "insert" => new = At("off")
      /\ Long(p) => Leaving(new)
    BY <1>0, SellAllGoes
<1>5. Intent(At("off"))
    BY DEF At, Off, Intent
<1> HIDE DEF rec, new
<1>6. Intent(new) /\ ~Entering(new)
    BY <1>4, <1>5 DEF Intent, Entering
<1>7. ~Resting(p, {"entry"})' /\ open'[p] = None /\ \A q \in Pairs \ {p} : open'[q] = open[q]
    BY <1>0, <1>3 DEF Resting
<1>8. OneIntent(p)'
    BY <1>1, <1>2, <1>3, <1>4, <1>6, <1>7, SlotIntent DEF rec
<1> QED
    BY <1>2, <1>3, <1>4, <1>7, <1>8, SlotWay

(* The tick has canceled an entry, or what it sells all in place of.          *)
LEMMA TickCanceledWay ==
    ASSUME Inv, Inv', WayInv, "thin" \notin Enabled, NEW p \in Pairs, CancelDone(p, "tick")
    PROVE  WayInv'
<1> DEFINE rec == Tick(p)
<1>0. /\ open \in [Pairs -> Ids \cup {None}] /\ "tick" \in Threads
      /\ thread \in [Pairs \X Threads -> Chain] /\ positionBase[p] \in Nat
      /\ \A t \in Threads : t # "tick" => t \in Slots
    BY WayTypes
<1>1. /\ rec.at = "cancel" /\ rec.ret \in {"off", "guard1", "order", "guard2", "horizon"}
      /\ rec.next \in {"drop", "flatten", "exit"} /\ OneIntent(p)
      /\ rec.next = "flatten" => rec.purpose \in Purposes \ {"entry"}
      /\ rec.next = "drop" => Resting(p, {"entry"})
    BY <1>0 DEF Inv, References, ChainsPrepared, Prepared, Chain, CancelDone, WayInv, OneIntent,
        TickKnows, Tick
<1>2. RowsStay /\ PurposesStay
    BY <1>0, RowsStand DEF Answers
<1>3. /\ open' = [open EXCEPT ![p] = None]
      /\ UNCHANGED <<remaining, positionBase, horizon, busy, faults>>
    BY DEF CancelDone
<1> HIDE DEF rec
<1>4. PICK new :
         /\ thread' = [thread EXCEPT ![<<p, "tick">>] = new]
         /\ \/ rec.next = "drop" /\ new = At(rec.ret)
            \/ rec.next = "flatten" /\ new = SellAll(p, rec.purpose, "fill", rec.ret)
            \/ rec.next = "exit" /\ new = SellAll(p, "exit", "rest", rec.ret)
    BY <1>1 DEF CancelDone, OrNoPrice, Return, rec, Tick
<1>5. /\ Goes(p, new) /\ ~InHand(new) /\ new.at # "cancel"
      /\ Long(p) /\ rec.next # "drop" => Leaving(new)
    BY <1>1, <1>4, AtGoes, SellAllGoes DEF Purposes
<1>6. open'[p] = None /\ \A q \in Pairs \ {p} : open'[q] = open[q]
    BY <1>0, <1>3
<1>7. OneIntent(p)'
    <2>1. /\ busy' = busy /\ positionBase'[p] <= positionBase[p]
          /\ ~Entering(new) /\ ~Finished(new)
          /\ new.at = "insert" => new.size >= positionBase'[p]
        BY <1>0, <1>3, <1>5 DEF Goes
    <2> QED
        BY <1>1, <1>2, <1>4, <1>5, <1>6, <2>1, TickIntent
<1>8. WayOut(p) => WayOut(p)'
    <2> SUFFICES ASSUME WayOut(p), Long(p), horizon[p] = "none" PROVE WayOut(p)'
        BY <1>3 DEF WayOut, Long
    <2>1. CASE rec.next = "drop"
        <3>1. SlotsOff(p) /\ ~RestsToSell(p)
            BY <1>1, <2>1 DEF OneIntent, Alone, Resting, RestsToSell, Sells
        <3>2. PICK t \in Threads : Leaving(thread[<<p, t>>])
            BY <1>1, <3>1 DEF WayOut, rec
        <3>3. t = "tick"
            BY <1>0, <3>1, <3>2 DEF SlotsOff, Leaving
        <3> QED
            BY <1>1, <2>1, <3>2, <3>3 DEF Leaving, rec, Tick
    <2>2. CASE rec.next # "drop"
        <3>1. Tick(p)' = new /\ thread'[<<p, "tick">>] = new
            BY <1>0, <1>4 DEF Tick
        <3>2. CoversAll(p)'
            BY <1>5, <1>6, <3>1 DEF CoversAll, RestsToSell, InHand
        <3> QED
            BY <1>0, <1>5, <2>2, <3>1, <3>2 DEF WayOut, Leaving
    <2> QED
        BY <2>1, <2>2
<1>9. \A q \in Pairs \ {p}, t \in Threads : thread'[<<q, t>>] = thread[<<q, t>>]
    BY <1>0, <1>4
<1> QED
    BY <1>2, <1>3, <1>6, <1>7, <1>8, <1>9, WayPair

(* Only the tick waits for the rows of a fill.                               *)
LEMMA OnlyTickFills ==
    ASSUME Inv, WayInv, NEW p \in Pairs, NEW t \in Threads,
           thread[<<p, t>>].at \in {"upsert", "status"}
    PROVE  /\ t = "tick" /\ thread[<<p, t>>] = Tick(p) /\ OneIntent(p) /\ InHand(Tick(p))
           /\ IsOrderOf(Tick(p).order, p, orders) /\ Tick(p) \in Chain
<1>1. t = "tick"
    BY IntentAlone, WayTypes DEF Intent
<1>2. thread[<<p, t>>] = Tick(p) /\ InHand(Tick(p))
    BY <1>1 DEF Tick, InHand
<1> QED
    BY <1>1, <1>2, InSlotAndHand, WayTypes DEF WayInv

LEMMA UpsertDoneWay ==
    ASSUME Inv, Inv', WayInv, NEW p \in Pairs, NEW t \in Threads, UpsertDone(p, t)
    PROVE  WayInv'
<1> DEFINE rec == Tick(p)
           new == [rec EXCEPT !.at = "status"]
<1>1. /\ t = "tick" /\ thread[<<p, t>>] = rec /\ OneIntent(p) /\ InHand(rec)
      /\ IsOrderOf(rec.order, p, orders) /\ rec \in Chain /\ rec.at = "upsert"
    BY OnlyTickFills DEF UpsertDone
<1>2. RowsStay /\ PurposesStay
    BY RowsStand DEF Answers
<1>3. /\ thread' = [thread EXCEPT ![<<p, "tick">>] = new]
      /\ UNCHANGED <<remaining, positionBase, busy, open, horizon, faults>>
    BY <1>1 DEF UpsertDone
<1>4. /\ new.at = "status" /\ new.order = rec.order /\ new.ret = rec.ret /\ new.done = rec.done
      /\ new.at # "insert"
    BY <1>1 DEF Chain
<1>5. Sells(rec.order, orders') <=> Sells(rec.order, orders)
    BY <1>1, <1>2 DEF IsOrderOf, Sells, PurposesStay
<1> HIDE DEF new
<1>6. OneIntent(p)'
    <2>1. ~Entering(new) /\ positionBase'[p] <= positionBase[p]
        BY <1>3, <1>4, WayTypes DEF Entering
    <2>2. InHand(new) /\ ~Sells(new.order, orders') /\ remaining'[new.order] > 0
              => open'[p] = new.order
        BY <1>1, <1>3, <1>4, <1>5 DEF OneIntent, TickKnows
    <2>3. Finished(new) => remaining'[new.order] = 0
        BY <1>1, <1>3, <1>4 DEF OneIntent, TickKnows, Finished
    <2> QED
        BY <1>1, <1>2, <1>3, <1>4, <2>1, <2>2, <2>3, TickIntent
<1>7. Tick(p)' = new /\ \A u \in Threads \ {"tick"} : thread'[<<p, u>>] = thread[<<p, u>>]
    BY <1>1, <1>3, WayTypes DEF Tick
<1>8. WayOut(p) => WayOut(p)'
    <2> SUFFICES ASSUME WayOut(p), Long(p), horizon[p] = "none" PROVE WayOut(p)'
        BY <1>3 DEF WayOut, Long
    <2>1. CASE ~Sells(rec.order, orders)
        BY <1>4, <1>5, <1>7, <2>1 DEF WayOut, Sells
    <2>2. CASE Sells(rec.order, orders)
        <3>1. /\ CoversAll(p)
              /\ RestsToSell(p) \/ \E u \in Threads : Leaving(thread[<<p, u>>])
            BY <1>1, <2>2 DEF WayOut
        <3>2. RestsToSell(p)' <=> RestsToSell(p)
            BY <1>2, <1>3, InSlotAndHand DEF RestsToSell, Sells, PurposesStay, IsOrderOf
        <3>3. CoversAll(p)'
            BY <1>1, <1>3, <1>4, <1>5, <1>7, <3>1, <3>2 DEF CoversAll, RestsToSell, InHand, Sells
        <3>4. ASSUME NEW u \in Threads, Leaving(thread[<<p, u>>])
              PROVE  Leaving(thread'[<<p, u>>])
            BY <1>1, <1>7, <3>4 DEF Leaving
        <3> QED
            BY <3>1, <3>2, <3>3, <3>4 DEF WayOut, Leaving
    <2> QED
        BY <2>1, <2>2
<1>9. \A q \in Pairs \ {p}, u \in Threads : thread'[<<q, u>>] = thread[<<q, u>>]
    BY <1>3, WayTypes
<1> QED
    BY <1>2, <1>3, <1>6, <1>8, <1>9, WayPair

(* The end of a fill: a purchase starts the clock, and a sale that is done     *)
(* leaves nothing to sell.                                                   *)
LEMMA StatusDoneWay ==
    ASSUME Inv, Inv', WayInv, NEW p \in Pairs, NEW t \in Threads, StatusDone(p, t)
    PROVE  WayInv'
<1> DEFINE rec == Tick(p)
           takeProfit == [AwaitInsert("take_profit", positionBase[p], "rest", rec.ret)
                             EXCEPT !.order = rec.order]
<1>0. /\ positionBase[p] \in Nat /\ thread \in [Pairs \X Threads -> Chain]
      /\ open \in [Pairs -> Ids \cup {None}] /\ "tick" \in Threads
      /\ horizon \in [Pairs -> {"none", "armed", "due"}]
    BY WayTypes
<1>1. /\ t = "tick" /\ thread[<<p, t>>] = rec /\ OneIntent(p) /\ InHand(rec)
      /\ IsOrderOf(rec.order, p, orders) /\ rec \in Chain /\ rec.at = "status"
    BY OnlyTickFills DEF StatusDone
<1>2. RowsStay /\ PurposesStay
    BY RowsStand DEF Answers
<1>3. /\ UNCHANGED <<remaining, positionBase, busy, faults>>
      /\ open' = [open EXCEPT ![p] = IF rec.done THEN None ELSE @]
      /\ horizon' = [horizon EXCEPT ![p] =
             IF orders[rec.order].purpose = "entry" /\ Long(p) THEN "armed"
             ELSE IF Long(p) THEN @ ELSE "none"]
    BY <1>1 DEF StatusDone, ClockAfterFill
<1>4. PICK new :
         /\ thread' = [thread EXCEPT ![<<p, "tick">>] = new]
         /\ \/ new = takeProfit /\ rec.done /\ orders[rec.order].purpose = "entry"
            \/ new = Return(rec)
    BY <1>1 DEF StatusDone
<1>5. Sells(rec.order, orders') <=> Sells(rec.order, orders)
    BY <1>1, <1>2 DEF IsOrderOf, Sells, PurposesStay
<1>6. rec.done => remaining[rec.order] = 0
    BY <1>1 DEF OneIntent, TickKnows, Finished
<1>7. /\ ~Entering(new) /\ new.at # "cancel"
      /\ InHand(new) => new.order = rec.order
      /\ Finished(new) => rec.done /\ new.order = rec.order
      /\ new.at = "insert" => new.size >= positionBase[p]
    <2>1. CASE new = takeProfit /\ rec.done
        <3>1. /\ takeProfit.at = "insert" /\ takeProfit.purpose = "take_profit"
              /\ takeProfit.order = rec.order /\ takeProfit.size = positionBase[p]
            BY DEF AwaitInsert, Off
        <3> QED
            BY <1>0, <2>1, <3>1 DEF Entering
    <2>2. CASE new = Return(rec)
        <3>1. rec.ret \in {"off", "guard1", "order", "prints", "guard2", "horizon"}
            BY <1>1 DEF Chain
        <3> QED
            BY <2>2, <3>1 DEF Return, At, Off, Entering, InHand, Finished
    <2> QED
        BY <1>4, <2>1, <2>2
<1> HIDE DEF rec, takeProfit
<1>8. open'[p] = (IF rec.done THEN None ELSE open[p])
    BY <1>0, <1>3
<1>9. OneIntent(p)'
    <2>1. busy' = busy /\ positionBase'[p] <= positionBase[p]
          /\ (new.at = "insert" => new.size >= positionBase'[p])
        BY <1>0, <1>3, <1>7
    <2>2. InHand(new) /\ ~Sells(new.order, orders') /\ remaining'[new.order] > 0
              => open'[p] = new.order
        BY <1>1, <1>3, <1>5, <1>6, <1>7, <1>8 DEF OneIntent, TickKnows, rec
    <2>3. Finished(new) => remaining'[new.order] = 0
        BY <1>3, <1>6, <1>7
    <2> QED
        BY <1>1, <1>2, <1>4, <1>7, <1>8, <2>1, <2>2, <2>3, TickIntent
<1>10. WayOut(p) => WayOut(p)'
    <2> SUFFICES ASSUME WayOut(p), Long(p), horizon'[p] = "none" PROVE WayOut(p)'
        BY <1>3 DEF WayOut, Long
    <2>1. Sells(rec.order, orders) /\ horizon[p] = "none"
        BY <1>0, <1>3 DEF Sells
    <2>2. /\ CoversAll(p)
          /\ RestsToSell(p) \/ \E u \in Threads : Leaving(thread[<<p, u>>])
        BY <1>1, <2>1 DEF WayOut, rec
    <2>3. remaining[rec.order] >= positionBase[p] /\ positionBase[p] > 0
        BY <1>1, <2>1, <2>2 DEF CoversAll, Long, rec
    <2>4. ~rec.done /\ open'[p] = open[p]
        BY <1>0, <1>6, <1>8, <2>3
    <2>5. Tick(p)' = new /\ \A u \in Threads \ {"tick"} : thread'[<<p, u>>] = thread[<<p, u>>]
        BY <1>0, <1>4 DEF Tick
    <2>6. RestsToSell(p)' <=> RestsToSell(p)
        BY <1>2, <2>4, InSlotAndHand DEF RestsToSell, Sells, PurposesStay, IsOrderOf
    <2>7. InHand(new) => remaining'[new.order] >= positionBase'[p]
        BY <1>3, <1>7, <2>3
    <2>8. CoversAll(p)'
        BY <1>3, <2>2, <2>4, <2>5, <2>6, <2>7 DEF CoversAll, InHand, RestsToSell, Sells
    <2>9. ASSUME NEW u \in Threads, Leaving(thread[<<p, u>>])
          PROVE  Leaving(thread'[<<p, u>>])
        BY <1>1, <2>5, <2>9 DEF Leaving
    <2> QED
        BY <2>2, <2>6, <2>8, <2>9 DEF WayOut, Leaving
<1>11. \A q \in Pairs \ {p} : /\ \A u \in Threads : thread'[<<q, u>>] = thread[<<q, u>>]
                              /\ open'[q] = open[q] /\ horizon'[q] = horizon[q]
    BY <1>0, <1>3, <1>4
<1> QED
    BY <1>2, <1>3, <1>9, <1>10, <1>11, WayPair

(* After a call that rejects a pair still has one intent chain at a time.     *)
LEMMA FailWay ==
    ASSUME Inv, Inv', WayInv, NEW p \in Pairs, NEW t \in Threads, Fail(p, t)
    PROVE  WayInv'
<1>0. /\ thread \in [Pairs \X Threads -> Chain] /\ positionBase[p] \in Nat
      /\ t # "tick" => t \in Slots
    BY WayTypes
<1>1. /\ thread' = [thread EXCEPT ![<<p, t>>] = Off] /\ thread[<<p, t>>].at # "off"
      /\ UNCHANGED <<remaining, positionBase, open, busy, horizon>>
      /\ faults' = faults \cup {"fail"}
    BY DEF Fail, Rejected
<1>2. RowsStay /\ PurposesStay /\ OneIntent(p)
    BY RowsStand DEF WayInv
<1>3. ~Entering(Off) /\ ~InHand(Off) /\ ~Finished(Off) /\ Off.at = "off" /\ Intent(Off)
    BY DEF Off, Entering, InHand, Finished, Intent
<1>4. OneIntent(p)'
    <2>1. CASE t = "tick"
        <3>1. positionBase'[p] <= positionBase[p]
            BY <1>0, <1>1
        <3> QED
            BY <1>1, <1>2, <1>3, <2>1, <3>1, TickIntent
    <2>2. CASE t # "tick"
        <3>1. busy'[p] = "no" /\ ~Resting(p, {"entry"})
            BY <1>0, <1>1, <2>2, IntentAlone
        <3> QED
            BY <1>0, <1>1, <1>2, <1>3, <2>2, <3>1, SlotIntent
    <2> QED
        BY <2>1, <2>2
<1>5. \A q \in Pairs \ {p}, u \in Threads : thread'[<<q, u>>] = thread[<<q, u>>]
    BY <1>0, <1>1
<1> QED
    BY <1>1, <1>2, <1>4, <1>5, WayPair

(* A restart ends every chain and starts the clock of every long.            *)
LEMMA RestartWay ==
    ASSUME Inv, Inv', Restart
    PROVE  WayInv'
<1>1. /\ \A p \in Pairs, t \in Threads : thread'[<<p, t>>] = Off
      /\ \A p \in Pairs : busy'[p] = "no" /\ positionBase'[p] = dbPos[p]
      /\ \A p \in Pairs : dbPos[p] > 0 => horizon'[p] = "armed"
    BY DEF Restart, ClockRestored
<1>2. ~Entering(Off) /\ ~InHand(Off) /\ ~Finished(Off) /\ Off.at = "off" /\ Intent(Off)
    BY DEF Off, Entering, InHand, Finished, Intent
<1>3. ASSUME NEW p \in Pairs
      PROVE  OneIntent(p)' /\ WayOut(p)'
    <2>1. Tick(p)' = Off /\ SlotsOff(p)'
        BY <1>1, <1>2, SlotsAreThreads DEF Tick, SlotsOff
    <2>2. Alone(p)'
        BY <1>1, <1>2, <2>1, SlotsAreThreads DEF Alone, Entering, Intent
    <2>3. TickKnows(p)' /\ InsertsAll(p)'
        BY <1>1, <1>2, <2>1 DEF TickKnows, InsertsAll, Entering, InHand, Finished
    <2>4. WayOut(p)'
        BY <1>1 DEF WayOut, Long
    <2> QED
        BY <2>2, <2>3, <2>4 DEF OneIntent
<1> QED
    BY <1>3 DEF WayInv

(* A long pair at rest is on its way out, its horizon still to come or an      *)
(* order that sells it in the slot, after crashes too: where no plan flattens  *)
(* another pair, a book has two sides, no fill slips, and a pair is decided     *)
(* once its last intent has run its course (PaperBroker.tickPair, fill,         *)
(* replaceWithExit, restore).                                                *)
THEOREM LongsHaveAWayOutHolds ==
    ASSUME ~Pooled \/ "exit" \notin Enabled, "thin" \notin Enabled, "slip" \notin Enabled,
           "hasty" \notin Enabled
    PROVE  Spec => []LongsHaveAWayOut
<1>1. Init => Inv /\ WayInv
    <2> SUFFICES ASSUME Init PROVE WayInv
        BY InitInv DEF BrokerInv
    <2>1. /\ \A p \in Pairs, t \in Threads : thread[<<p, t>>] = Off
          /\ \A p \in Pairs : open[p] = None /\ busy[p] = "no" /\ positionBase[p] = 0
        BY DEF Init
    <2>2. ~Entering(Off) /\ ~InHand(Off) /\ ~Finished(Off) /\ Off.at = "off" /\ Intent(Off)
        BY DEF Off, Entering, InHand, Finished, Intent
    <2>3. ASSUME NEW p \in Pairs
          PROVE  OneIntent(p) /\ WayOut(p)
        <3>1. Tick(p) = Off /\ SlotsOff(p) /\ ~Resting(p, {"entry"}) /\ ~Long(p)
            BY <2>1, <2>2, SlotsAreThreads DEF Tick, SlotsOff, Resting, Long
        <3>2. Alone(p)
            BY <2>1, <2>2, <3>1, SlotsAreThreads DEF Alone
        <3>3. TickKnows(p) /\ InsertsAll(p)
            BY <2>1, <2>2, <3>1 DEF TickKnows, InsertsAll
        <3> QED
            BY <3>1, <3>2, <3>3 DEF OneIntent, WayOut
    <2> QED
        BY <2>3 DEF WayInv
<1>2. Inv /\ WayInv /\ [Next]_vars => Inv' /\ WayInv'
    <2> SUFFICES ASSUME Inv, WayInv, [Next]_vars, Inv' PROVE WayInv'
        BY NextInv
    <2>1. CASE UNCHANGED vars
        BY <2>1, WayStill DEF vars
    <2>2. CASE \E p \in Pairs : Engine(p) \/ Ticks(p) \/ Market(p)
        BY <2>2, EngineWay, TicksWay, MarketWay
    <2>3. ASSUME NEW p \in Pairs, NEW t \in Threads, Answers(p, t) \/ Fail(p, t)
          PROVE  WayInv'
        <3>1. t = "tick" \/ t \in Slots
            BY WayTypes
        <3> QED
            BY <2>3, <3>1, IntentRestsWay, TickInsertedWay, IntentCanceledWay, TickCanceledWay,
                UpsertDoneWay, StatusDoneWay, FailWay DEF Answers
    <2> QED
        BY <2>1, <2>2, <2>3, RestartWay DEF Next
<1>3. Inv /\ WayInv => LongsHaveAWayOut
    <2> SUFFICES ASSUME Inv, WayInv, "fail" \notin faults,
                        NEW p \in Pairs, Quiet(p), Long(p), horizon[p] = "none"
                 PROVE  Resting(p, {"exit", "stop", "take_profit"})
        BY DEF LongsHaveAWayOut
    <2>1. /\ WayOut(p) /\ Tick(p).at = "off"
          /\ \A t \in Threads : ~Leaving(thread[<<p, t>>])
        BY SlotsAreThreads DEF WayInv, Quiet, Tick, Leaving
    <2>2. RestsToSell(p)
        BY <2>1 DEF WayOut
    <2>3. open[p] \in Ids /\ orders[open[p]] \in OrderRow
        BY <2>2, InSlotAndHand, WayTypes DEF RestsToSell, IsOrderOf
    <2>4. orders[open[p]].purpose \in Purposes
        BY <2>3 DEF OrderRow
    <2> QED
        BY <2>2, <2>4 DEF RestsToSell, Sells, Resting, Purposes
<1> QED
    BY <1>1, <1>2, <1>3, PTL DEF Spec

=============================================================================
