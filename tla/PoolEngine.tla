------------------------------ MODULE PoolEngine ------------------------------
(***************************************************************************)
(* The decision loop of the Coinbase trader (cb/engine.ts) on its two         *)
(* breakout books: the pooled one, where pairs compete by rank for a few       *)
(* slots and a weak long is flattened to fund a better break (cb/pool.ts,      *)
(* cb/poolbook.ts), and the split one.  A decision awaits the model, then a    *)
(* veto sample's row, then its own row; the decisions of several pairs         *)
(* overlap at these awaits, beside hourly refreshes, the kill switch          *)
(* (cb/kill.ts) and the broker.                                             *)
(*                                                                          *)
(* The broker is what the engine sees of it: a pair holds lots, rests one     *)
(* entry, or is being flattened; PaperBroker says how.  Sizes are in lots, a   *)
(* lot is worth one, and fees are left out.                                  *)
(***************************************************************************)
EXTENDS Integers, FiniteSets, SequencesExt

CONSTANTS
    Pairs,            \* numbered in the order of their names
    Clip,             \* pair -> lots of one entry (books.ts)
    Ranks,            \* finite ranks
    Trials            \* the books that are run, see TrialsAssumption

Books == {"pooled", "breakout"}

ASSUME PairsAssumption ==
    /\ Pairs \subseteq Nat /\ IsFiniteSet(Pairs)
    /\ Clip \in [Pairs -> Nat \ {0}]
ASSUME RanksAssumption == Ranks \subseteq Nat

Broken == -1       \* -Infinity: the snapshot is not known

Snaps == [rank : Ranks, candidate : BOOLEAN] \cup {[rank |-> Broken, candidate |-> FALSE]}

(* The book, the pairs it runs on, its slots, cash and gross cap, the snapshots  *)
(* it starts with, and the moves that the market, the model and the store have. *)
ASSUME TrialsAssumption ==
    Trials \subseteq [book : Books, pairs : SUBSET Pairs, slots : Nat, cash : Nat, cap : Nat,
                    starts : SUBSET [Pairs -> Snaps], moves : Nat]

VARIABLES
    book,           \* CB_BOOK
    pairs,          \* CB_PAIRS
    maxConcurrent,  \* CB_MAX_CONCURRENT
    bankroll,       \* CB_BANKROLL_USD
    maxGross,       \* CB_MAX_GROSS_USD
    snap,       \* PoolBook.snaps: rank and candidate
    held,       \* lots of the long
    resting,    \* lots of the resting entry
    exiting,    \* a flatten is under way
    killed,     \* killSwitch.blocked()
    tripped,    \* the equity is at or below the drawdown line
    at,         \* what the pair's decision awaits; "idle" when not busy
    saw,        \* the position it read when it started
    read,       \* the halt and the room it read after the model
    gate,       \* the target it settled on
    lastPlan,   \* the names the last plan flattens
    moves,      \* bound: what the market, the model and the store may still do
    mixed       \* history: a rank moved while an entry was resting or approved,
                \* a long that was to go for want of one has it again, or a
                \* plan left a name out that a slot was free for

market == <<snap, killed, tripped, moves, mixed>>
broker == <<held, resting, exiting>>
decision == <<at, saw, read, gate>>
config == <<book, pairs, maxConcurrent, bankroll, maxGross>>
vars == <<config, market, broker, decision, lastPlan>>

-----------------------------------------------------------------------------
Lots(names) == MapThenSumSet(LAMBDA p : Clip[p], names)

Longs == {p \in Pairs : held[p] > 0}

(* openGrossUsd and cashUsd                                                 *)
Gross ==
    MapThenSumSet(LAMBDA p : held[p], Pairs) + MapThenSumSet(LAMBDA p : resting[p], Pairs)
Cash == bankroll - MapThenSumSet(LAMBDA p : held[p], Pairs)

Init ==
    /\ \E t \in Trials :
          /\ book = t.book /\ pairs = t.pairs /\ maxConcurrent = t.slots
          /\ bankroll = t.cash /\ maxGross = t.cap
          /\ snap \in t.starts /\ moves = t.moves
    /\ held = [p \in Pairs |-> 0]
    /\ resting = [p \in Pairs |-> 0]
    /\ exiting = [p \in Pairs |-> FALSE]
    /\ killed = FALSE /\ tripped = FALSE
    /\ at = [p \in Pairs |-> "idle"]
    /\ saw = [p \in Pairs |-> "flat"]
    /\ read = [p \in Pairs |-> [halted |-> FALSE, full |-> FALSE, label |-> "calm"]]
    /\ gate = [p \in Pairs |-> "flat"]
    /\ lastPlan = {}
    /\ mixed = FALSE

-----------------------------------------------------------------------------
(* planRotation                                                             *)

(* compareRank, among names that are all open or all flat.                   *)
Outranks(p, q) ==
    \/ snap[p].rank > snap[q].rank
    \/ snap[p].rank = snap[q].rank /\ p < q

Live == {p \in Longs : snap[p].rank # Broken}

Candidates == {p \in pairs \ Longs : snap[p].candidate}

FitsAlone(enter, c) ==
    /\ Cardinality(Live) < maxConcurrent
    /\ Cash - Lots(enter) >= Clip[c]
    /\ maxGross - Gross - Lots(enter) >= Clip[c]

Fits(enter, c) ==
    /\ Cardinality(Live) + Cardinality(enter) < maxConcurrent
    /\ Cash - Lots(enter) >= Clip[c]
    /\ maxGross - Gross - Lots(enter) >= Clip[c]

Strongest == CHOOSE w \in Live : \A p \in Live \ {w} : Outranks(w, p)

Weakest == CHOOSE w \in Live : \A p \in Live \ {w} : Outranks(p, w)

RotatesForEquals(plan, c) ==
    ~plan.rotated /\ Live # {} /\ snap[c].rank >= snap[Weakest].rank

Rotates(plan, c) ==
    ~plan.rotated /\ Live # {} /\ snap[c].rank > snap[Weakest].rank

(* The candidates in the order of the ranks.                                 *)
Sorted(names) ==
    CHOOSE order \in [1..Cardinality(names) -> names] :
        /\ \A i, j \in 1..Cardinality(names) : i < j => Outranks(order[i], order[j])
        /\ \A p \in names : \E i \in 1..Cardinality(names) : order[i] = p

(* One candidate of the loop.                                              *)
Placed(plan, c) ==
    IF Fits(plan.enter, c) THEN [plan EXCEPT !.enter = @ \cup {c}]
    ELSE IF Rotates(plan, c) THEN [plan EXCEPT !.flatten = @ \cup {Weakest}, !.rotated = TRUE]
    ELSE plan

Plan ==
    IF tripped
    THEN [enter |-> {}, flatten |-> Longs, rotated |-> FALSE]
    ELSE FoldLeft(Placed, [enter |-> {}, flatten |-> Longs \ Live, rotated |-> FALSE],
                  Sorted(Candidates))

-----------------------------------------------------------------------------
(* The decision of a pair (decide).                                          *)

Goto(p, from, to) == at[p] = from /\ at' = [at EXCEPT ![p] = to]

(* A pair is decided every 300 s and an entry rests for 120 s.               *)
DecideStart(p) ==
    /\ p \in pairs
    /\ Goto(p, "idle", "model")
    /\ resting[p] = 0
    /\ saw' = [saw EXCEPT ![p] = IF held[p] > 0 THEN "long" ELSE "flat"]
    /\ UNCHANGED <<config, market, broker, read, gate, lastPlan>>

Labels == {"calm", "contraction", "stress"}

(* What a decision forgets when it ends.                                     *)
Forgets(p) ==
    /\ saw' = [saw EXCEPT ![p] = "flat"]
    /\ read' = [read EXCEPT ![p] = [halted |-> FALSE, full |-> FALSE, label |-> "calm"]]
    /\ gate' = [gate EXCEPT ![p] = "flat"]

Spends(cost) == moves >= cost /\ moves' = moves - cost

(* The model's labels matter to the pooled book only.                        *)
ModelAnswers(p) ==
    \E label \in Labels :
        /\ Goto(p, "model", "sample")
        /\ book = "breakout" => label = "calm"
        /\ Spends(IF label = "calm" THEN 0 ELSE 1)
        /\ read' = [read EXCEPT ![p] = [halted |-> killed, full |-> Gross >= maxGross,
                                        label |-> label]]
        /\ UNCHANGED <<config, snap, killed, tripped, mixed, broker, saw, gate, lastPlan>>

Ends(p, from) == Goto(p, from, "idle") /\ Forgets(p)

(* The model fails or is cut off by the deadline, or the decision's row       *)
(* cannot be stored: the decision ends without an intent.                    *)
Fails(p) ==
    /\ Spends(1)
    /\ Ends(p, "model") \/ Ends(p, "row")
    /\ UNCHANGED <<config, snap, killed, tripped, mixed, broker, lastPlan>>

(* evaluatePooled, where it comes to a plan.                                 *)
Plans(p) ==
    /\ book = "pooled"
    /\ ~read[p].halted
    /\ ~(saw[p] = "long" /\ read[p].label = "contraction")

PooledTarget(p, healthy) ==
    IF saw[p] = "long" THEN (IF Plans(p) /\ ~tripped /\ p \notin Plan.flatten THEN "long" ELSE "flat")
    ELSE IF Plans(p) /\ p \in Plan.enter /\ healthy /\ read[p].label = "calm" /\ ~read[p].full
         THEN "long" ELSE "flat"

(* evaluateSplitBreakout                                                    *)
SplitHoldsLongs(p, healthy) ==
    IF saw[p] = "long" THEN "long"
    ELSE IF healthy /\ snap[p].candidate /\ ~read[p].full /\ ~read[p].halted THEN "long"
    ELSE "flat"

SplitTarget(p, healthy) ==
    IF read[p].halted THEN "flat"
    ELSE IF saw[p] = "long" THEN "long"
    ELSE IF healthy /\ snap[p].candidate /\ ~read[p].full THEN "long"
    ELSE "flat"

(* Cash or the cap, not the slots, keeps a candidate out of the plan.          *)
Crowded ==
    /\ book = "pooled" /\ ~tripped
    /\ LET enter == Plan.enter IN
       \E c \in Candidates \ enter :
          Cardinality(Live) + Cardinality({b \in enter : Outranks(b, c)}) < maxConcurrent

(* The veto sample is stored or fails, either way the gate is asked.          *)
Sampled(p) ==
    \E healthy \in BOOLEAN :
        /\ Goto(p, "sample", "row")
        /\ Spends(IF healthy THEN 0 ELSE 1)
        /\ gate' = [gate EXCEPT ![p] = IF book = "pooled" THEN PooledTarget(p, healthy)
                                       ELSE SplitTarget(p, healthy)]
        /\ lastPlan' = IF Plans(p) THEN Plan.flatten ELSE lastPlan
        /\ mixed' = (mixed \/ (Plans(p) /\ Crowded))
        /\ UNCHANGED <<config, snap, killed, tripped, broker, saw, read>>

(* onIntent and place: an entry takes what room is left.                     *)
EntryLots(p) ==
    LET room == maxGross - Gross
        lots == IF Clip[p] <= room THEN Clip[p] ELSE room
    IN IF killed \/ resting[p] > 0 \/ lots <= 0 \/ Cash < lots THEN 0 ELSE lots

(* Only what is held is sold.                                               *)
AllOf(names) == names

Sellable(names) == names \cap Longs

(* The row is stored: the pair's own intent goes out, then the flattens of    *)
(* the last plan, which may be another decision's by now.                     *)
RowStored(p) ==
    LET own == IF gate[p] = "flat" /\ saw[p] = "long" THEN {p} ELSE {}
        others == IF book = "pooled" THEN lastPlan \ {p} ELSE {}
    IN
    /\ Ends(p, "row")
    /\ resting' = IF gate[p] = "long" /\ saw[p] = "flat"
                  THEN [resting EXCEPT ![p] = EntryLots(p)] ELSE resting
    /\ exiting' = [q \in Pairs |-> exiting[q] \/ q \in Sellable(own \cup others)]
    /\ UNCHANGED <<config, market, held, lastPlan>>

-----------------------------------------------------------------------------
(* The broker.                                                              *)

Filled(p) ==
    /\ resting[p] > 0
    /\ held' = [held EXCEPT ![p] = @ + resting[p]]
    /\ resting' = [resting EXCEPT ![p] = 0]
    /\ UNCHANGED <<config, market, exiting, decision, lastPlan>>

(* The timeout, or a feed that is down.                                      *)
Missed(p) ==
    /\ resting[p] > 0
    /\ resting' = [resting EXCEPT ![p] = 0]
    /\ UNCHANGED <<config, market, held, exiting, decision, lastPlan>>

Flattened(p) ==
    /\ exiting[p]
    /\ held' = [held EXCEPT ![p] = 0]
    /\ exiting' = [exiting EXCEPT ![p] = FALSE]
    /\ UNCHANGED <<config, market, resting, decision, lastPlan>>

(* A store call of the flatten rejects.                                      *)
FlattenFails(p) ==
    /\ exiting[p]
    /\ Spends(1)
    /\ exiting' = [exiting EXCEPT ![p] = FALSE]
    /\ UNCHANGED <<config, snap, killed, tripped, mixed, held, resting, decision, lastPlan>>

(* The stop or the trail, on the one second tick.                            *)
Stop(p) ==
    /\ held[p] > 0 /\ ~exiting[p]
    /\ Spends(1)
    /\ exiting' = [exiting EXCEPT ![p] = TRUE]
    /\ UNCHANGED <<config, snap, killed, tripped, mixed, held, resting, decision, lastPlan>>

-----------------------------------------------------------------------------
(* The market and the operator.                                              *)

(* An entry that was approved and has not been filled or given up.            *)
Entering(p) == resting[p] > 0 \/ (at[p] = "row" /\ gate[p] = "long" /\ saw[p] = "flat")

(* PoolBook.refresh: the pairs are fetched side by side, and end one by one.   *)
Refresh(p) ==
    /\ p \in pairs
    /\ Spends(1)
    /\ \E s \in Snaps \ {snap[p]} : snap' = [snap EXCEPT ![p] = s]
    /\ mixed' = (mixed \/ (held[p] > 0 /\ snap[p].rank = Broken) \/ \E q \in Pairs : Entering(q))
    /\ UNCHANGED <<config, killed, tripped, broker, decision, lastPlan>>

(* CB_KILL, the file, or the day's loss; a new day or the operator clears it.   *)
KillTurns ==
    /\ Spends(1)
    /\ killed' = ~killed
    /\ UNCHANGED <<config, snap, tripped, mixed, broker, decision, lastPlan>>

(* Marks move the equity across the line while something is held.              *)
EquityTurns ==
    /\ book = "pooled" /\ Longs # {}
    /\ Spends(1)
    /\ tripped' = ~tripped
    /\ UNCHANGED <<config, snap, killed, mixed, broker, decision, lastPlan>>

Decide(p) == DecideStart(p) \/ ModelAnswers(p) \/ Sampled(p) \/ RowStored(p)

Next ==
    \/ \E p \in Pairs :
          \/ Decide(p) \/ Fails(p)
          \/ Filled(p) \/ Missed(p) \/ Flattened(p) \/ FlattenFails(p) \/ Stop(p)
          \/ Refresh(p)
    \/ KillTurns \/ EquityTurns

Spec == Init /\ [][Next]_vars

(* The timers fire, the model and the store answer, the broker's tick runs.    *)
Fairness ==
    \A p \in Pairs : WF_vars(Decide(p)) /\ WF_vars(Flattened(p)) /\ WF_vars(Filled(p) \/ Missed(p))

FairSpec == Spec /\ Fairness

-----------------------------------------------------------------------------
(* Properties.                                                              *)

TypeOK ==
    /\ book \in Books /\ pairs \subseteq Pairs /\ maxConcurrent \in Nat
    /\ bankroll \in Nat /\ maxGross \in Nat /\ moves \in Nat
    /\ snap \in [Pairs -> Snaps]
    /\ killed \in BOOLEAN /\ tripped \in BOOLEAN /\ mixed \in BOOLEAN
    /\ held \in [Pairs -> Nat] /\ resting \in [Pairs -> Nat]
    /\ \A p \in Pairs : held[p] + resting[p] <= Clip[p]
    /\ exiting \in [Pairs -> BOOLEAN] /\ \A p \in Pairs : exiting[p] => held[p] > 0
    /\ at \in [Pairs -> {"idle", "model", "sample", "row"}]
    /\ saw \in [Pairs -> {"flat", "long"}] /\ gate \in [Pairs -> {"flat", "long"}]
    /\ read \in [Pairs -> [halted : BOOLEAN, full : BOOLEAN, label : Labels]]
    /\ lastPlan \subseteq Pairs

(* What SENIOR-DEV-PLAN-POOLED-CAPITAL.md locks, as a relation between the      *)
(* names a plan enters and those it flattens.                                 *)
Waits(enter, c) ==
    LET better == {p \in enter : Outranks(p, c)} IN
    \/ Cardinality(Live) + Cardinality(better) >= maxConcurrent
    \/ Lots(better) + Clip[c] > Cash
    \/ Gross + Lots(better) + Clip[c] > maxGross

IsPlan(enter, flatten) ==
    LET waiting == Candidates \ enter
        rotated == flatten \cap Live
    IN
    /\ enter \subseteq Candidates
    /\ Longs \ Live \subseteq flatten /\ flatten \subseteq Longs
    /\ \A c \in enter : ~Waits(enter, c)
    /\ \A c \in waiting : Waits(enter, c)
    /\ \A w \in rotated : \A p \in Live \ {w} : snap[p].rank > snap[w].rank \/ (snap[p].rank = snap[w].rank /\ p < w)
    /\ rotated # {} <=> \E c \in waiting : \E w \in Live : snap[c].rank > snap[w].rank

(* A decision that plans flattens what the rules say, for some set of entries    *)
(* the rules allow, and enters only if it is one of them.                     *)
RotationFollowsTheRules ==
    [][\A p \in Pairs :
        (at[p] = "sample" /\ at'[p] = "row" /\ Plans(p)) =>
            IF tripped THEN lastPlan' = Longs /\ gate'[p] = "flat"
            ELSE \E enter \in SUBSET Pairs :
                    /\ IsPlan(enter, lastPlan')
                    /\ (gate'[p] = "long" /\ saw[p] = "flat") => p \in enter]_vars

(* The pool has at most as many longs and entries as slots, although a plan     *)
(* counts neither entries that rest nor those another pair's decision has      *)
(* approved, as long as no rank moved under one of them and no plan left out a *)
(* name for want of cash or of room under the cap.                           *)
PoolSlotsHold ==
    book = "pooled" /\ ~mixed =>
        Cardinality(Live \cup {p \in Pairs : Entering(p)}) <= maxConcurrent

(* The plan's limit on longs (SENIOR-DEV-PLAN-POOLED-CAPITAL.md section 1).     *)
MaxConcurrentHolds == book = "pooled" => Cardinality(Longs) <= maxConcurrent

(* When the market rests, so does the book: no rotation calls for the next,     *)
(* unless plans keep running short of cash or of room under the cap.          *)
Settles == <>[](~Crowded) => <>[](\A p \in Pairs : ~exiting[p])

(* A kill that stays, or an equity that stays under the line, leaves no long,   *)
(* whatever was approved before it and although calls hang or fail.            *)
HaltFlattens ==
    (<>[]killed \/ <>[](tripped /\ book = "pooled")) => <>[](Longs = {})
=============================================================================
