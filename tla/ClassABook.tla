----------------------------- MODULE ClassABook -----------------------------
(***************************************************************************)
(* The class A paper book (research/src/p6/class-a-live.ts, class-a-paper.ts). *)
(* Closed 15 minute bars arrive one pair at a time.  The bars of one start    *)
(* time form a bucket: each arrival restores the book as it was before the    *)
(* bucket and replays every bar of it, so that fills compete by rank and not  *)
(* by arrival.  A pair's signal is checked once, when its day-close bar        *)
(* arrives; the check is stored and replayed, never repeated.                *)
(*                                                                          *)
(* Time counts bars: bar k is open during tick k and may arrive from tick k+1. *)
(* Prices are kept as what they do: a bar "dips" through the resting limit or *)
(* "crashes" through the stop as well.  A stop loses one unit, a rule exit    *)
(* earns one.  Counterfactual shadows, fees and the retention of 80 closed    *)
(* rows are left out; every order risks at most a third of the risk cap       *)
(* (sizedOrder), so the slots are the cap that binds.                        *)
(***************************************************************************)
EXTENDS Integers, FiniteSets, SequencesExt

CONSTANTS
    Pairs,       \* numbered in the order of their names
    Volume,      \* pair -> 30 day median volume
    DayBars,     \* bars of a day, and of the pause after a stop
    Window,      \* bars an order rests: four hours
    MaxOpen,     \* CLASS_A_MAX_OPEN
    Kill,        \* CLASS_A_KILL_USD, in units of one stop
    Trials,      \* feeds, pairs with a tick size, crashes already spent; drawn in Init
    MaxClock, MaxCrashes   \* bounds, for model checking

FeedNames == {"live", "ahead", "catchUp"}

ASSUME PairsAssumption == Pairs \subseteq Nat /\ IsFiniteSet(Pairs) /\ Volume \in [Pairs -> Nat]
ASSUME NumbersAssumption ==
    /\ DayBars \in Nat \ {0} /\ Window \in 1..(DayBars - 1) /\ MaxOpen \in Nat \ {0}
    /\ Kill \in Nat \ {0} /\ MaxClock \in Nat /\ DayBars <= MaxClock /\ MaxCrashes \in Nat
ASSUME TrialsAssumption ==
    Trials \subseteq [feed : FeedNames, ticks : SUBSET Pairs, crashes : 0..MaxCrashes]

VARIABLES
    feed,      \* the feed of this behavior
    ticks,     \* host.ticks: the pairs whose tick size is known
    clock,     \* the bar now open
    prints,    \* pair -> bars in which a print went through the limit
    early,     \* pair -> those whose first such print fell in the bar's first second
    through,   \* pair -> last bar pushed (appliedThrough)
    book,      \* host.classAPaper
    bucket,    \* book.bucket
    saved,     \* the book as last persisted
    crashes,
    dips       \* history: pair -> bars pushed that went through its limit

vars == <<feed, ticks, clock, prints, early, through, book, bucket, saved, crashes, dips>>

-----------------------------------------------------------------------------
Never == 0

(* The close of bar k ends a day: a signal time.                             *)
IsDayCloseBar(k) == (k + 1) % DayBars = 0

Signals == {t \in 1..MaxClock : t % DayBars = 0}

(* An order, and its row, is named by its pair and its signal time.          *)
Pair(id) == id[1]
Signal(id) == id[2]

Lows == {"calm", "dip", "crash"}
Bars == [low : Lows, rule : BOOLEAN]

(* What a check finds: no trigger, a veto or too little volume, a book too    *)
(* wide, thin or stale, or nothing against the order.                        *)
Quotes == {"quiet", "vetoed", "wide", "good"}

EmptyMap == [i \in {} |-> 0]

Entry(key, value) == [i \in {key} |-> value]

(* Entries that are there already stay what they are.                        *)
Merged(f, g) ==
    [i \in DOMAIN f \cup DOMAIN g |-> IF i \in DOMAIN f THEN f[i] ELSE g[i]]

EmptyBook == [rows |-> EmptyMap, open |-> EmptyMap, resting |-> {},
              reentry |-> [p \in Pairs |-> Never], net |-> 0, killed |-> FALSE,
              last |-> Never]

Snapshot == [book |-> book, bucket |-> bucket, through |-> through, dips |-> dips]

NewBucket(k, image) == [start |-> k, bars |-> EmptyMap, image |-> image, decisions |-> EmptyMap]

FirstSnapshot == [book |-> EmptyBook, bucket |-> NewBucket(Never, EmptyBook),
                  through |-> [p \in Pairs |-> DayBars - 2], dips |-> [p \in Pairs |-> {}]]

Init ==
    /\ \E t \in Trials : feed = t.feed /\ ticks = t.ticks /\ crashes = t.crashes
    /\ clock = DayBars
    /\ prints = [p \in Pairs |-> {}]
    /\ early = [p \in Pairs |-> {}]
    /\ through = FirstSnapshot.through
    /\ book = FirstSnapshot.book
    /\ bucket = FirstSnapshot.bucket
    /\ dips = FirstSnapshot.dips
    /\ saved = FirstSnapshot

-----------------------------------------------------------------------------
(* Fills.                                                                   *)

(* compareClassAFills                                                       *)
Outranks(a, b) ==
    \/ Signal(a) < Signal(b)
    \/ /\ Signal(a) = Signal(b)
       /\ \/ Volume[Pair(a)] > Volume[Pair(b)]
          \/ Volume[Pair(a)] = Volume[Pair(b)] /\ Pair(a) < Pair(b)

(* Mutant: a position of the fill bar itself is not counted.                 *)
EarlierHolders(b, at) == {i \in DOMAIN b.open : b.open[i].entry < at}

(* classAOccupiesAt: from the fill bar to the end of the exit bar.           *)
Holders(b, at) ==
    {i \in DOMAIN b.open : b.open[i].entry <= at}
        \cup {i \in DOMAIN b.rows : /\ b.rows[i].exit # Never
                                    /\ b.rows[i].at <= at /\ at < b.rows[i].exit}

Capped(b, at) == Cardinality(Holders(b, at)) >= MaxOpen

InWindow(id, t) == Signal(id) <= t /\ t < Signal(id) + Window

(* The bar an order fills in: that of the first print through the limit,      *)
(* before the bar of the bucket.  An order whose pair has no bar in the       *)
(* bucket is not looked at.                                                 *)
FillBar(bk, id) ==
    LET seen == {t \in prints[Pair(id)] : InWindow(id, t)}
    IN IF Pair(id) \notin DOMAIN bk.bars THEN Never
       ELSE IF seen # {} THEN Min(seen)
       ELSE IF InWindow(id, bk.start) /\ bk.bars[Pair(id)].low # "calm" THEN bk.start
       ELSE Never

Decided(b, id, fill, why, at, by) ==
    [b EXCEPT !.rows[id] = [@ EXCEPT !.fill = fill, !.why = why, !.at = at, !.by = by],
              !.resting = @ \ {id}]

(* Mutant: an order is given up before the last bar of its window is read.    *)
GivesUpFirst(bk, b, id) ==
    IF clock >= Signal(id) + Window THEN Decided(b, id, "nofill", "nofill", Never, bk.start)
    ELSE IF FillBar(bk, id) # Never /\ ~Capped(b, FillBar(bk, id))
         THEN [Decided(b, id, "fill", "none", FillBar(bk, id), bk.start) EXCEPT
                 !.open = Merged(@, Entry(id, [entry |-> FillBar(bk, id), rule |-> FALSE]))]
         ELSE b

(* One order of resolveClassAResting.                                        *)
ResolveOne(bk, b, id) ==
    LET at == FillBar(bk, id)
    IN IF b.rows[id].fill # "pending" THEN [b EXCEPT !.resting = @ \ {id}]
       ELSE IF at # Never /\ Capped(b, at) THEN Decided(b, id, "nofill", "cap", at, bk.start)
       ELSE IF at # Never
            THEN [Decided(b, id, "fill", "none", at, bk.start) EXCEPT
                    !.open = Merged(@, Entry(id, [entry |-> at, rule |-> FALSE]))]
       ELSE IF clock >= Signal(id) + Window THEN Decided(b, id, "nofill", "nofill", Never, bk.start)
       ELSE b

(* The orders from the first to the last in rank.                            *)
Ranked(ids) ==
    CHOOSE order \in [1..Cardinality(ids) -> ids] :
        /\ \A i, j \in 1..Cardinality(ids) : i < j => Outranks(order[i], order[j])
        /\ \A id \in ids : \E i \in 1..Cardinality(ids) : order[i] = id

Resolved(bk, b) ==
    FoldLeft(LAMBDA c, id : ResolveOne(bk, c, id), b, Ranked(b.resting))

-----------------------------------------------------------------------------
(* Exits.                                                                   *)

(* Mutants: the position stays on the book; the pause runs from the bar's start. *)
KeptOpen(b, id, end, gain) ==
    [b EXCEPT !.net = @ + gain, !.killed = @ \/ b.net + gain <= -Kill,
              !.rows[id] = [@ EXCEPT !.exit = end, !.net = gain]]
ShortPause(b, id, end, gain) ==
    [b EXCEPT !.net = @ + gain, !.killed = @ \/ b.net + gain <= -Kill,
              !.reentry[Pair(id)] = IF gain < 0 THEN end - 1 + DayBars ELSE @,
              !.open = Restrict(@, DOMAIN @ \ {id}),
              !.rows[id] = [@ EXCEPT !.exit = end, !.net = gain]]

(* closeSim                                                                 *)
Closed(b, id, end, gain) ==
    [b EXCEPT !.net = @ + gain,
              !.killed = @ \/ b.net + gain <= -Kill,
              !.reentry[Pair(id)] = IF gain < 0 THEN end + DayBars ELSE @,
              !.open = Restrict(@, DOMAIN @ \ {id}),
              !.rows[id] = [@ EXCEPT !.exit = end, !.net = gain]]

(* onIntrabar, and on the day's last bar onDaily: a pending rule exit takes    *)
(* the open, then comes the stop, then the rule for the next open.  The       *)
(* daily low is one of the lows already seen.                               *)
ExitOne(bk, b, id) ==
    LET bar == bk.bars[Pair(id)]
    IN IF b.open[id].rule THEN Closed(b, id, bk.start + 1, 1)
       ELSE IF bar.low = "crash" THEN Closed(b, id, bk.start + 1, -1)
       ELSE [b EXCEPT !.open[id].rule =
                IsDayCloseBar(bk.start) /\ bar.rule /\ b.open[id].entry <= bk.start]

(* A bar's exits reach the positions that were opened before it ended.  The    *)
(* time of a print is cut to whole seconds: one in the first second of the    *)
(* next bar counts as before the end.                                        *)
Reaches(bk, b, id) ==
    \/ b.open[id].entry <= bk.start
    \/ b.open[id].entry = bk.start + 1 /\ bk.start + 1 \in early[Pair(id)]

Exits(bk, b, p) ==
    LET held == {i \in DOMAIN b.open : Pair(i) = p /\ Reaches(bk, b, i)}
    IN FoldLeft(LAMBDA c, id : ExitOne(bk, c, id), b, Ranked(held))

-----------------------------------------------------------------------------
(* Checks.                                                                  *)

NewRow(fill, why) == [fill |-> fill, why |-> why, at |-> Never, by |-> Never,
                      exit |-> Never, net |-> 0]

Recorded(b, id, fill, why) ==
    [b EXCEPT !.rows = Merged(@, Entry(id, NewRow(fill, why))), !.last = Signal(id)]

Skipped(b, id, why) == Recorded(b, id, "skip", why)

(* evaluateSignal with deferEntry: a print through the limit does not open.    *)
(* Without a tick size no print goes through it, and no order rests.         *)
Checked(b, id, quote) ==
    LET p == Pair(id)
        printed == \E t \in prints[p] : InWindow(id, t)
    IN CASE quote = "quiet" -> b
         [] quote # "quiet" /\ Signal(id) < b.last ->
                [b EXCEPT !.rows = Merged(@, Entry(id, NewRow("skip", "outOfOrder")))]
         [] OTHER ->
              IF quote = "vetoed" THEN Skipped(b, id, "veto")
              ELSE IF b.killed THEN Skipped(b, id, "kill")
              ELSE IF quote = "wide" THEN Skipped(b, id, "quote")
              ELSE IF \E i \in DOMAIN b.open : Pair(i) = p THEN Skipped(b, id, "pair")
              ELSE IF Signal(id) < b.reentry[p] THEN Skipped(b, id, "reentry")
              ELSE IF p \notin ticks THEN Recorded(b, id, "nofill", "noTick")
              ELSE IF ~printed /\ clock >= Signal(id) + Window
                   THEN Recorded(b, id, "nofill", "nofill")
              ELSE [Recorded(b, id, "pending", "none") EXCEPT !.resting = @ \cup {id}]

(* storeClassASignalDecision: what the check added to the book.              *)
Decision(before, after) ==
    [rows |-> Restrict(after.rows, DOMAIN after.rows \ DOMAIN before.rows),
     resting |-> after.resting \ before.resting,
     last |-> IF after.last # before.last THEN after.last ELSE Never]

(* Mutant: a bucket remembers its last check only.                           *)
RememberLast(bk, p, decision) == [bk EXCEPT !.decisions = Entry(p, decision)]

Remember(bk, p, decision) == [bk EXCEPT !.decisions = Merged(@, Entry(p, decision))]

(* applyStoredClassASignal                                                  *)
ApplyStored(bk, b, p) ==
    IF p \notin DOMAIN bk.decisions THEN b
    ELSE LET d == bk.decisions[p]
         IN [b EXCEPT !.rows = Merged(@, d.rows), !.resting = @ \cup d.resting,
                      !.last = IF d.last # Never THEN d.last ELSE @]

-----------------------------------------------------------------------------
(* replayClassABucket                                                       *)

(* The pairs in the order of their names.                                    *)
Ordered(names) ==
    CHOOSE order \in [1..Cardinality(names) -> names] :
        /\ \A i, j \in 1..Cardinality(names) : i < j => order[i] < order[j]
        /\ \A p \in names : \E i \in 1..Cardinality(names) : order[i] = p

Stored(bk) ==
    FoldLeft(LAMBDA b, p : ApplyStored(bk, b, p), bk.image, Ordered(DOMAIN bk.bars))

Replayed(bk) ==
    FoldLeft(LAMBDA b, p : Exits(bk, b, p), Resolved(bk, Stored(bk)), Ordered(DOMAIN bk.bars))

(* Up to the exits of pair p: what its check sees.                           *)
ReplayedTo(bk, p) ==
    Exits(bk, FoldLeft(LAMBDA b, q : ApplyStored(bk, Exits(bk, b, q), q), bk.image,
                       Ordered({q \in DOMAIN bk.bars : q < p})), p)

-----------------------------------------------------------------------------
(* Actions.                                                                 *)

(* The bars a pair may push: live ones the moment they close, or, after an    *)
(* outage, pair by pair whatever is missing.  A bar with prints is not missed. *)
Due(p) ==
    {k \in through[p] + 1 .. clock - 1 :
        /\ feed = "catchUp" \/ k = clock - 1
        /\ \A t \in through[p] + 1 .. k - 1 : t \notin prints[p]}

(* What a bar does to a pair without an order or a position is of no matter,   *)
(* but for a position of its bucket that a print at its end opens: only its    *)
(* quiet form is tried.                                                     *)
Watched(p) ==
    \E i \in DOMAIN book.open \cup DOMAIN bucket.image.open \cup book.resting
                \cup bucket.image.resting : Pair(i) = p

(* Mutants: the decisions of the last bucket stay; so does its image.        *)
StaleDecisions(k) ==
    IF bucket.start = k THEN bucket
    ELSE [NewBucket(k, book) EXCEPT !.decisions = bucket.decisions]
StaleImage(k) == IF bucket.start = k THEN bucket ELSE NewBucket(k, bucket.image)

(* A bar of another start time closes the bucket and opens its own.          *)
BucketOf(k) == IF bucket.start = k THEN bucket ELSE NewBucket(k, book)

(* stepClassAFromHost                                                       *)
Push(p) ==
    \E k \in Due(p), bar \in Bars, quote \in Quotes :
        LET full == [BucketOf(k) EXCEPT !.bars = Merged(@, Entry(p, bar))]
            before == ReplayedTo(full, p)
            after == Checked(before, <<p, k + 1>>, quote)
            next == IF IsDayCloseBar(k) /\ p \notin DOMAIN full.decisions
                    THEN Remember(full, p, Decision(before, after))
                    ELSE full
        IN /\ k \in prints[p] => bar.low # "calm"
           /\ ~IsDayCloseBar(k) => quote = "quiet" /\ ~bar.rule
           /\ ~Watched(p) /\ k + 1 \notin early[p] => bar.low = "calm" /\ ~bar.rule
           /\ bucket' = next
           /\ book' = Replayed(next)
           /\ through' = [through EXCEPT ![p] = k]
           /\ dips' = [dips EXCEPT ![p] = IF bar.low = "calm" THEN @ ELSE @ \cup {k}]
           /\ UNCHANGED <<feed, ticks, clock, prints, early, saved, crashes>>

(* A print through the limit of the pair's order, in the bar now open.  With  *)
(* the feed "live" the bars of the last bucket are in before it, but for the  *)
(* first bar of an order.                                                   *)
Trade(p) ==
    /\ clock < MaxClock
    /\ clock \notin prints[p]
    /\ \E s \in Signals : InWindow(<<p, s>>, clock)
    /\ feed = "ahead" \/ IsDayCloseBar(clock - 1)
    /\ prints' = [prints EXCEPT ![p] = @ \cup {clock}]
    /\ \E first \in BOOLEAN :
          early' = [early EXCEPT ![p] = IF first THEN @ \cup {clock} ELSE @]
    /\ UNCHANGED <<feed, ticks, clock, through, book, bucket, saved, crashes, dips>>

(* A bar with prints is built from them when it cannot be fetched.  The book   *)
(* is saved every minute, so the last bar's arrivals are saved by now.       *)
Tick ==
    /\ clock < MaxClock
    /\ feed # "catchUp" => \A p \in Pairs : clock - 1 \in prints[p] => through[p] = clock - 1
    /\ clock' = clock + 1
    /\ saved' = IF crashes < MaxCrashes THEN Snapshot ELSE saved
    /\ UNCHANGED <<feed, ticks, prints, early, through, book, bucket, crashes, dips>>

Save ==
    /\ crashes < MaxCrashes
    /\ saved' = Snapshot
    /\ UNCHANGED <<feed, ticks, clock, prints, early, through, book, bucket, crashes, dips>>

(* Mutant: the bucket in progress is not saved.                              *)
BucketLost(s) == NewBucket(Never, s.book)

(* restoreClassABook: the bucket in progress comes back with the book, and    *)
(* the prints with the tape.  What was saved is forgotten with the last crash. *)
Restored(s) == s.bucket

Restart ==
    /\ crashes < MaxCrashes
    /\ crashes' = crashes + 1
    /\ book' = saved.book
    /\ bucket' = Restored(saved)
    /\ through' = saved.through
    /\ dips' = saved.dips
    /\ saved' = IF crashes' < MaxCrashes THEN saved ELSE FirstSnapshot
    /\ UNCHANGED <<feed, ticks, clock, prints, early>>

Next == Tick \/ Save \/ Restart \/ \E p \in Pairs : Push(p) \/ Trade(p)

Spec == Init /\ [][Next]_vars
-----------------------------------------------------------------------------
(* Properties.                                                              *)

Ids == Pairs \X Signals

IsRow(r) ==
    /\ r.fill \in {"skip", "pending", "fill", "nofill"}
    /\ r.at \in 0..MaxClock /\ r.by \in 0..MaxClock /\ r.exit \in 0..MaxClock
    /\ r.net \in {-1, 0, 1}

IsBook(b) ==
    /\ DOMAIN b.rows \subseteq Ids /\ \A i \in DOMAIN b.rows : IsRow(b.rows[i])
    /\ DOMAIN b.open \subseteq Ids /\ b.resting \subseteq Ids
    /\ b.reentry \in [Pairs -> Nat] /\ b.net \in Int /\ b.killed \in BOOLEAN
    /\ b.last \in Nat

TypeOK ==
    /\ feed \in FeedNames /\ ticks \subseteq Pairs /\ clock \in 0..MaxClock /\ crashes \in 0..MaxCrashes
    /\ prints \in [Pairs -> SUBSET (0..MaxClock)] /\ early \in [Pairs -> SUBSET (0..MaxClock)]
    /\ through \in [Pairs -> 0..MaxClock]
    /\ IsBook(book) /\ IsBook(bucket.image) /\ IsBook(saved.book)
    /\ DOMAIN bucket.decisions \subseteq DOMAIN bucket.bars

(* The book's four accounts agree however often a bucket was replayed: the     *)
(* positions are the filled rows without an exit, the resting orders the       *)
(* pending rows, the net the sum of the exits, each scored once.              *)
AccountsAgree ==
    LET net == [i \in DOMAIN book.rows |-> book.rows[i].net] IN
    /\ DOMAIN book.open = {i \in DOMAIN book.rows :
                              book.rows[i].fill = "fill" /\ book.rows[i].exit = Never}
    /\ book.resting = {i \in DOMAIN book.rows : book.rows[i].fill = "pending"}
    /\ book.net = MapThenSumSet(LAMBDA i : net[i], DOMAIN book.rows)
    /\ book.net <= -Kill => book.killed

(* The fills one bucket decides for one bar go by rank, whatever the order in   *)
(* which its bars arrived and wherever a restart fell.  (Bars that catch up    *)
(* pair by pair visit a bucket more than once.)                              *)
FillsGoByRank ==
    feed = "live" =>
    \A i, j \in DOMAIN book.rows :
        LET won == book.rows[i]
            lost == book.rows[j]
        IN won.fill = "fill" /\ lost.why = "cap" /\ won.at = lost.at /\ won.by = lost.by
             => Outranks(i, j)

(* "One resolve then applies the 3-slot and $60 caps to every resting order":  *)
(* no bar sees more positions than slots.                                    *)
SlotsHold ==
    \A t \in 1..MaxClock :
        Cardinality({i \in DOMAIN book.rows :
            /\ book.rows[i].fill = "fill" /\ book.rows[i].at <= t
            /\ book.rows[i].exit = Never \/ t < book.rows[i].exit}) <= MaxOpen

(* So it is while every bar arrives before the prints of the next.           *)
LiveSlotsHold == feed = "live" => SlotsHold

(* No order is placed within a day of the stop of another order of its pair.   *)
NoReentry ==
    \A i, j \in DOMAIN book.rows :
        /\ i # j /\ Pair(i) = Pair(j) /\ book.rows[i].net = -1
        /\ book.rows[j].fill \in {"pending", "fill"} \/ book.rows[j].why \in {"cap", "nofill"}
        => ~(book.rows[i].exit <= Signal(j) /\ Signal(j) < book.rows[i].exit + DayBars)

(* A later arrival of a bucket flips no signal: rows stay, a skip stays a      *)
(* skip, and an order stays one.                                             *)
SignalsStand ==
    [][crashes' = crashes =>
         \A i \in DOMAIN book.rows :
            /\ i \in DOMAIN book'.rows
            /\ book.rows[i].fill = "skip" => book'.rows[i] = book.rows[i]
            /\ book.rows[i].fill # "skip" => book'.rows[i].fill # "skip"]_vars

(* What another bucket decided is final: its fills, refusals and exits are      *)
(* never taken back.                                                        *)
OldBucketsStand ==
    [][crashes' = crashes =>
         \A i \in DOMAIN book.rows :
            LET row == book.rows[i]
            IN /\ row.by \notin {Never, bucket'.start}
                    => i \in DOMAIN book'.rows /\ book'.rows[i].fill = row.fill
               /\ row.exit \notin {Never, bucket'.start + 1}
                    => i \in DOMAIN book'.rows /\ book'.rows[i].exit = row.exit]_vars

NoTrade(i) == \A t \in prints[Pair(i)] \cup dips[Pair(i)] : ~InWindow(i, t)

(* "nofill is recorded only once that window has ended with neither" a print   *)
(* nor a low through the limit, for a pair whose tick size is known, as far as *)
(* bars and prints arrived in time.                                         *)
NofillIsTrue ==
    feed = "live" => \A i \in DOMAIN book.rows : book.rows[i].why = "nofill" => NoTrade(i)

(* The same of every row that is a nofill for another reason than the cap.    *)
EveryNofillIsTrue ==
    feed = "live" =>
    \A i \in DOMAIN book.rows :
        book.rows[i].fill = "nofill" /\ book.rows[i].why # "cap" => NoTrade(i)

(* "A position holds its slot and its $20 open risk from the start of its fill  *)
(* bar through the end of its exit bar": that bar is never before the first.    *)
FillBarIsHeld ==
    \A i \in DOMAIN book.rows :
        book.rows[i].exit # Never => book.rows[i].at < book.rows[i].exit
=============================================================================
