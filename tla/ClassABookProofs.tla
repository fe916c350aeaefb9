--------------------------- MODULE ClassABookProofs ---------------------------
(***************************************************************************)
(* Theorems about ClassABook, for every set of pairs, every volume, length of  *)
(* the day and the window, number of slots, feed and number of crashes.       *)
(***************************************************************************)
EXTENDS ClassABook, FoldLemmas, TLAPS

-----------------------------------------------------------------------------
(* The sets the book's parts are in.                                         *)

Whys == {"none", "cap", "nofill", "noTick", "veto", "kill", "quote", "pair", "reentry", "outOfOrder"}

Row == [fill : {"skip", "pending", "fill", "nofill"}, why : Whys, at : 0..MaxClock,
        by : 0..MaxClock, exit : 0..MaxClock, net : {-1, 0, 1}]

Position == [entry : 0..MaxClock, rule : BOOLEAN]

Maps(S, V) == UNION {[T -> V] : T \in SUBSET S}

Books == [rows : Maps(Ids, Row), open : Maps(Ids, Position), resting : SUBSET Ids,
          reentry : [Pairs -> Nat], net : Int, killed : BOOLEAN, last : Nat]

Decisions == [rows : Maps(Ids, Row), resting : SUBSET Ids, last : Nat]

Buckets == [start : 0..(MaxClock - 1), bars : Maps(Pairs, Bars), image : Books,
            decisions : Maps(Pairs, Decisions)]

TimesOK ==
    /\ prints \in [Pairs -> SUBSET (0..MaxClock)] /\ clock \in 0..MaxClock
    /\ early \in [Pairs -> SUBSET (0..MaxClock)] /\ ticks \subseteq Pairs

LEMMA Numbers ==
    /\ MaxClock \in Nat \ {0, 1} /\ DayBars \in Nat \ {0, 1} /\ Window \in Nat \ {0}
    /\ Window < DayBars /\ DayBars <= MaxClock /\ Kill \in Nat \ {0} /\ MaxOpen \in Nat \ {0}
BY NumbersAssumption

LEMMA IdsAre ==
    /\ IsFiniteSet(Ids)
    /\ \A id \in Ids : /\ Pair(id) \in Pairs /\ Pair(id) \in Nat
                       /\ Signal(id) \in 1..MaxClock /\ Signal(id) % DayBars = 0
                       /\ id = <<Pair(id), Signal(id)>>
<1>1. Signals \subseteq 1..MaxClock
    BY DEF Signals
<1>2. IsFiniteSet(Signals)
    <2> DEFINE D == 1..MaxClock
    <2>1. IsFiniteSet(D)
        BY Numbers, FS_Interval
    <2>2. Signals \subseteq D
        BY <1>1
    <2> HIDE DEF D
    <2> QED
        BY <2>1, <2>2, FS_Subset
<1>3. IsFiniteSet(Ids)
    BY <1>2, PairsAssumption, FS_Product DEF Ids
<1>4. ASSUME NEW id \in Ids
      PROVE  /\ Pair(id) \in Pairs /\ Pair(id) \in Nat
             /\ Signal(id) \in 1..MaxClock /\ Signal(id) % DayBars = 0
             /\ id = <<Pair(id), Signal(id)>>
    <2>1. PICK p \in Pairs, s \in Signals : id = <<p, s>>
        BY DEF Ids
    <2>2. Pair(id) = p /\ Signal(id) = s
        BY <2>1 DEF Pair, Signal
    <2>3. s \in 1..MaxClock /\ s % DayBars = 0 /\ p \in Nat
        BY PairsAssumption DEF Signals
    <2> QED
        BY <2>1, <2>2, <2>3
<1> QED
    BY <1>3, <1>4

LEMMA MapsAre ==
    ASSUME NEW S, NEW V, NEW f
    PROVE  f \in Maps(S, V) <=> DOMAIN f \subseteq S /\ f \in [DOMAIN f -> V]
<1>1. ASSUME f \in Maps(S, V) PROVE DOMAIN f \subseteq S /\ f \in [DOMAIN f -> V]
    BY <1>1 DEF Maps
<1>2. ASSUME DOMAIN f \subseteq S, f \in [DOMAIN f -> V] PROVE f \in Maps(S, V)
    BY <1>2 DEF Maps
<1> QED
    BY <1>1, <1>2

LEMMA MergedIsAMap ==
    ASSUME NEW S, NEW V, NEW f \in Maps(S, V), NEW g \in Maps(S, V)
    PROVE  Merged(f, g) \in Maps(S, V)
<1>1. DOMAIN f \subseteq S /\ f \in [DOMAIN f -> V] /\ DOMAIN g \subseteq S /\ g \in [DOMAIN g -> V]
    BY MapsAre
<1>2. DOMAIN Merged(f, g) = DOMAIN f \cup DOMAIN g
    BY DEF Merged
<1>3. Merged(f, g) \in [DOMAIN f \cup DOMAIN g -> V]
    BY <1>1 DEF Merged
<1> QED
    BY <1>1, <1>2, <1>3, MapsAre

LEMMA EntryIsAMap ==
    ASSUME NEW S, NEW V, NEW x \in S, NEW v \in V
    PROVE  Entry(x, v) \in Maps(S, V) /\ DOMAIN Entry(x, v) = {x} /\ Entry(x, v)[x] = v
BY MapsAre DEF Entry

LEMMA RestrictIsAMap ==
    ASSUME NEW S, NEW V, NEW f \in Maps(S, V), NEW T \in SUBSET DOMAIN f
    PROVE  /\ Restrict(f, T) \in Maps(S, V)
           /\ DOMAIN Restrict(f, T) = T
           /\ \A x \in T : Restrict(f, T)[x] = f[x]
<1>1. DOMAIN f \subseteq S /\ f \in [DOMAIN f -> V]
    BY MapsAre
<1>2. DOMAIN Restrict(f, T) = T /\ Restrict(f, T) \in [T -> V]
    BY <1>1 DEF Restrict
<1> QED
    BY <1>1, <1>2, MapsAre DEF Restrict

LEMMA ChangedIsAMap ==
    ASSUME NEW S, NEW V, NEW f \in Maps(S, V), NEW x, NEW v, x \in DOMAIN f => v \in V
    PROVE  /\ [f EXCEPT ![x] = v] \in Maps(S, V)
           /\ DOMAIN [f EXCEPT ![x] = v] = DOMAIN f
           /\ x \in DOMAIN f => [f EXCEPT ![x] = v][x] = v
           /\ \A y \in DOMAIN f : y # x => [f EXCEPT ![x] = v][y] = f[y]
<1>1. DOMAIN f \subseteq S /\ f \in [DOMAIN f -> V]
    BY MapsAre
<1>2. DOMAIN [f EXCEPT ![x] = v] = DOMAIN f /\ [f EXCEPT ![x] = v] \in [DOMAIN f -> V]
    BY <1>1
<1> QED
    BY <1>1, <1>2, MapsAre

LEMMA BookParts ==
    ASSUME NEW b \in Books
    PROVE  /\ b.rows \in Maps(Ids, Row) /\ b.open \in Maps(Ids, Position)
           /\ b.resting \in SUBSET Ids /\ b.reentry \in [Pairs -> Nat]
           /\ b.net \in Int /\ b.killed \in BOOLEAN /\ b.last \in Nat
           /\ DOMAIN b.rows \subseteq Ids /\ DOMAIN b.open \subseteq Ids
           /\ \A i \in DOMAIN b.rows : b.rows[i] \in Row
           /\ \A i \in DOMAIN b.open : b.open[i] \in Position
<1>1. /\ b.rows \in Maps(Ids, Row) /\ b.open \in Maps(Ids, Position)
      /\ b.resting \in SUBSET Ids /\ b.reentry \in [Pairs -> Nat]
      /\ b.net \in Int /\ b.killed \in BOOLEAN /\ b.last \in Nat
    BY DEF Books
<1>2. /\ DOMAIN b.rows \subseteq Ids /\ b.rows \in [DOMAIN b.rows -> Row]
      /\ DOMAIN b.open \subseteq Ids /\ b.open \in [DOMAIN b.open -> Position]
    BY <1>1, MapsAre
<1> QED
    BY <1>1, <1>2

-----------------------------------------------------------------------------
(* What each operation does to a book.                                       *)

(* The bar an order fills in is in its window.                               *)
LEMMA FillBarIs ==
    ASSUME TimesOK, NEW bk \in Buckets, NEW id \in Ids
    PROVE  /\ FillBar(bk, id) \in 0..MaxClock
           /\ FillBar(bk, id) # Never => InWindow(id, FillBar(bk, id)) /\ Pair(id) \in DOMAIN bk.bars
           /\ FillBar(bk, id) # Never =>
                 \/ FillBar(bk, id) \in prints[Pair(id)]
                 \/ FillBar(bk, id) = bk.start /\ bk.bars[Pair(id)].low # "calm"
           /\ FillBar(bk, id) = Never /\ Pair(id) \in DOMAIN bk.bars =>
                 /\ \A t \in prints[Pair(id)] : ~InWindow(id, t)
                 /\ bk.bars[Pair(id)].low = "calm" \/ ~InWindow(id, bk.start)
<1> DEFINE seen == {t \in prints[Pair(id)] : InWindow(id, t)}
<1>0. bk.start \in 0..(MaxClock - 1) /\ Pair(id) \in Pairs /\ Signal(id) \in 1..MaxClock
    BY IdsAre DEF Buckets
<1>1. seen \subseteq 0..MaxClock /\ seen \subseteq prints[Pair(id)] /\ seen \subseteq Int
    BY <1>0 DEF TimesOK
<1>2. seen # {} => Min(seen) \in seen
    <2>1. IsFiniteSet(seen)
        <3> DEFINE D == 0..MaxClock
        <3>1. IsFiniteSet(D)
            BY Numbers, FS_Interval
        <3>2. seen \subseteq D
            BY <1>1
        <3> HIDE DEF D, seen
        <3> QED
            BY <3>1, <3>2, FS_Subset
    <2> HIDE DEF seen
    <2> QED
        BY <1>1, <2>1, MinExists
<1>3. \A t \in Int : InWindow(id, t) => t # Never
    BY <1>0 DEF InWindow, Never
<1>4. FillBar(bk, id) = IF Pair(id) \notin DOMAIN bk.bars THEN Never
                        ELSE IF seen # {} THEN Min(seen)
                        ELSE IF InWindow(id, bk.start) /\ bk.bars[Pair(id)].low # "calm"
                             THEN bk.start
                        ELSE Never
    BY DEF FillBar
<1>5. CASE Pair(id) \notin DOMAIN bk.bars
    BY <1>4, <1>5, Numbers DEF Never
<1>6. CASE Pair(id) \in DOMAIN bk.bars /\ seen # {}
    <2>1. FillBar(bk, id) = Min(seen)
        BY <1>4, <1>6
    <2>2. Min(seen) \in 0..MaxClock /\ InWindow(id, Min(seen)) /\ Min(seen) # Never
          /\ Min(seen) \in prints[Pair(id)]
        BY <1>1, <1>2, <1>3, <1>6
    <2> QED
        BY <1>6, <2>1, <2>2
<1>7. CASE Pair(id) \in DOMAIN bk.bars /\ seen = {}
    BY <1>0, <1>3, <1>4, <1>7, Numbers DEF Never
<1> QED
    BY <1>5, <1>6, <1>7

IsDecided(b, id, fill, why, at, by, c) ==
    /\ c \in Books /\ DOMAIN c.rows = DOMAIN b.rows
    /\ c.resting = b.resting \ {id}
    /\ c.open = b.open /\ c.reentry = b.reentry /\ c.net = b.net
    /\ c.killed = b.killed /\ c.last = b.last
    /\ \A i \in DOMAIN b.rows : i # id => c.rows[i] = b.rows[i]
    /\ id \in DOMAIN b.rows => /\ c.rows[id].fill = fill /\ c.rows[id].why = why
                               /\ c.rows[id].at = at /\ c.rows[id].by = by
                               /\ c.rows[id].exit = b.rows[id].exit
                               /\ c.rows[id].net = b.rows[id].net

LEMMA DecidedIs ==
    ASSUME NEW b \in Books, NEW id, NEW fill \in {"fill", "nofill"}, NEW why \in Whys,
           NEW at \in 0..MaxClock, NEW by \in 0..MaxClock
    PROVE  IsDecided(b, id, fill, why, at, by, Decided(b, id, fill, why, at, by))
<1> DEFINE c == Decided(b, id, fill, why, at, by)
<1> DEFINE row == [b.rows[id] EXCEPT !.fill = fill, !.why = why, !.at = at, !.by = by]
           rows == [b.rows EXCEPT ![id] = row]
           resting == b.resting \ {id}
<1>1. id \in DOMAIN b.rows => row \in Row /\ row.fill = fill /\ row.why = why /\ row.at = at
                              /\ row.by = by /\ row.exit = b.rows[id].exit
                              /\ row.net = b.rows[id].net
    <2> SUFFICES ASSUME id \in DOMAIN b.rows
                 PROVE  row \in Row /\ row.fill = fill /\ row.why = why /\ row.at = at
                        /\ row.by = by /\ row.exit = b.rows[id].exit /\ row.net = b.rows[id].net
        OBVIOUS
    <2>1. b.rows[id] \in Row
        BY BookParts
    <2> QED
        BY <2>1 DEF Row
<1>2. b.rows \in Maps(Ids, Row) /\ b.resting \in SUBSET Ids
    BY BookParts
<1>3. /\ rows \in Maps(Ids, Row) /\ DOMAIN rows = DOMAIN b.rows
      /\ id \in DOMAIN b.rows => rows[id] = row
      /\ \A i \in DOMAIN b.rows : i # id => rows[i] = b.rows[i]
    <2> HIDE DEF row
    <2> QED
        BY <1>1, <1>2, ChangedIsAMap
<1>4. c = [b EXCEPT !.rows = rows, !.resting = resting]
    BY DEF Decided
<1>5. resting \in SUBSET Ids
    BY <1>2
<1> HIDE DEF rows, resting, row, c
<1>6. /\ c \in Books /\ c.rows = rows /\ c.resting = resting
      /\ c.open = b.open /\ c.reentry = b.reentry /\ c.net = b.net
      /\ c.killed = b.killed /\ c.last = b.last
    BY <1>3, <1>4, <1>5 DEF Books
<1> QED
    BY <1>1, <1>3, <1>6 DEF resting, IsDecided, c

(* An order that fills opens its position.                                   *)
IsOpened(d, id, at, c) ==
    /\ c \in Books /\ c.rows = d.rows /\ c.resting = d.resting /\ c.reentry = d.reentry
    /\ c.net = d.net /\ c.killed = d.killed /\ c.last = d.last
    /\ DOMAIN c.open = DOMAIN d.open \cup {id}
    /\ \A i \in DOMAIN d.open : c.open[i] = d.open[i]
    /\ id \notin DOMAIN d.open => c.open[id].entry = at /\ c.open[id].rule = FALSE

LEMMA OpenedIs ==
    ASSUME NEW d \in Books, NEW id \in Ids, NEW at \in 0..MaxClock, NEW c,
           c = [d EXCEPT !.open = Merged(@, Entry(id, [entry |-> at, rule |-> FALSE]))]
    PROVE  IsOpened(d, id, at, c)
<1> DEFINE position == [entry |-> at, rule |-> FALSE]
           open == Merged(d.open, Entry(id, position))
<1>1. position \in Position /\ position.entry = at /\ position.rule = FALSE
    BY DEF Position
<1>0. Entry(id, position) = [i \in {id} |-> position]
    BY DEF Entry
<1>2. d.open \in Maps(Ids, Position)
    BY BookParts
<1>3. c = [d EXCEPT !.open = open]
    OBVIOUS
<1> HIDE DEF position
<1>4. /\ open \in Maps(Ids, Position) /\ DOMAIN open = DOMAIN d.open \cup {id}
      /\ \A i \in DOMAIN d.open : open[i] = d.open[i]
      /\ id \notin DOMAIN d.open => open[id] = position
    <2>1. Entry(id, position) \in Maps(Ids, Position)
        BY <1>1, EntryIsAMap
    <2>2. open \in Maps(Ids, Position)
        BY <1>2, <2>1, MergedIsAMap
    <2> QED
        BY <1>0, <2>2 DEF Merged
<1> HIDE DEF open
<1>5. /\ c \in Books /\ c.open = open /\ c.rows = d.rows /\ c.resting = d.resting
      /\ c.reentry = d.reentry /\ c.net = d.net /\ c.killed = d.killed /\ c.last = d.last
    BY <1>3, <1>4 DEF Books
<1> QED
    BY <1>1, <1>4, <1>5 DEF IsOpened

-----------------------------------------------------------------------------
(* Accounts that agree: AccountsAgree of any book, and what a row without an   *)
(* exit, a fill or a decision looks like.                                   *)

Net(rows) == LET net == [i \in DOMAIN rows |-> rows[i].net] IN Total(net, DOMAIN rows)

IsSettled(r) ==
    /\ r.exit = Never => r.net = 0
    /\ r.fill # "fill" => r.exit = Never
    /\ r.fill \in {"pending", "skip"} => r.by = Never
    /\ r.why \in {"cap", "nofill"} => r.fill = "nofill"

Positions(rows) == {i \in DOMAIN rows : rows[i].fill = "fill" /\ rows[i].exit = Never}

Orders(rows) == {i \in DOMAIN rows : rows[i].fill = "pending"}

AccountsOf(b) ==
    /\ DOMAIN b.open = Positions(b.rows)
    /\ b.resting = Orders(b.rows)
    /\ b.net = Net(b.rows)
    /\ b.net <= -Kill => b.killed
    /\ \A i \in DOMAIN b.rows : IsSettled(b.rows[i])

LEMMA RowsAre ==
    ASSUME NEW b \in Books
    PROVE  /\ IsFiniteSet(DOMAIN b.rows)
           /\ \A i \in DOMAIN b.rows : b.rows[i].net \in Int
<1>1. DOMAIN b.rows \subseteq Ids /\ \A i \in DOMAIN b.rows : b.rows[i] \in Row
    BY BookParts
<1>2. IsFiniteSet(DOMAIN b.rows)
    BY <1>1, IdsAre, FS_Subset
<1>3. \A i \in DOMAIN b.rows : b.rows[i].net \in Int
    BY <1>1 DEF Row
<1> QED
    BY <1>2, <1>3

LEMMA NetSame ==
    ASSUME NEW b \in Books, NEW rows, DOMAIN rows = DOMAIN b.rows,
           \A i \in DOMAIN rows : rows[i].net = b.rows[i].net
    PROVE  Net(rows) = Net(b.rows)
<1> DEFINE S == DOMAIN b.rows
           f == [i \in S |-> b.rows[i].net]
           g == [i \in S |-> rows[i].net]
<1>1. IsFiniteSet(S) /\ \A i \in S : f[i] \in Int /\ g[i] = f[i]
    BY RowsAre
<1>2. Net(rows) = Total(g, S) /\ Net(b.rows) = Total(f, S)
    BY DEF Net
<1> HIDE DEF f, g, S
<1> QED
    BY <1>1, <1>2, TotalSame

LEMMA NetChanges ==
    ASSUME NEW b \in Books, NEW rows, DOMAIN rows = DOMAIN b.rows, NEW id \in DOMAIN rows,
           rows[id].net \in Int, \A i \in DOMAIN rows : i # id => rows[i].net = b.rows[i].net
    PROVE  Net(rows) = Net(b.rows) - b.rows[id].net + rows[id].net
<1> DEFINE S == DOMAIN b.rows
           f == [i \in S |-> b.rows[i].net]
           g == [i \in S |-> rows[i].net]
<1>1. /\ IsFiniteSet(S) /\ id \in S /\ g[id] \in Int
      /\ \A i \in S : f[i] \in Int
      /\ \A i \in S \ {id} : g[i] = f[i]
    BY RowsAre
<1>2. /\ Net(rows) = Total(g, S) /\ Net(b.rows) = Total(f, S)
      /\ f[id] = b.rows[id].net /\ g[id] = rows[id].net
    BY DEF Net
<1> HIDE DEF f, g, S
<1>3. Total(g, S) = Total(f, S) - f[id] + g[id]
    BY <1>1, TotalChanges
<1> QED
    BY <1>2, <1>3

-----------------------------------------------------------------------------
(* Fills.                                                                   *)

(* A row is what it was, or a pending one that the bucket of bar k decides.   *)
ResolvedRow(k, r, q) ==
    \/ q = r
    \/ /\ r.fill = "pending" /\ q.fill \in {"fill", "nofill"} /\ q.by = k
       /\ q.exit = r.exit /\ q.net = r.net

(* What resolving orders makes of the book b.                                *)
Resolving(bk, b, c) ==
    /\ c \in Books /\ AccountsOf(c)
    /\ DOMAIN c.rows = DOMAIN b.rows
    /\ \A i \in DOMAIN b.rows : ResolvedRow(bk.start, b.rows[i], c.rows[i])
    /\ c.resting \subseteq b.resting
    /\ c.reentry = b.reentry
    /\ \A i \in DOMAIN b.open : i \in DOMAIN c.open /\ c.open[i] = b.open[i]
    /\ \A i \in DOMAIN c.open : i \notin DOMAIN b.open =>
          i \in b.resting /\ FillBar(bk, i) # Never /\ c.open[i].entry = FillBar(bk, i)

LEMMA ResolvingNothing ==
    ASSUME NEW bk, NEW b \in Books, AccountsOf(b)
    PROVE  Resolving(bk, b, b)
BY DEF Resolving, ResolvedRow

LEMMA ResolvingTwice ==
    ASSUME NEW bk, NEW a \in Books, NEW b, NEW c, Resolving(bk, a, b), Resolving(bk, b, c)
    PROVE  Resolving(bk, a, c)
<1>1. \A i \in DOMAIN a.rows : ResolvedRow(bk.start, a.rows[i], c.rows[i])
    BY DEF Resolving, ResolvedRow
<1>2. /\ c \in Books /\ AccountsOf(c) /\ DOMAIN c.rows = DOMAIN a.rows
      /\ c.resting \subseteq a.resting /\ c.reentry = a.reentry
    BY DEF Resolving
<1>3. \A i \in DOMAIN a.open : i \in DOMAIN c.open /\ c.open[i] = a.open[i]
    BY DEF Resolving
<1>4. \A i \in DOMAIN c.open : i \notin DOMAIN a.open =>
          i \in a.resting /\ FillBar(bk, i) # Never /\ c.open[i].entry = FillBar(bk, i)
    BY DEF Resolving
<1> QED
    BY <1>1, <1>2, <1>3, <1>4 DEF Resolving

LEMMA DecidedKeeps ==
    ASSUME NEW bk \in Buckets, NEW b \in Books, AccountsOf(b), NEW id \in DOMAIN b.rows,
           b.rows[id].fill = "pending", NEW why, NEW at, NEW c,
           IsDecided(b, id, "nofill", why, at, bk.start, c)
    PROVE  Resolving(bk, b, c) /\ id \notin c.resting
<1>1. /\ c \in Books /\ DOMAIN c.rows = DOMAIN b.rows /\ c.resting = b.resting \ {id}
      /\ c.open = b.open /\ c.reentry = b.reentry /\ c.net = b.net /\ c.killed = b.killed
      /\ \A i \in DOMAIN b.rows : i # id => c.rows[i] = b.rows[i]
      /\ c.rows[id].fill = "nofill" /\ c.rows[id].by = bk.start
      /\ c.rows[id].exit = b.rows[id].exit /\ c.rows[id].net = b.rows[id].net
    BY DEF IsDecided
<1>2. DOMAIN c.open = Positions(c.rows)
    BY <1>1 DEF AccountsOf, Positions
<1>3. c.resting = Orders(c.rows)
    BY <1>1 DEF AccountsOf, Orders
<1>4. c.net = Net(c.rows)
    <2>1. \A i \in DOMAIN c.rows : c.rows[i].net = b.rows[i].net
        BY <1>1
    <2>2. Net(c.rows) = Net(b.rows)
        BY <1>1, <2>1, NetSame
    <2> QED
        BY <1>1, <2>2 DEF AccountsOf
<1>5. c.net <= -Kill => c.killed
    BY <1>1 DEF AccountsOf
<1>6. \A i \in DOMAIN c.rows : IsSettled(c.rows[i])
    BY <1>1 DEF AccountsOf, IsSettled
<1>7. AccountsOf(c)
    BY <1>2, <1>3, <1>4, <1>5, <1>6 DEF AccountsOf
<1>8. \A i \in DOMAIN b.rows : ResolvedRow(bk.start, b.rows[i], c.rows[i])
    BY <1>1 DEF ResolvedRow
<1> QED
    BY <1>1, <1>7, <1>8 DEF Resolving

LEMMA FilledKeeps ==
    ASSUME NEW bk \in Buckets, NEW b \in Books, AccountsOf(b), NEW id \in DOMAIN b.rows,
           b.rows[id].fill = "pending", FillBar(bk, id) # Never, NEW d,
           IsDecided(b, id, "fill", "none", FillBar(bk, id), bk.start, d), NEW c,
           IsOpened(d, id, FillBar(bk, id), c)
    PROVE  Resolving(bk, b, c) /\ id \notin c.resting
<1>1. /\ DOMAIN d.rows = DOMAIN b.rows /\ d.resting = b.resting \ {id}
      /\ d.open = b.open /\ d.reentry = b.reentry /\ d.net = b.net /\ d.killed = b.killed
      /\ \A i \in DOMAIN b.rows : i # id => d.rows[i] = b.rows[i]
      /\ d.rows[id].fill = "fill" /\ d.rows[id].why = "none" /\ d.rows[id].by = bk.start
      /\ d.rows[id].exit = b.rows[id].exit /\ d.rows[id].net = b.rows[id].net
    BY DEF IsDecided
<1>2. /\ c \in Books /\ c.rows = d.rows /\ c.resting = d.resting /\ c.reentry = d.reentry
      /\ c.net = d.net /\ c.killed = d.killed
      /\ DOMAIN c.open = DOMAIN d.open \cup {id}
      /\ \A i \in DOMAIN d.open : c.open[i] = d.open[i]
      /\ id \notin DOMAIN d.open => c.open[id].entry = FillBar(bk, id)
    BY DEF IsOpened
<1>3. b.rows[id].exit = Never /\ id \notin DOMAIN b.open /\ id \in b.resting
    BY DEF AccountsOf, IsSettled, Positions, Orders
<1>4. DOMAIN c.open = Positions(c.rows)
    BY <1>1, <1>2, <1>3 DEF AccountsOf, Positions
<1>5. c.resting = Orders(c.rows)
    BY <1>1, <1>2 DEF AccountsOf, Orders
<1>6. c.net = Net(c.rows)
    <2>1. \A i \in DOMAIN c.rows : c.rows[i].net = b.rows[i].net
        BY <1>1, <1>2
    <2>2. Net(c.rows) = Net(b.rows)
        BY <1>1, <1>2, <2>1, NetSame
    <2> QED
        BY <1>1, <1>2, <2>2 DEF AccountsOf
<1>7. c.net <= -Kill => c.killed
    BY <1>1, <1>2 DEF AccountsOf
<1>8. \A i \in DOMAIN c.rows : IsSettled(c.rows[i])
    BY <1>1, <1>2 DEF AccountsOf, IsSettled
<1>9. AccountsOf(c)
    BY <1>2, <1>4, <1>5, <1>6, <1>7, <1>8 DEF AccountsOf
<1>10. \A i \in DOMAIN b.rows : ResolvedRow(bk.start, b.rows[i], c.rows[i])
    BY <1>1, <1>2 DEF ResolvedRow
<1>11. \A i \in DOMAIN b.open : i \in DOMAIN c.open /\ c.open[i] = b.open[i]
    BY <1>1, <1>2
<1>12. \A i \in DOMAIN c.open : i \notin DOMAIN b.open =>
          i \in b.resting /\ FillBar(bk, i) # Never /\ c.open[i].entry = FillBar(bk, i)
    BY <1>1, <1>2, <1>3
<1> QED
    BY <1>1, <1>2, <1>9, <1>10, <1>11, <1>12 DEF Resolving

(* ResolveOne leaves a book a book, and decides an order that its bar or its   *)
(* prints reach.                                                            *)
LEMMA ResolveOneIsABook ==
    ASSUME TimesOK, NEW bk \in Buckets, NEW b \in Books, NEW id \in Ids
    PROVE  ResolveOne(bk, b, id) \in Books
<1> DEFINE at == FillBar(bk, id)
           c == ResolveOne(bk, b, id)
<1>1. at \in 0..MaxClock /\ bk.start \in 0..MaxClock /\ Never \in 0..MaxClock
    BY FillBarIs, Numbers DEF Buckets, Never
<1>2. [b EXCEPT !.resting = @ \ {id}] \in Books
    BY DEF Books
<1>3. /\ "none" \in Whys /\ "cap" \in Whys /\ "nofill" \in Whys
      /\ "fill" \in {"fill", "nofill"} /\ "nofill" \in {"fill", "nofill"}
    BY DEF Whys
<1> HIDE DEF at
<1>4. Decided(b, id, "nofill", "cap", at, bk.start) \in Books
    BY <1>1, <1>3, DecidedIs DEF IsDecided
<1>5. Decided(b, id, "nofill", "nofill", Never, bk.start) \in Books
    BY <1>1, <1>3, DecidedIs DEF IsDecided
<1> DEFINE d == Decided(b, id, "fill", "none", at, bk.start)
           e == [d EXCEPT !.open = Merged(@, Entry(id, [entry |-> at, rule |-> FALSE]))]
<1>6. d \in Books
    BY <1>1, <1>3, DecidedIs DEF IsDecided
<1>7. e \in Books
    <2>1. IsOpened(d, id, at, e)
        <3> HIDE DEF d
        <3> QED
            BY <1>1, <1>6, OpenedIs
    <2> QED
        BY <2>1 DEF IsOpened
<1>8. \/ c = [b EXCEPT !.resting = @ \ {id}]
      \/ c = Decided(b, id, "nofill", "cap", at, bk.start)
      \/ c = e
      \/ c = Decided(b, id, "nofill", "nofill", Never, bk.start)
      \/ c = b
    BY DEF ResolveOne, at
<1> HIDE DEF c, e
<1> QED
    BY <1>2, <1>4, <1>5, <1>7, <1>8 DEF c

LEMMA ResolveOneKeeps ==
    ASSUME TimesOK, NEW bk \in Buckets, NEW b \in Books, AccountsOf(b),
           NEW id \in DOMAIN b.rows, NEW c, c = ResolveOne(bk, b, id)
    PROVE  Resolving(bk, b, c) /\ (id \in c.resting => FillBar(bk, id) = Never)
<1> DEFINE at == FillBar(bk, id)
<1>0. id \in Ids
    BY BookParts
<1>1. at \in 0..MaxClock /\ bk.start \in 0..MaxClock /\ Never \in 0..MaxClock
    BY <1>0, FillBarIs, Numbers DEF Buckets, Never
<1>2. /\ "none" \in Whys /\ "cap" \in Whys /\ "nofill" \in Whys
      /\ "fill" \in {"fill", "nofill"} /\ "nofill" \in {"fill", "nofill"}
    BY DEF Whys
<1>3. CASE b.rows[id].fill # "pending"
    <2>1. id \notin b.resting
        BY <1>3 DEF AccountsOf, Orders
    <2>2. c = [b EXCEPT !.resting = b.resting \ {id}]
        BY <1>3 DEF ResolveOne
    <2>3. b.resting \ {id} = b.resting
        BY <2>1
    <2>4. c = b
        BY <2>2, <2>3 DEF Books
    <2>5. Resolving(bk, b, b)
        BY ResolvingNothing
    <2> QED
        BY <2>1, <2>4, <2>5
<1>4. CASE b.rows[id].fill = "pending" /\ at # Never /\ Capped(b, at)
    <2> HIDE DEF at
    <2>1. c = Decided(b, id, "nofill", "cap", at, bk.start)
        BY <1>4 DEF ResolveOne, at
    <2>2. IsDecided(b, id, "nofill", "cap", at, bk.start, c)
        BY <1>1, <1>2, <2>1, DecidedIs
    <2> QED
        BY <1>4, <2>2, DecidedKeeps
<1>5. CASE b.rows[id].fill = "pending" /\ at # Never /\ ~Capped(b, at)
    <2> DEFINE d == Decided(b, id, "fill", "none", at, bk.start)
    <2>1. c = [d EXCEPT !.open = Merged(@, Entry(id, [entry |-> at, rule |-> FALSE]))]
        BY <1>5 DEF ResolveOne
    <2>2. IsDecided(b, id, "fill", "none", at, bk.start, d)
        <3> HIDE DEF at
        <3> QED
            BY <1>1, <1>2, DecidedIs
    <2>3. IsOpened(d, id, at, c)
        <3>1. d \in Books
            BY <2>2 DEF IsDecided
        <3> HIDE DEF at, d
        <3> QED
            BY <1>0, <1>1, <2>1, <3>1, OpenedIs
    <2>4. FillBar(bk, id) # Never
        BY <1>5
    <2> HIDE DEF d
    <2> QED
        BY <1>5, <2>2, <2>3, <2>4, FilledKeeps
<1>6. CASE b.rows[id].fill = "pending" /\ at = Never
    <2>1. CASE clock >= Signal(id) + Window
        <3>1. c = Decided(b, id, "nofill", "nofill", Never, bk.start)
            BY <1>6, <2>1 DEF ResolveOne
        <3>2. IsDecided(b, id, "nofill", "nofill", Never, bk.start, c)
            BY <1>1, <1>2, <3>1, DecidedIs
        <3> QED
            BY <1>6, <3>2, DecidedKeeps
    <2>2. CASE ~(clock >= Signal(id) + Window)
        <3>1. c = b
            BY <1>6, <2>2 DEF ResolveOne
        <3>2. Resolving(bk, b, b)
            BY ResolvingNothing
        <3> QED
            BY <1>6, <3>1, <3>2
    <2> QED
        BY <2>1, <2>2
<1> QED
    BY <1>3, <1>4, <1>5, <1>6

-----------------------------------------------------------------------------
(* The lists the folds go along.                                             *)

Before == {x \in Ids \X Ids : Outranks(x[1], x[2])}

Smaller == {x \in Pairs \X Pairs : x[1] < x[2]}

LEMMA RanksAreTotal ==
    ASSUME NEW ids \in SUBSET Ids
    PROVE  IsTotal(Before, ids) /\ \A i \in Ids : ~Outranks(i, i)
<1>1. \A i \in Ids : /\ Pair(i) \in Nat /\ Signal(i) \in Nat /\ Volume[Pair(i)] \in Nat
                    /\ i = <<Pair(i), Signal(i)>>
    BY IdsAre, PairsAssumption
<1>2. ASSUME NEW i \in Ids, NEW j \in Ids, i # j PROVE Outranks(i, j) \/ Outranks(j, i)
    <2>1. Pair(i) # Pair(j) \/ Signal(i) # Signal(j)
        BY <1>1, <1>2
    <2> QED
        BY <1>1, <2>1 DEF Outranks
<1>3. ASSUME NEW i \in Ids, NEW j \in Ids, NEW k \in Ids, Outranks(i, j), Outranks(j, k)
      PROVE  Outranks(i, k)
    BY <1>1, <1>3 DEF Outranks
<1>4. \A i \in Ids : ~Outranks(i, i)
    BY <1>1 DEF Outranks
<1> QED
    BY <1>2, <1>3, <1>4 DEF IsTotal, Before

LEMMA NamesAreTotal ==
    ASSUME NEW names \in SUBSET Pairs
    PROVE  IsTotal(Smaller, names)
<1>1. \A p \in Pairs : p \in Nat
    BY PairsAssumption
<1> QED
    BY <1>1 DEF IsTotal, Smaller

(* A list of all members of a set, each of them once.                        *)
Lists(order, S, n) ==
    /\ n \in Nat /\ order \in [1..n -> S]
    /\ \A x \in S : \E i \in 1..n : order[i] = x
    /\ \A i, j \in 1..n : i # j => order[i] # order[j]

InRank(order, n) == \A i, j \in 1..n : i < j => Outranks(order[i], order[j])

LEMMA RankedLists ==
    ASSUME NEW ids \in SUBSET Ids
    PROVE  Lists(Ranked(ids), ids, Cardinality(ids)) /\ InRank(Ranked(ids), Cardinality(ids))
<1> DEFINE n == Cardinality(ids)
           order == Ranked(ids)
           Goes(o) == /\ \A i, j \in 1..n : i < j => Outranks(o[i], o[j])
                      /\ \A id \in ids : \E i \in 1..n : o[i] = id
<1>1. IsFiniteSet(ids)
    BY IdsAre, FS_Subset
<1>2. n \in Nat /\ \E o : ListsAll(o, ids, n, Before)
    BY <1>1, RanksAreTotal, ListExists
<1>3. \E o \in [1..n -> ids] : Goes(o)
    <2> HIDE DEF n
    <2>1. PICK o : ListsAll(o, ids, n, Before)
        BY <1>2
    <2>2. o \in [1..n -> ids] /\ \A i, j \in 1..n : i < j => Outranks(o[i], o[j])
        BY <2>1 DEF ListsAll, Before
    <2> QED
        BY <2>1, <2>2 DEF ListsAll
<1>4. order = CHOOSE o \in [1..n -> ids] : Goes(o)
    BY DEF Ranked
<1>5. order \in [1..n -> ids] /\ Goes(order)
    <2> HIDE DEF n, order, Goes
    <2> QED
        BY <1>3, <1>4
<1>6. ASSUME NEW i \in 1..n, NEW j \in 1..n, i # j PROVE order[i] # order[j]
    <2>1. \A k \in Ids : ~Outranks(k, k)
        BY RanksAreTotal
    <2>2. order[i] \in Ids /\ order[j] \in Ids
        BY <1>5
    <2>3. Outranks(order[i], order[j]) \/ Outranks(order[j], order[i])
        <3>1. i < j \/ j < i
            BY <1>6
        <3> HIDE DEF order, n
        <3> QED
            BY <1>5, <3>1
    <2> QED
        BY <2>1, <2>2, <2>3
<1>7. Lists(order, ids, n)
    BY <1>2, <1>5, <1>6 DEF Lists
<1>8. InRank(order, n)
    BY <1>5 DEF InRank
<1> QED
    BY <1>7, <1>8

LEMMA NamesList ==
    ASSUME NEW names \in SUBSET Pairs
    PROVE  Lists(Ordered(names), names, Cardinality(names))
<1> DEFINE n == Cardinality(names)
           order == Ordered(names)
           Goes(o) == /\ \A i, j \in 1..n : i < j => o[i] < o[j]
                      /\ \A p \in names : \E i \in 1..n : o[i] = p
<1>1. IsFiniteSet(names)
    BY PairsAssumption, FS_Subset
<1>2. n \in Nat /\ \E o : ListsAll(o, names, n, Smaller)
    BY <1>1, NamesAreTotal, ListExists
<1>3. \E o \in [1..n -> names] : Goes(o)
    <2> HIDE DEF n
    <2>1. PICK o : ListsAll(o, names, n, Smaller)
        BY <1>2
    <2>2. o \in [1..n -> names] /\ \A i, j \in 1..n : i < j => o[i] < o[j]
        BY <2>1 DEF ListsAll, Smaller
    <2> QED
        BY <2>1, <2>2 DEF ListsAll
<1>4. order = CHOOSE o \in [1..n -> names] : Goes(o)
    BY DEF Ordered
<1>5. order \in [1..n -> names] /\ Goes(order)
    <2> HIDE DEF n, order, Goes
    <2> QED
        BY <1>3, <1>4
<1>6. ASSUME NEW i \in 1..n, NEW j \in 1..n, i # j PROVE order[i] # order[j]
    <2>1. order[i] \in Nat /\ order[j] \in Nat
        BY <1>5, PairsAssumption
    <2>2. order[i] < order[j] \/ order[j] < order[i]
        <3>1. i < j \/ j < i
            BY <1>6
        <3> HIDE DEF order, n
        <3> QED
            BY <1>5, <3>1
    <2> QED
        BY <2>1, <2>2
<1> QED
    BY <1>2, <1>5, <1>6 DEF Lists

-----------------------------------------------------------------------------
(* Resolving all orders.                                                     *)

ResolvedIs(bk, b, c) ==
    /\ Resolving(bk, b, c)
    /\ \A i \in c.resting : FillBar(bk, i) = Never

(* What every order dealt with in rank keeps holds when all are.              *)
ResolvesTo(G, bk, b) ==
    \A m \in 1..Cardinality(b.resting), v \in Books :
        <<m - 1, v>> \in G => <<m, ResolveOne(bk, v, Ranked(b.resting)[m])>> \in G

LEMMA ResolvedIsReached ==
    ASSUME TimesOK, NEW bk \in Buckets, NEW b \in Books
    PROVE  /\ Resolved(bk, b) \in Books
           /\ \A G : <<0, b>> \in G /\ ResolvesTo(G, bk, b)
                       => <<Cardinality(b.resting), Resolved(bk, b)>> \in G
<1> DEFINE n == Cardinality(b.resting)
           order == Ranked(b.resting)
           step == [x \in Books \X Ids |-> ResolveOne(bk, x[1], x[2])]
           Body(f) == f = [s \in SUBSET (1..n) |->
                             IF s = {} THEN b
                             ELSE ResolveOne(bk, f[s \ {Max(s)}], order[Max(s)])]
           iter == CHOOSE f : Body(f)
<1>1. b.resting \in SUBSET Ids
    BY BookParts
<1>2. Lists(order, b.resting, n)
    BY <1>1, RankedLists
<1>3. n \in Nat /\ order \in [1..n -> Ids] /\ DOMAIN order = 1..n
    BY <1>1, <1>2 DEF Lists
<1>4. step \in [Books \X Ids -> Books]
    BY ResolveOneIsABook
<1>5. \A v \in Books, id \in Ids : step[<<v, id>>] = ResolveOne(bk, v, id)
    OBVIOUS
<1> HIDE DEF n, order, step
<1>6. PICK g \in [SUBSET (1..n) -> Books] : IsListFold(g, n, order, b, step)
    BY <1>3, <1>4, FoldOfAListExists
<1>7. \A s \in SUBSET (1..n) : s # {} => Max(s) \in 1..n /\ order[Max(s)] \in Ids
    BY <1>3, MaxOfPlaces
<1>8. Body(g)
    <2>1. ASSUME NEW s \in SUBSET (1..n), s # {}
          PROVE  g[s] = ResolveOne(bk, g[s \ {Max(s)}], order[Max(s)])
        <3>1. g[s] = step[<<g[s \ {Max(s)}], order[Max(s)]>>] /\ g[s \ {Max(s)}] \in Books
            BY <1>6, <2>1 DEF IsListFold
        <3> QED
            BY <1>5, <1>7, <2>1, <3>1
    <2> QED
        BY <1>6, <2>1 DEF IsListFold
<1>9. Body(iter)
    <2> HIDE DEF Body
    <2> QED
        BY <1>8
<1>10. Steps(iter, n, order, Books, b, step)
    <2>1. iter[{}] = b
        BY <1>9
    <2>2. ASSUME NEW s \in SUBSET (1..n), s # {}, iter[s \ {Max(s)}] \in Books
          PROVE  iter[s] = step[<<iter[s \ {Max(s)}], order[Max(s)]>>]
        <3>1. iter[s] = ResolveOne(bk, iter[s \ {Max(s)}], order[Max(s)])
            <4> HIDE DEF iter
            <4> QED
                BY <1>9, <2>2
        <3> HIDE DEF iter
        <3> QED
            BY <1>5, <1>7, <2>2, <3>1
    <2> HIDE DEF iter
    <2> QED
        BY <2>1, <2>2 DEF Steps
<1>11. Resolved(bk, b) = iter[1..n]
    <2>1. Resolved(bk, b) = FoldLeft(LAMBDA c, id : ResolveOne(bk, c, id), b, order)
        BY DEF Resolved, order
    <2> QED
        BY <1>3, <2>1 DEF FoldLeft, MapThenFoldSet
<1> HIDE DEF iter, Body
<1>12. Resolved(bk, b) \in Books
    <2>1. Runs(iter, n, order, Books, b, step)
        BY <1>3, <1>4, <1>10, FoldOfAListRuns
    <2> QED
        BY <1>3, <1>11, <2>1 DEF Runs
<1>13. ASSUME NEW G, <<0, b>> \in G, ResolvesTo(G, bk, b) PROVE <<n, Resolved(bk, b)>> \in G
    <2>1. ASSUME NEW m \in 1..n, NEW v \in Books, <<m - 1, v>> \in G
          PROVE  <<m, step[<<v, order[m]>>]>> \in G
        <3>1. <<m, ResolveOne(bk, v, order[m])>> \in G
            BY <1>13, <2>1 DEF ResolvesTo, n, order
        <3>2. step[<<v, order[m]>>] = ResolveOne(bk, v, order[m])
            BY <1>3, <1>5
        <3> QED
            BY <3>1, <3>2
    <2>2. KeptBySteps(G, n, order, Books, step)
        BY <2>1 DEF KeptBySteps
    <2> QED
        BY <1>3, <1>4, <1>10, <1>11, <1>13, <2>2, FoldOfAListKeeps
<1> QED
    BY <1>12, <1>13 DEF n

LEMMA ResolvedKeeps ==
    ASSUME TimesOK, NEW bk \in Buckets, NEW b \in Books
    PROVE  /\ Resolved(bk, b) \in Books
           /\ AccountsOf(b) => ResolvedIs(bk, b, Resolved(bk, b))
<1> DEFINE n == Cardinality(b.resting)
           order == Ranked(b.resting)
<1>1. b.resting \in SUBSET Ids
    BY BookParts
<1>2. Lists(order, b.resting, n)
    BY <1>1, RankedLists
<1>3. n \in Nat /\ order \in [1..n -> Ids]
    BY <1>1, <1>2 DEF Lists
<1>4. Resolved(bk, b) \in Books
    BY ResolvedIsReached
<1> HIDE DEF n, order
<1>5. ASSUME AccountsOf(b) PROVE ResolvedIs(bk, b, Resolved(bk, b))
    <2> DEFINE Good(m, c) == /\ Resolving(bk, b, c)
                             /\ \A j \in 1..m : order[j] \in c.resting => FillBar(bk, order[j]) = Never
               G == {x \in Nat \X Books : Good(x[1], x[2])}
    <2>1. <<0, b>> \in G
        BY <1>5, ResolvingNothing
    <2>2. ASSUME NEW m \in 1..n, NEW v \in Books, <<m - 1, v>> \in G
          PROVE  <<m, ResolveOne(bk, v, order[m])>> \in G
        <3> DEFINE id == order[m]
                   c == ResolveOne(bk, v, id)
        <3>1. m - 1 \in Nat /\ Good(m - 1, v)
            BY <2>2
        <3>2. id \in b.resting /\ id \in Ids
            BY <1>1, <1>2 DEF Lists
        <3>3. id \in DOMAIN v.rows /\ AccountsOf(v)
            BY <1>5, <3>1, <3>2 DEF AccountsOf, Orders, Resolving
        <3>4. Resolving(bk, v, c) /\ (id \in c.resting => FillBar(bk, id) = Never)
            BY <3>3, ResolveOneKeeps
        <3>5. Resolving(bk, b, c)
            BY <3>1, <3>4, ResolvingTwice
        <3>6. c.resting \subseteq v.resting /\ c \in Books
            BY <3>4 DEF Resolving
        <3>7. \A j \in 1..m : j = m \/ j \in 1..(m - 1)
            BY <1>3
        <3> HIDE DEF c
        <3>8. \A j \in 1..m : order[j] \in c.resting => FillBar(bk, order[j]) = Never
            BY <3>1, <3>4, <3>6, <3>7
        <3>9. <<m, c>> \in G
            BY <1>3, <3>5, <3>6, <3>8
        <3> QED
            BY <3>9 DEF c
    <2> HIDE DEF G
    <2>3. <<n, Resolved(bk, b)>> \in G
        <3>1. ResolvesTo(G, bk, b)
            BY <2>2 DEF ResolvesTo, n, order
        <3> QED
            BY <2>1, <3>1, ResolvedIsReached DEF n
    <2>4. Good(n, Resolved(bk, b))
        BY <2>3 DEF G
    <2>5. Resolved(bk, b).resting \subseteq b.resting
        BY <2>4 DEF Resolving
    <2>6. \A i \in Resolved(bk, b).resting : FillBar(bk, i) = Never
        BY <1>2, <2>4, <2>5 DEF Lists
    <2> QED
        BY <2>4, <2>6 DEF ResolvedIs
<1> QED
    BY <1>4, <1>5

-----------------------------------------------------------------------------
(* Exits.                                                                   *)

IsClosed(b, id, end, gain, c) ==
    /\ c \in Books /\ DOMAIN c.rows = DOMAIN b.rows
    /\ c.resting = b.resting /\ c.last = b.last
    /\ c.net = b.net + gain /\ (c.killed <=> b.killed \/ b.net + gain <= -Kill)
    /\ DOMAIN c.open = DOMAIN b.open \ {id}
    /\ \A i \in DOMAIN c.open : c.open[i] = b.open[i]
    /\ \A i \in DOMAIN b.rows : i # id => c.rows[i] = b.rows[i]
    /\ id \in DOMAIN b.rows => /\ c.rows[id].fill = b.rows[id].fill /\ c.rows[id].by = b.rows[id].by
                               /\ c.rows[id].why = b.rows[id].why /\ c.rows[id].at = b.rows[id].at
                               /\ c.rows[id].exit = end /\ c.rows[id].net = gain
    /\ \A q \in Pairs : q # Pair(id) \/ gain > 0 => c.reentry[q] = b.reentry[q]
    /\ gain < 0 => c.reentry[Pair(id)] = end + DayBars

LEMMA ClosedIs ==
    ASSUME NEW b \in Books, NEW id \in Ids, NEW end \in 0..MaxClock, NEW gain \in {-1, 1}
    PROVE  IsClosed(b, id, end, gain, Closed(b, id, end, gain))
<1> DEFINE c == Closed(b, id, end, gain)
           p == Pair(id)
           row == [b.rows[id] EXCEPT !.exit = end, !.net = gain]
           rows == [b.rows EXCEPT ![id] = row]
           open == Restrict(b.open, DOMAIN b.open \ {id})
           pause == IF gain < 0 THEN end + DayBars ELSE b.reentry[p]
           reentry == [b.reentry EXCEPT ![p] = pause]
           net == b.net + gain
           killed == b.killed \/ b.net + gain <= -Kill
<1>1. c = [b EXCEPT !.net = net, !.killed = killed, !.reentry = reentry, !.open = open,
                    !.rows = rows]
    BY DEF Closed
<1>2. id \in DOMAIN b.rows => row \in Row /\ row.fill = b.rows[id].fill /\ row.by = b.rows[id].by
                               /\ row.why = b.rows[id].why /\ row.at = b.rows[id].at
                              /\ row.exit = end /\ row.net = gain
    <2> SUFFICES ASSUME id \in DOMAIN b.rows
                 PROVE  row \in Row /\ row.fill = b.rows[id].fill /\ row.by = b.rows[id].by
                       /\ row.why = b.rows[id].why /\ row.at = b.rows[id].at
                        /\ row.exit = end /\ row.net = gain
        OBVIOUS
    <2>1. b.rows[id] \in Row
        BY BookParts
    <2> QED
        BY <2>1 DEF Row
<1>3. b.rows \in Maps(Ids, Row) /\ b.open \in Maps(Ids, Position) /\ b.net \in Int
      /\ b.reentry \in [Pairs -> Nat] /\ p \in Pairs
    BY BookParts, IdsAre
<1>4. /\ rows \in Maps(Ids, Row) /\ DOMAIN rows = DOMAIN b.rows
      /\ id \in DOMAIN b.rows => rows[id] = row
      /\ \A i \in DOMAIN b.rows : i # id => rows[i] = b.rows[i]
    <2> HIDE DEF row
    <2> QED
        BY <1>2, <1>3, ChangedIsAMap
<1>5. /\ open \in Maps(Ids, Position) /\ DOMAIN open = DOMAIN b.open \ {id}
      /\ \A i \in DOMAIN open : open[i] = b.open[i]
    <2> DEFINE T == DOMAIN b.open \ {id}
    <2>1. T \in SUBSET DOMAIN b.open
        OBVIOUS
    <2> HIDE DEF T
    <2>2. /\ Restrict(b.open, T) \in Maps(Ids, Position) /\ DOMAIN Restrict(b.open, T) = T
          /\ \A i \in T : Restrict(b.open, T)[i] = b.open[i]
        BY <1>3, <2>1, RestrictIsAMap
    <2> QED
        BY <2>2 DEF T
<1>6. pause \in Nat /\ (gain > 0 => pause = b.reentry[p]) /\ (gain < 0 => pause = end + DayBars)
    BY <1>3, Numbers
<1>7. /\ reentry \in [Pairs -> Nat] /\ reentry[p] = pause
      /\ \A q \in Pairs : q # p => reentry[q] = b.reentry[q]
    <2> HIDE DEF pause, p
    <2> QED
        BY <1>3, <1>6
<1>8. net \in Int /\ killed \in BOOLEAN
    BY <1>3, BookParts
<1> HIDE DEF rows, row, open, pause, reentry, net, killed, c
<1>9. /\ c \in Books /\ c.rows = rows /\ c.open = open /\ c.resting = b.resting
      /\ c.last = b.last /\ c.net = net /\ c.killed = killed /\ c.reentry = reentry
    BY <1>1, <1>4, <1>5, <1>7, <1>8 DEF Books
<1>10. \A q \in Pairs : q # p \/ gain > 0 => reentry[q] = b.reentry[q]
    BY <1>6, <1>7
<1>11. gain < 0 => reentry[p] = end + DayBars
    BY <1>6, <1>7
<1>12. IsClosed(b, id, end, gain, c)
    BY <1>2, <1>4, <1>5, <1>9, <1>10, <1>11 DEF IsClosed, net, killed
<1> QED
    BY <1>12 DEF c

(* An exit waits for the next open, or is called off.                        *)
IsMarked(b, id, c) ==
    /\ c \in Books /\ c.rows = b.rows /\ c.resting = b.resting /\ c.last = b.last
    /\ c.net = b.net /\ c.killed = b.killed /\ c.reentry = b.reentry
    /\ DOMAIN c.open = DOMAIN b.open
    /\ \A i \in DOMAIN b.open : i # id => c.open[i] = b.open[i]
    /\ id \in DOMAIN b.open => c.open[id].entry = b.open[id].entry

LEMMA MarkedIs ==
    ASSUME NEW b \in Books, NEW id, NEW rule \in BOOLEAN
    PROVE  IsMarked(b, id, [b EXCEPT !.open[id].rule = rule])
<1> DEFINE c == [b EXCEPT !.open[id].rule = rule]
           position == [b.open[id] EXCEPT !.rule = rule]
           open == [b.open EXCEPT ![id] = position]
<1>1. c = [b EXCEPT !.open = open]
    OBVIOUS
<1>2. id \in DOMAIN b.open => position \in Position /\ position.entry = b.open[id].entry
    <2> SUFFICES ASSUME id \in DOMAIN b.open
                 PROVE  position \in Position /\ position.entry = b.open[id].entry
        OBVIOUS
    <2>1. b.open[id] \in Position
        BY BookParts
    <2> QED
        BY <2>1 DEF Position
<1>3. b.open \in Maps(Ids, Position)
    BY BookParts
<1>4. /\ open \in Maps(Ids, Position) /\ DOMAIN open = DOMAIN b.open
      /\ id \in DOMAIN b.open => open[id] = position
      /\ \A i \in DOMAIN b.open : i # id => open[i] = b.open[i]
    <2> HIDE DEF position
    <2> QED
        BY <1>2, <1>3, ChangedIsAMap
<1> HIDE DEF open, position, c
<1>5. /\ c \in Books /\ c.open = open /\ c.rows = b.rows /\ c.resting = b.resting
      /\ c.last = b.last /\ c.net = b.net /\ c.killed = b.killed /\ c.reentry = b.reentry
    BY <1>1, <1>4 DEF Books
<1>6. IsMarked(b, id, c)
    BY <1>2, <1>4, <1>5 DEF IsMarked
<1> QED
    BY <1>6 DEF c

LEMMA ExitOneCases ==
    ASSUME NEW bk \in Buckets, NEW b \in Books, NEW id \in Ids, Pair(id) \in DOMAIN bk.bars,
           NEW c, c = ExitOne(bk, b, id)
    PROVE  \/ b.open[id].rule /\ IsClosed(b, id, bk.start + 1, 1, c)
           \/ ~b.open[id].rule /\ IsClosed(b, id, bk.start + 1, -1, c)
           \/ IsMarked(b, id, c)
<1> DEFINE bar == bk.bars[Pair(id)]
           end == bk.start + 1
<1>1. end \in 0..MaxClock
    BY Numbers DEF Buckets
<1>2. bar \in Bars
    <2>1. bk.bars \in Maps(Pairs, Bars)
        BY DEF Buckets
    <2>2. bk.bars \in [DOMAIN bk.bars -> Bars]
        BY <2>1, MapsAre
    <2> QED
        BY <2>2
<1>3. CASE b.open[id].rule
    <2>1. c = Closed(b, id, end, 1)
        BY <1>3 DEF ExitOne
    <2> HIDE DEF end
    <2>2. IsClosed(b, id, end, 1, c)
        BY <1>1, <2>1, ClosedIs
    <2> QED
        BY <1>3, <2>2 DEF end
<1>4. CASE ~b.open[id].rule /\ bar.low = "crash"
    <2>1. c = Closed(b, id, end, -1)
        BY <1>4 DEF ExitOne
    <2> HIDE DEF end
    <2>2. IsClosed(b, id, end, -1, c)
        BY <1>1, <2>1, ClosedIs
    <2> QED
        BY <1>4, <2>2 DEF end
<1>5. CASE ~b.open[id].rule /\ bar.low # "crash"
    <2> DEFINE rule == IsDayCloseBar(bk.start) /\ bar.rule /\ b.open[id].entry <= bk.start
    <2>1. c = [b EXCEPT !.open[id].rule = rule]
        BY <1>5 DEF ExitOne
    <2>2. rule \in BOOLEAN
        BY <1>2 DEF Bars
    <2> HIDE DEF rule
    <2> QED
        BY <2>1, <2>2, MarkedIs
<1> QED
    BY <1>3, <1>4, <1>5

Gone(b, c) == DOMAIN b.open \ DOMAIN c.open

(* A position that left took the open of the next bar, or its stop.          *)
ExitedRow(bk, b, c, i) ==
    /\ b.open[i].entry <= bk.start + 1
    /\ c.rows[i].fill = b.rows[i].fill /\ c.rows[i].by = b.rows[i].by
    /\ c.rows[i].why = b.rows[i].why /\ c.rows[i].at = b.rows[i].at
    /\ c.rows[i].exit = bk.start + 1
    /\ c.rows[i].net = IF b.open[i].rule THEN 1 ELSE -1
    /\ ~b.open[i].rule => c.reentry[Pair(i)] = bk.start + 1 + DayBars

(* What the bars do to the positions T of the book b.                        *)
Exiting(bk, T, b, c) ==
    /\ c \in Books /\ AccountsOf(c)
    /\ DOMAIN c.rows = DOMAIN b.rows
    /\ c.resting = b.resting /\ c.last = b.last
    /\ DOMAIN c.open \subseteq DOMAIN b.open
    /\ \A i \in DOMAIN b.rows : i \notin Gone(b, c) => c.rows[i] = b.rows[i]
    /\ \A i \in Gone(b, c) : i \in T /\ ExitedRow(bk, b, c, i)
    /\ \A i \in DOMAIN c.open : c.open[i].entry = b.open[i].entry
    /\ \A i \in DOMAIN c.open : i \notin T => c.open[i] = b.open[i]
    /\ \A q \in Pairs : c.reentry[q] \in {b.reentry[q], bk.start + 1 + DayBars}
    /\ \A q \in Pairs : (\A i \in T : Pair(i) # q) => c.reentry[q] = b.reentry[q]

LEMMA ExitingNothing ==
    ASSUME NEW bk, NEW b \in Books, AccountsOf(b)
    PROVE  Exiting(bk, {}, b, b)
BY DEF Exiting, Gone

LEMMA ExitingMore ==
    ASSUME NEW bk, NEW T, NEW U, T \subseteq U, NEW b, NEW c, Exiting(bk, T, b, c)
    PROVE  Exiting(bk, U, b, c)
BY DEF Exiting

LEMMA ExitingTwice ==
    ASSUME NEW bk, NEW T, NEW U, T \cap U = {}, NEW a \in Books, AccountsOf(a), NEW b, NEW c,
           Exiting(bk, T, a, b), Exiting(bk, U, b, c)
    PROVE  Exiting(bk, T \cup U, a, c)
<1>0. b \in Books /\ c \in Books
    BY DEF Exiting
<1>1. /\ AccountsOf(c) /\ AccountsOf(b) /\ DOMAIN c.rows = DOMAIN a.rows
      /\ DOMAIN b.rows = DOMAIN a.rows
      /\ c.resting = a.resting /\ c.last = a.last
      /\ DOMAIN b.open \subseteq DOMAIN a.open /\ DOMAIN c.open \subseteq DOMAIN b.open
    BY DEF Exiting
<1>2. Gone(a, c) = Gone(a, b) \cup Gone(b, c) /\ Gone(a, b) \cap DOMAIN b.open = {}
      /\ Gone(a, b) \cap Gone(b, c) = {} /\ Gone(b, c) \subseteq DOMAIN b.open
    BY <1>1 DEF Gone
<1>3. \A i \in DOMAIN a.rows : i \notin Gone(a, c) => c.rows[i] = a.rows[i]
    BY <1>1, <1>2 DEF Exiting
<1>4. DOMAIN a.open \subseteq DOMAIN a.rows /\ DOMAIN b.open \subseteq DOMAIN b.rows
      /\ \A i \in DOMAIN a.open : Pair(i) \in Pairs
    BY <1>1, BookParts, IdsAre DEF AccountsOf, Positions
<1>5. ASSUME NEW i \in Gone(a, c) PROVE i \in T \cup U /\ ExitedRow(bk, a, c, i)
    <2>1. CASE i \in Gone(a, b)
        <3>1. i \in T /\ ExitedRow(bk, a, b, i)
            BY <2>1 DEF Exiting
        <3>2. c.rows[i] = b.rows[i]
            BY <1>1, <1>2, <1>4, <2>1 DEF Exiting, Gone
        <3>3. c.reentry[Pair(i)] \in {b.reentry[Pair(i)], bk.start + 1 + DayBars}
            BY <1>4, <2>1 DEF Exiting, Gone
        <3> QED
            BY <3>1, <3>2, <3>3 DEF ExitedRow
    <2>2. CASE i \in Gone(b, c)
        <3>1. i \in U /\ ExitedRow(bk, b, c, i) /\ i \notin T
            BY <2>2 DEF Exiting
        <3>2. b.open[i] = a.open[i]
            BY <1>2, <2>2, <3>1 DEF Exiting
        <3>3. i \notin Gone(a, b) /\ i \in DOMAIN a.rows
            BY <1>1, <1>2, <1>4, <2>2
        <3>4. b.rows[i] = a.rows[i]
            BY <3>3 DEF Exiting
        <3> QED
            BY <3>1, <3>2, <3>4 DEF ExitedRow
    <2> QED
        BY <1>2, <2>1, <2>2
<1>6. \A i \in DOMAIN c.open : c.open[i].entry = a.open[i].entry
    BY <1>1 DEF Exiting
<1>7. \A i \in DOMAIN c.open : i \notin T \cup U => c.open[i] = a.open[i]
    BY <1>1 DEF Exiting
<1>8. \A q \in Pairs : c.reentry[q] \in {a.reentry[q], bk.start + 1 + DayBars}
    BY DEF Exiting
<1>9. \A q \in Pairs : (\A i \in T \cup U : Pair(i) # q) => c.reentry[q] = a.reentry[q]
    BY DEF Exiting
<1> QED
    BY <1>0, <1>1, <1>3, <1>5, <1>6, <1>7, <1>8, <1>9 DEF Exiting

LEMMA ExitOneIsABook ==
    ASSUME NEW bk \in Buckets, NEW b \in Books, NEW id \in Ids, Pair(id) \in DOMAIN bk.bars
    PROVE  ExitOne(bk, b, id) \in Books
<1> DEFINE c == ExitOne(bk, b, id)
<1> HIDE DEF c
<1>1. \/ b.open[id].rule /\ IsClosed(b, id, bk.start + 1, 1, c)
      \/ ~b.open[id].rule /\ IsClosed(b, id, bk.start + 1, -1, c)
      \/ IsMarked(b, id, c)
    BY ExitOneCases DEF c
<1>2. c \in Books
    BY <1>1 DEF IsClosed, IsMarked
<1> QED
    BY <1>2 DEF c

LEMMA ClosedKeeps ==
    ASSUME NEW bk \in Buckets, NEW b \in Books, AccountsOf(b), NEW id \in DOMAIN b.open,
           b.open[id].entry <= bk.start + 1, NEW gain \in {-1, 1}, b.open[id].rule <=> gain = 1,
           NEW c, IsClosed(b, id, bk.start + 1, gain, c)
    PROVE  Exiting(bk, {id}, b, c)
<1> DEFINE end == bk.start + 1
<1>0. /\ id \in DOMAIN b.rows /\ b.rows[id].fill = "fill" /\ b.rows[id].exit = Never
      /\ b.rows[id].net = 0
    BY DEF AccountsOf, Positions, IsSettled
<1>1. /\ end \in Nat /\ end # Never /\ DayBars \in Nat /\ Pair(id) \in Pairs
      /\ end + DayBars = bk.start + 1 + DayBars
    BY Numbers, BookParts, IdsAre DEF Buckets, Never
<1>2. /\ c \in Books /\ DOMAIN c.rows = DOMAIN b.rows /\ c.resting = b.resting /\ c.last = b.last
      /\ c.net = b.net + gain /\ (c.killed <=> b.killed \/ b.net + gain <= -Kill)
      /\ DOMAIN c.open = DOMAIN b.open \ {id}
      /\ \A i \in DOMAIN c.open : c.open[i] = b.open[i]
      /\ \A i \in DOMAIN b.rows : i # id => c.rows[i] = b.rows[i]
      /\ c.rows[id].fill = b.rows[id].fill /\ c.rows[id].by = b.rows[id].by
      /\ c.rows[id].why = b.rows[id].why /\ c.rows[id].at = b.rows[id].at
      /\ c.rows[id].exit = end /\ c.rows[id].net = gain
    BY <1>0 DEF IsClosed
<1>3. /\ \A q \in Pairs : q # Pair(id) \/ gain > 0 => c.reentry[q] = b.reentry[q]
      /\ gain < 0 => c.reentry[Pair(id)] = end + DayBars
    BY DEF IsClosed
<1> HIDE DEF end
<1>4. DOMAIN c.open = Positions(c.rows)
    BY <1>0, <1>1, <1>2 DEF AccountsOf, Positions
<1>5. c.resting = Orders(c.rows)
    BY <1>0, <1>2 DEF AccountsOf, Orders
<1>6. c.net = Net(c.rows)
    <2>1. /\ DOMAIN c.rows = DOMAIN b.rows /\ id \in DOMAIN c.rows /\ c.rows[id].net \in Int
          /\ \A i \in DOMAIN c.rows : i # id => c.rows[i].net = b.rows[i].net
        BY <1>0, <1>2
    <2>2. Net(c.rows) = Net(b.rows) - b.rows[id].net + c.rows[id].net
        BY <2>1, NetChanges
    <2>3. b.net = Net(b.rows) /\ b.net \in Int
        BY BookParts DEF AccountsOf
    <2> QED
        BY <1>0, <1>2, <2>2, <2>3
<1>7. c.net <= -Kill => c.killed
    BY <1>2
<1>8. \A i \in DOMAIN c.rows : IsSettled(c.rows[i])
    BY <1>0, <1>1, <1>2 DEF AccountsOf, IsSettled
<1>9. AccountsOf(c)
    BY <1>2, <1>4, <1>5, <1>6, <1>7, <1>8 DEF AccountsOf
<1>10. Gone(b, c) = {id}
    BY <1>2 DEF Gone
<1>11. ExitedRow(bk, b, c, id)
    <2>1. c.rows[id].net = IF b.open[id].rule THEN 1 ELSE -1
        BY <1>2
    <2>2. ~b.open[id].rule => c.reentry[Pair(id)] = bk.start + 1 + DayBars
        BY <1>1, <1>3
    <2> QED
        BY <1>2, <2>1, <2>2 DEF ExitedRow, end
<1>12. \A q \in Pairs : c.reentry[q] \in {b.reentry[q], bk.start + 1 + DayBars}
    BY <1>1, <1>3
<1>13. \A q \in Pairs : (\A i \in {id} : Pair(i) # q) => c.reentry[q] = b.reentry[q]
    BY <1>3
<1> QED
    BY <1>2, <1>9, <1>10, <1>11, <1>12, <1>13 DEF Exiting

LEMMA MarkedKeeps ==
    ASSUME NEW bk, NEW b \in Books, AccountsOf(b), NEW id \in DOMAIN b.open,
           NEW c, IsMarked(b, id, c)
    PROVE  Exiting(bk, {id}, b, c)
<1>1. /\ c \in Books /\ c.rows = b.rows /\ c.resting = b.resting /\ c.last = b.last
      /\ c.net = b.net /\ c.killed = b.killed /\ c.reentry = b.reentry
      /\ DOMAIN c.open = DOMAIN b.open
      /\ \A i \in DOMAIN b.open : i # id => c.open[i] = b.open[i]
      /\ c.open[id].entry = b.open[id].entry
    BY DEF IsMarked
<1>2. AccountsOf(c)
    BY <1>1 DEF AccountsOf
<1>3. Gone(b, c) = {}
    BY <1>1 DEF Gone
<1> QED
    BY <1>1, <1>2, <1>3 DEF Exiting

LEMMA ExitOneKeeps ==
    ASSUME NEW bk \in Buckets, NEW b \in Books, AccountsOf(b), NEW id \in DOMAIN b.open,
           b.open[id].entry <= bk.start + 1, Pair(id) \in DOMAIN bk.bars,
           NEW c, c = ExitOne(bk, b, id)
    PROVE  Exiting(bk, {id}, b, c)
<1>0. id \in Ids
    BY BookParts
<1>1. \/ b.open[id].rule /\ IsClosed(b, id, bk.start + 1, 1, c)
      \/ ~b.open[id].rule /\ IsClosed(b, id, bk.start + 1, -1, c)
      \/ IsMarked(b, id, c)
    BY <1>0, ExitOneCases
<1>2. CASE b.open[id].rule /\ IsClosed(b, id, bk.start + 1, 1, c)
    BY <1>2, ClosedKeeps
<1>3. CASE ~b.open[id].rule /\ IsClosed(b, id, bk.start + 1, -1, c)
    <2> DEFINE gain == -1
    <2>1. gain \in {-1, 1} /\ (b.open[id].rule <=> gain = 1) /\ IsClosed(b, id, bk.start + 1, gain, c)
        BY <1>3
    <2> HIDE DEF gain
    <2> QED
        BY <2>1, ClosedKeeps
<1>4. CASE IsMarked(b, id, c)
    BY <1>4, MarkedKeeps
<1> QED
    BY <1>1, <1>2, <1>3, <1>4

(* The positions of pair p that the bars of the bucket may end.               *)
Held(bk, b, p) == {i \in DOMAIN b.open : Pair(i) = p /\ Reaches(bk, b, i)}

LEMMA ExitsKeeps ==
    ASSUME NEW bk \in Buckets, NEW b \in Books, NEW p \in DOMAIN bk.bars
    PROVE  /\ Exits(bk, b, p) \in Books
           /\ AccountsOf(b) => Exiting(bk, {i \in Ids : Pair(i) = p}, b, Exits(bk, b, p))
<1> DEFINE held == Held(bk, b, p)
           here == {i \in Ids : Pair(i) = p}
           n == Cardinality(held)
           order == Ranked(held)
           step == [x \in Books \X here |-> ExitOne(bk, x[1], x[2])]
           Body(f) == f = [s \in SUBSET (1..n) |->
                             IF s = {} THEN b
                             ELSE ExitOne(bk, f[s \ {Max(s)}], order[Max(s)])]
           iter == CHOOSE f : Body(f)
<1>1. held \in SUBSET Ids /\ held \subseteq here /\ held \subseteq DOMAIN b.open
    BY BookParts DEF Held
<1>2. Lists(order, held, n)
    BY <1>1, RankedLists
<1>3. n \in Nat /\ order \in [1..n -> here] /\ DOMAIN order = 1..n
    BY <1>1, <1>2 DEF Lists
<1>4. step \in [Books \X here -> Books]
    BY ExitOneIsABook
<1>5. \A v \in Books, id \in here : step[<<v, id>>] = ExitOne(bk, v, id)
    OBVIOUS
<1>50. \A id \in held : b.open[id].entry <= bk.start + 1
    <2> SUFFICES ASSUME NEW id \in held PROVE b.open[id].entry <= bk.start + 1
        OBVIOUS
    <2>1. id \in DOMAIN b.open /\ Reaches(bk, b, id)
        BY DEF Held
    <2>2. b.open[id] \in Position /\ bk.start \in Nat
        BY <2>1, BookParts DEF Buckets
    <2>3. b.open[id].entry \in Nat
        BY <2>2, Numbers DEF Position
    <2> QED
        BY <2>1, <2>2, <2>3 DEF Reaches
<1> HIDE DEF n, order, step, held, here
<1>6. PICK g \in [SUBSET (1..n) -> Books] : IsListFold(g, n, order, b, step)
    BY <1>3, <1>4, FoldOfAListExists
<1>7. \A s \in SUBSET (1..n) : s # {} => Max(s) \in 1..n /\ order[Max(s)] \in here
    BY <1>3, MaxOfPlaces
<1>8. Body(g)
    <2>1. ASSUME NEW s \in SUBSET (1..n), s # {}
          PROVE  g[s] = ExitOne(bk, g[s \ {Max(s)}], order[Max(s)])
        <3>1. g[s] = step[<<g[s \ {Max(s)}], order[Max(s)]>>] /\ g[s \ {Max(s)}] \in Books
            BY <1>6, <2>1 DEF IsListFold
        <3> QED
            BY <1>5, <1>7, <2>1, <3>1
    <2> QED
        BY <1>6, <2>1 DEF IsListFold
<1>9. Body(iter)
    <2> HIDE DEF Body
    <2> QED
        BY <1>8
<1>10. Steps(iter, n, order, Books, b, step)
    <2>1. iter[{}] = b
        BY <1>9
    <2>2. ASSUME NEW s \in SUBSET (1..n), s # {}, iter[s \ {Max(s)}] \in Books
          PROVE  iter[s] = step[<<iter[s \ {Max(s)}], order[Max(s)]>>]
        <3>1. iter[s] = ExitOne(bk, iter[s \ {Max(s)}], order[Max(s)])
            <4> HIDE DEF iter
            <4> QED
                BY <1>9, <2>2
        <3> HIDE DEF iter
        <3> QED
            BY <1>5, <1>7, <2>2, <3>1
    <2> HIDE DEF iter
    <2> QED
        BY <2>1, <2>2 DEF Steps
<1>11. Exits(bk, b, p) = iter[1..n]
    <2>1. Exits(bk, b, p) = FoldLeft(LAMBDA c, id : ExitOne(bk, c, id), b, order)
        BY DEF Exits, order, held, Held
    <2> QED
        BY <1>3, <2>1 DEF FoldLeft, MapThenFoldSet
<1> HIDE DEF iter, Body
<1>12. Exits(bk, b, p) \in Books
    <2>1. Runs(iter, n, order, Books, b, step)
        BY <1>3, <1>4, <1>10, FoldOfAListRuns
    <2> QED
        BY <1>3, <1>11, <2>1 DEF Runs
<1>13. ASSUME AccountsOf(b) PROVE Exiting(bk, here, b, Exits(bk, b, p))
    <2> DEFINE Seen(m) == {order[j] : j \in 1..m}
               G == {x \in Nat \X Books : Exiting(bk, Seen(x[1]), b, x[2])}
    <2>1. <<0, b>> \in G
        <3>1. Seen(0) = {}
            OBVIOUS
        <3> QED
            <4>1. Exiting(bk, Seen(0), b, b)
                BY <1>13, <3>1, ExitingNothing
            <4> HIDE DEF Seen
            <4> QED
                BY <4>1
    <2>2. ASSUME NEW m \in 1..n, NEW v \in Books, <<m - 1, v>> \in G
          PROVE  <<m, step[<<v, order[m]>>]>> \in G
        <3> DEFINE id == order[m]
                   c == ExitOne(bk, v, id)
                   seen == Seen(m - 1)
        <3>1. Exiting(bk, seen, b, v) /\ AccountsOf(v)
            BY <2>2 DEF Exiting
        <3>2. id \in held /\ id \in here /\ id \in DOMAIN b.open /\ b.open[id].entry <= bk.start + 1
            BY <1>1, <1>2, <1>50 DEF Lists
        <3>3. id \notin seen
            <4>1. \A j \in 1..(m - 1) : j \in 1..n /\ j # m
                BY <1>3
            <4> QED
                BY <1>2, <4>1 DEF Lists
        <3>4. Seen(m) = seen \cup {id}
            <4>1. 1..m = 1..(m - 1) \cup {m}
                BY <1>3
            <4> QED
                BY <4>1
        <3> HIDE DEF seen, Seen
        <3>5. id \in DOMAIN v.open /\ v.open[id].entry <= bk.start + 1
            BY <3>1, <3>2, <3>3 DEF Exiting, Gone
        <3>6. Pair(id) \in DOMAIN bk.bars
            BY <3>2 DEF here
        <3>7. Exiting(bk, {id}, v, c)
            BY <3>1, <3>5, <3>6, ExitOneKeeps
        <3> HIDE DEF c, id
        <3>8. Exiting(bk, seen \cup {id}, b, c)
            <4>1. seen \cap {id} = {}
                BY <3>3
            <4> QED
                BY <1>13, <3>1, <3>7, <4>1, ExitingTwice
        <3>9. c \in Books
            BY <3>8 DEF Exiting
        <3>10. step[<<v, id>>] = c
            BY <1>5, <3>2 DEF c
        <3> QED
            <4>1. Exiting(bk, Seen(m), b, c) /\ m \in Nat
                BY <1>3, <3>4, <3>8
            <4>2. <<m, c>> \in G
                BY <3>9, <4>1
            <4> QED
                BY <3>10, <4>2 DEF id
    <2> HIDE DEF G
    <2>3. <<n, iter[1..n]>> \in G
        <3>1. KeptBySteps(G, n, order, Books, step)
            BY <2>2 DEF KeptBySteps
        <3> QED
            BY <1>3, <1>4, <1>10, <2>1, <3>1, FoldOfAListKeeps
    <2>4. Exiting(bk, Seen(n), b, Exits(bk, b, p))
        BY <1>11, <2>3 DEF G
    <2>5. Seen(n) \subseteq here
        BY <1>3
    <2> HIDE DEF Seen
    <2> QED
        BY <2>4, <2>5, ExitingMore
<1> QED
    BY <1>12, <1>13 DEF here

-----------------------------------------------------------------------------
(* The checks a bucket remembers.                                            *)

IsNew(r) ==
    /\ r.fill \in {"skip", "pending", "nofill"} /\ r.by = Never /\ r.exit = Never /\ r.net = 0
    /\ r.why # "cap" /\ (r.why = "nofill" => r.fill = "nofill")

(* What a check of pair p adds: at most one row, which rests when it is pending. *)
IsDecision(bk, p, d) ==
    /\ DOMAIN d.rows \subseteq {<<p, bk.start + 1>>}
    /\ \A i \in DOMAIN d.rows : IsNew(d.rows[i])
    /\ d.resting = Orders(d.rows)

(* A bucket that can be replayed: its image is in order, and no row of it is of *)
(* a signal that the bucket itself checks.                                    *)
CanReplay(bk) ==
    /\ AccountsOf(bk.image)
    /\ DOMAIN bk.decisions \subseteq DOMAIN bk.bars
    /\ \A i \in DOMAIN bk.image.rows : Pair(i) \in DOMAIN bk.bars => Signal(i) <= bk.start
    /\ \A p \in DOMAIN bk.decisions : IsDecision(bk, p, bk.decisions[p])

(* The rows that the checks of the pairs S added.                            *)
NewIds(bk, S) == UNION {DOMAIN bk.decisions[p].rows : p \in S \cap DOMAIN bk.decisions}

Applying(bk, q, b, c) ==
    /\ c \in Books /\ AccountsOf(c)
    /\ c.open = b.open /\ c.reentry = b.reentry
    /\ DOMAIN c.rows = DOMAIN b.rows \cup NewIds(bk, {q})
    /\ \A i \in DOMAIN b.rows : c.rows[i] = b.rows[i]
    /\ \A i \in NewIds(bk, {q}) : i \notin DOMAIN b.rows /\ c.rows[i] = bk.decisions[q].rows[i]

LEMMA BucketParts ==
    ASSUME NEW bk \in Buckets
    PROVE  /\ bk.start \in 0..(MaxClock - 1) /\ bk.start \in Nat
           /\ DOMAIN bk.bars \subseteq Pairs /\ DOMAIN bk.decisions \subseteq Pairs
           /\ bk.bars \in Maps(Pairs, Bars) /\ bk.decisions \in Maps(Pairs, Decisions)
           /\ bk.image \in Books
           /\ \A p \in DOMAIN bk.decisions : bk.decisions[p] \in Decisions
<1>1. /\ bk.start \in 0..(MaxClock - 1) /\ bk.bars \in Maps(Pairs, Bars)
      /\ bk.decisions \in Maps(Pairs, Decisions) /\ bk.image \in Books
    BY DEF Buckets
<1>2. /\ DOMAIN bk.bars \subseteq Pairs /\ DOMAIN bk.decisions \subseteq Pairs
      /\ bk.decisions \in [DOMAIN bk.decisions -> Decisions]
    BY <1>1, MapsAre
<1> QED
    BY <1>1, <1>2

(* New rows earn nothing.                                                    *)
LEMMA NetAdded ==
    ASSUME NEW b \in Books, NEW rows, NEW more, IsFiniteSet(more),
           DOMAIN rows = DOMAIN b.rows \cup more, DOMAIN b.rows \cap more = {},
           \A i \in DOMAIN b.rows : rows[i].net = b.rows[i].net,
           \A i \in more : rows[i].net = 0
    PROVE  Net(rows) = Net(b.rows)
<1> DEFINE S == DOMAIN b.rows
           f == [i \in S |-> b.rows[i].net]
           g == [i \in DOMAIN rows |-> rows[i].net]
<1>1. /\ IsFiniteSet(S) /\ \A i \in S : f[i] \in Int /\ g[i] = f[i]
    BY RowsAre
<1>2. Net(rows) = Total(g, DOMAIN rows) /\ Net(b.rows) = Total(f, S)
    BY DEF Net
<1>3. \A i \in more : g[i] = 0
    OBVIOUS
<1>4. S \cap more = {} /\ DOMAIN rows = S \cup more
    OBVIOUS
<1> HIDE DEF f, g, S
<1>5. Total(g, S) = Total(f, S) /\ Total(f, S) \in Int
    BY <1>1, TotalSame, TotalType
<1>6. Total(g, more) = 0
    BY <1>3, TotalOfZero
<1>7. \A i \in S \cup more : g[i] \in Int
    BY <1>1, <1>3
<1>8. Total(g, S \cup more) = Total(g, S) + Total(g, more)
    BY <1>1, <1>4, <1>7, TotalOfUnion
<1> QED
    BY <1>2, <1>4, <1>5, <1>6, <1>8

LEMMA ApplyStoredIsABook ==
    ASSUME NEW bk \in Buckets, NEW b \in Books, NEW q \in Pairs
    PROVE  ApplyStored(bk, b, q) \in Books
<1> DEFINE d == bk.decisions[q]
           rows == Merged(b.rows, d.rows)
           resting == b.resting \cup d.resting
           last == IF d.last # Never THEN d.last ELSE b.last
<1>1. CASE q \notin DOMAIN bk.decisions
    BY <1>1 DEF ApplyStored
<1>2. CASE q \in DOMAIN bk.decisions
    <2>1. d \in Decisions
        BY <1>2, BucketParts
    <2>2. d.rows \in Maps(Ids, Row) /\ d.resting \in SUBSET Ids /\ d.last \in Nat
        BY <2>1 DEF Decisions
    <2>3. ApplyStored(bk, b, q) = [b EXCEPT !.rows = rows, !.resting = resting, !.last = last]
        BY <1>2 DEF ApplyStored
    <2>4. rows \in Maps(Ids, Row)
        <3> b.rows \in Maps(Ids, Row)
            BY BookParts
        <3> QED
            BY <2>2, MergedIsAMap
    <2>5. resting \in SUBSET Ids /\ last \in Nat
        BY <2>2, BookParts
    <2> HIDE DEF rows, resting, last
    <2> QED
        BY <2>3, <2>4, <2>5 DEF Books
<1> QED
    BY <1>1, <1>2

(* A stored check puts its row, if it has one, and its order on the book.      *)
LEMMA DecisionKeeps ==
    ASSUME NEW bk, NEW q, NEW d \in Decisions, IsDecision(bk, q, d), NEW b \in Books, AccountsOf(b),
           <<q, bk.start + 1>> \notin DOMAIN b.rows, NEW c \in Books,
           c.rows = Merged(b.rows, d.rows), c.resting = b.resting \cup d.resting,
           c.open = b.open, c.net = b.net, c.killed = b.killed
    PROVE  AccountsOf(c) /\ DOMAIN b.rows \cap DOMAIN d.rows = {}
<1> DEFINE new == DOMAIN d.rows
           rows == c.rows
<1>1. /\ new \subseteq {<<q, bk.start + 1>>}
      /\ \A i \in new : IsNew(d.rows[i])
      /\ d.resting = Orders(d.rows)
    BY DEF IsDecision
<1>2. /\ DOMAIN rows = DOMAIN b.rows \cup new
      /\ DOMAIN b.rows \cap new = {}
    BY <1>1 DEF Merged
<1>3. \A i \in DOMAIN b.rows : rows[i] = b.rows[i]
    BY DEF Merged
<1>4. \A i \in new : rows[i] = d.rows[i]
    BY <1>2 DEF Merged
<1>5. \A i \in new : IsNew(rows[i])
    BY <1>1, <1>4
<1>7. d.resting = {i \in new : rows[i].fill = "pending"}
    BY <1>1, <1>4 DEF Orders
<1>8. IsFiniteSet(new)
    <2> DEFINE one == {<<q, bk.start + 1>>}
    <2>1. IsFiniteSet(one) /\ new \subseteq one
        BY <1>1, FS_Singleton
    <2> HIDE DEF one, new
    <2> QED
        BY <2>1, FS_Subset
<1> HIDE DEF new
<1>9. Positions(rows) = Positions(b.rows)
    BY <1>2, <1>3, <1>5 DEF Positions, IsNew
<1>10. Orders(rows) = b.resting \cup d.resting
    BY <1>2, <1>3, <1>7 DEF AccountsOf, Orders
<1>11. Net(rows) = Net(b.rows)
    <2>1. \A i \in new : rows[i].net = 0
        BY <1>5 DEF IsNew
    <2>2. \A i \in DOMAIN b.rows : rows[i].net = b.rows[i].net
        BY <1>3
    <2> QED
        BY <1>2, <1>8, <2>1, <2>2, NetAdded
<1>12. \A i \in DOMAIN rows : IsSettled(rows[i])
    <2>1. \A i \in DOMAIN b.rows : IsSettled(rows[i])
        BY <1>3 DEF AccountsOf
    <2>2. \A i \in new : IsSettled(rows[i])
        BY <1>5 DEF IsNew, IsSettled
    <2> QED
        BY <1>2, <2>1, <2>2
<1>13. AccountsOf(c)
    BY <1>9, <1>10, <1>11, <1>12 DEF AccountsOf
<1> QED
    BY <1>2, <1>13 DEF new

LEMMA ApplyStoredKeeps ==
    ASSUME NEW bk \in Buckets, CanReplay(bk), NEW b \in Books, AccountsOf(b),
           NEW q \in DOMAIN bk.bars, <<q, bk.start + 1>> \notin DOMAIN b.rows,
           NEW c, c = ApplyStored(bk, b, q)
    PROVE  Applying(bk, q, b, c)
<1>0. q \in Pairs
    BY BucketParts
<1>1. CASE q \notin DOMAIN bk.decisions
    <2>1. c = b
        BY <1>1 DEF ApplyStored
    <2>2. NewIds(bk, {q}) = {}
        BY <1>1 DEF NewIds
    <2> QED
        BY <2>1, <2>2 DEF Applying
<1>2. CASE q \in DOMAIN bk.decisions
    <2>1. PICK d \in Decisions : d = bk.decisions[q] /\ IsDecision(bk, q, d)
        BY <1>2, BucketParts DEF CanReplay
    <2>2. PICK rows : rows = Merged(b.rows, d.rows)
        OBVIOUS
    <2>3. PICK last : last = IF d.last # Never THEN d.last ELSE b.last
        OBVIOUS
    <2>4. c = [b EXCEPT !.rows = rows, !.resting = b.resting \cup d.resting, !.last = last]
        BY <1>2, <2>1, <2>2, <2>3 DEF ApplyStored
    <2>5. c \in Books
        BY <1>0, ApplyStoredIsABook
    <2>50. /\ c.rows = rows /\ c.resting = b.resting \cup d.resting /\ c.open = b.open
           /\ c.reentry = b.reentry /\ c.net = b.net /\ c.killed = b.killed
        BY <2>4 DEF Books
    <2>51. AccountsOf(c) /\ DOMAIN b.rows \cap DOMAIN d.rows = {}
        BY <2>1, <2>2, <2>5, <2>50, DecisionKeeps
    <2>6. /\ AccountsOf(c) /\ c.open = b.open /\ c.reentry = b.reentry
          /\ c.rows = rows /\ DOMAIN b.rows \cap DOMAIN d.rows = {}
        BY <2>50, <2>51
    <2>7. NewIds(bk, {q}) = DOMAIN d.rows
        <3>1. {q} \cap DOMAIN bk.decisions = {q}
            BY <1>2
        <3> QED
            BY <2>1, <3>1 DEF NewIds
    <2>8. /\ DOMAIN c.rows = DOMAIN b.rows \cup NewIds(bk, {q})
          /\ \A i \in DOMAIN b.rows : c.rows[i] = b.rows[i]
        BY <2>2, <2>6, <2>7 DEF Merged
    <2>9. \A i \in NewIds(bk, {q}) : i \notin DOMAIN b.rows /\ c.rows[i] = bk.decisions[q].rows[i]
        BY <2>1, <2>2, <2>6, <2>7 DEF Merged
    <2> QED
        BY <2>5, <2>6, <2>8, <2>9 DEF Applying
<1> QED
    BY <1>1, <1>2

LEMMA NewIdsAre ==
    ASSUME NEW bk \in Buckets, CanReplay(bk), NEW S, NEW i \in NewIds(bk, S)
    PROVE  /\ Pair(i) \in S /\ Pair(i) \in DOMAIN bk.decisions
           /\ i \in DOMAIN bk.decisions[Pair(i)].rows
           /\ i = <<Pair(i), bk.start + 1>> /\ Signal(i) = bk.start + 1
           /\ IsNew(bk.decisions[Pair(i)].rows[i])
<1>1. PICK p \in S \cap DOMAIN bk.decisions : i \in DOMAIN bk.decisions[p].rows
    BY DEF NewIds
<1>2. IsDecision(bk, p, bk.decisions[p])
    BY <1>1 DEF CanReplay
<1>3. i = <<p, bk.start + 1>> /\ IsNew(bk.decisions[p].rows[i])
    BY <1>1, <1>2 DEF IsDecision
<1>4. Pair(i) = p /\ Signal(i) = bk.start + 1
    BY <1>3 DEF Pair, Signal
<1> QED
    BY <1>1, <1>3, <1>4

LEMMA NewIdsGrow ==
    ASSUME NEW bk, NEW S, NEW T
    PROVE  NewIds(bk, S \cup T) = NewIds(bk, S) \cup NewIds(bk, T)
BY DEF NewIds

(* A row as the image or the check that made it left it.                     *)
Source(bk, i) ==
    IF i \in DOMAIN bk.image.rows THEN bk.image.rows[i] ELSE bk.decisions[Pair(i)].rows[i]

(* The image and the checks of the pairs S.                                  *)
Storing(bk, S, b) ==
    /\ b \in Books /\ AccountsOf(b)
    /\ b.open = bk.image.open /\ b.reentry = bk.image.reentry
    /\ DOMAIN b.rows = DOMAIN bk.image.rows \cup NewIds(bk, S)
    /\ \A i \in DOMAIN b.rows : b.rows[i] = Source(bk, i)

LEMMA StoringMore ==
    ASSUME NEW bk \in Buckets, CanReplay(bk), NEW S, NEW b, Storing(bk, S, b),
           NEW q \in DOMAIN bk.bars, q \notin S, NEW c, c = ApplyStored(bk, b, q)
    PROVE  Storing(bk, S \cup {q}, c)
<1> DEFINE id == <<q, bk.start + 1>>
<1>1. b \in Books /\ AccountsOf(b) /\ bk.start \in Nat
    BY BucketParts DEF Storing
<1>2. Pair(id) = q /\ Signal(id) = bk.start + 1
    BY DEF Pair, Signal
<1> HIDE DEF id
<1>3. id \notin DOMAIN bk.image.rows
    BY <1>1, <1>2 DEF CanReplay
<1>4. id \notin NewIds(bk, S)
    BY <1>2, NewIdsAre
<1>5. id \notin DOMAIN b.rows
    BY <1>3, <1>4 DEF Storing
<1>6. Applying(bk, q, b, c)
    BY <1>1, <1>5, ApplyStoredKeeps DEF id
<1>7. DOMAIN c.rows = DOMAIN bk.image.rows \cup NewIds(bk, S \cup {q})
    BY <1>6, NewIdsGrow DEF Storing, Applying
<1>8. ASSUME NEW i \in DOMAIN c.rows PROVE c.rows[i] = Source(bk, i)
    <2>1. CASE i \in DOMAIN b.rows
        BY <1>6, <2>1 DEF Storing, Applying
    <2>2. CASE i \in NewIds(bk, {q})
        <3>1. Pair(i) = q
            BY <2>2, NewIdsAre
        <3>2. i \notin DOMAIN b.rows /\ c.rows[i] = bk.decisions[q].rows[i]
            BY <1>6, <2>2 DEF Applying
        <3>3. i \notin DOMAIN bk.image.rows
            BY <3>2 DEF Storing
        <3> QED
            BY <3>1, <3>2, <3>3 DEF Source
    <2> QED
        BY <1>6, <2>1, <2>2 DEF Applying
<1> QED
    BY <1>6, <1>7, <1>8 DEF Storing, Applying

LEMMA StoredKeeps ==
    ASSUME NEW bk \in Buckets
    PROVE  /\ Stored(bk) \in Books
           /\ CanReplay(bk) => Storing(bk, DOMAIN bk.bars, Stored(bk))
<1> DEFINE names == DOMAIN bk.bars
           n == Cardinality(names)
           order == Ordered(names)
           step == [x \in Books \X names |-> ApplyStored(bk, x[1], x[2])]
           Body(f) == f = [s \in SUBSET (1..n) |->
                             IF s = {} THEN bk.image
                             ELSE ApplyStored(bk, f[s \ {Max(s)}], order[Max(s)])]
           iter == CHOOSE f : Body(f)
<1>1. names \in SUBSET Pairs /\ bk.image \in Books
    BY BucketParts
<1>2. Lists(order, names, n)
    BY <1>1, NamesList
<1>3. n \in Nat /\ order \in [1..n -> names] /\ DOMAIN order = 1..n
    BY <1>1, <1>2 DEF Lists
<1>44. \A v \in Books, q \in names : ApplyStored(bk, v, q) \in Books
    BY <1>1, ApplyStoredIsABook
<1>4. step \in [Books \X names -> Books]
    BY <1>44
<1>5. \A v \in Books, x \in names : step[<<v, x>>] = ApplyStored(bk, v, x)
    OBVIOUS
<1> HIDE DEF n, order, step, names
<1>6. PICK g \in [SUBSET (1..n) -> Books] : IsListFold(g, n, order, bk.image, step)
    BY <1>1, <1>3, <1>4, FoldOfAListExists
<1>7. \A s \in SUBSET (1..n) : s # {} => Max(s) \in 1..n /\ order[Max(s)] \in names
    BY <1>3, MaxOfPlaces
<1>8. Body(g)
    <2>1. ASSUME NEW s \in SUBSET (1..n), s # {}
          PROVE  g[s] = ApplyStored(bk, g[s \ {Max(s)}], order[Max(s)])
        <3>1. g[s] = step[<<g[s \ {Max(s)}], order[Max(s)]>>] /\ g[s \ {Max(s)}] \in Books
            BY <1>6, <2>1 DEF IsListFold
        <3> QED
            BY <1>5, <1>7, <2>1, <3>1
    <2> QED
        BY <1>6, <2>1 DEF IsListFold
<1>9. Body(iter)
    <2> HIDE DEF Body
    <2> QED
        BY <1>8
<1>10. Steps(iter, n, order, Books, bk.image, step)
    <2>1. iter[{}] = bk.image
        BY <1>9
    <2>2. ASSUME NEW s \in SUBSET (1..n), s # {}, iter[s \ {Max(s)}] \in Books
          PROVE  iter[s] = step[<<iter[s \ {Max(s)}], order[Max(s)]>>]
        <3>1. iter[s] = ApplyStored(bk, iter[s \ {Max(s)}], order[Max(s)])
            <4> HIDE DEF iter
            <4> QED
                BY <1>9, <2>2
        <3> HIDE DEF iter
        <3> QED
            BY <1>5, <1>7, <2>2, <3>1
    <2> HIDE DEF iter
    <2> QED
        BY <2>1, <2>2 DEF Steps
<1>11. Stored(bk) = iter[1..n]
    <2>1. Stored(bk) = FoldLeft(LAMBDA c, x : ApplyStored(bk, c, x), bk.image, order)
        BY DEF Stored, order, names
    <2> QED
        BY <1>3, <2>1 DEF FoldLeft, MapThenFoldSet
<1> HIDE DEF iter, Body
<1>12. Stored(bk) \in Books
    <2>1. Runs(iter, n, order, Books, bk.image, step)
        BY <1>1, <1>3, <1>4, <1>10, FoldOfAListRuns
    <2> QED
        BY <1>3, <1>11, <2>1 DEF Runs
<1>13. ASSUME CanReplay(bk) PROVE Storing(bk, names, Stored(bk))
    <2> DEFINE Seen(m) == {order[j] : j \in 1..m}
               G == {x \in Nat \X Books : Storing(bk, Seen(x[1]), x[2])}
    <2>1. <<0, bk.image>> \in G
        <3>1. Seen(0) = {} /\ NewIds(bk, {}) = {}
            BY DEF NewIds
        <3>2. Storing(bk, {}, bk.image)
            BY <1>1, <1>13, <3>1 DEF Storing, Source, CanReplay
        <3>3. Storing(bk, Seen(0), bk.image)
            BY <3>1, <3>2
        <3> HIDE DEF Seen
        <3> QED
            BY <1>1, <3>3
    <2>2. ASSUME NEW m \in 1..n, NEW v \in Books, <<m - 1, v>> \in G
          PROVE  <<m, step[<<v, order[m]>>]>> \in G
        <3> DEFINE q == order[m]
                   c == ApplyStored(bk, v, q)
                   seen == Seen(m - 1)
        <3>1. Storing(bk, seen, v)
            BY <2>2
        <3>2. q \in names
            BY <1>3
        <3>3. q \notin seen
            <4>1. \A j \in 1..(m - 1) : j \in 1..n /\ j # m
                BY <1>3
            <4> QED
                BY <1>2, <4>1 DEF Lists
        <3>4. Seen(m) = seen \cup {q}
            <4>1. 1..m = 1..(m - 1) \cup {m}
                BY <1>3
            <4> QED
                BY <4>1
        <3> HIDE DEF seen, Seen, c, q
        <3>5. Storing(bk, seen \cup {q}, c)
            BY <1>13, <3>1, <3>2, <3>3, StoringMore DEF c, names
        <3>6. c \in Books
            BY <3>5 DEF Storing
        <3>7. step[<<v, q>>] = c
            BY <1>5, <3>2 DEF c
        <3>8. Storing(bk, Seen(m), c) /\ m \in Nat
            BY <1>3, <3>4, <3>5
        <3>9. <<m, c>> \in G
            BY <3>6, <3>8
        <3> QED
            BY <3>7, <3>9 DEF q
    <2> HIDE DEF G
    <2>3. <<n, iter[1..n]>> \in G
        <3>1. KeptBySteps(G, n, order, Books, step)
            BY <2>2 DEF KeptBySteps
        <3> QED
            BY <1>1, <1>3, <1>4, <1>10, <2>1, <3>1, FoldOfAListKeeps
    <2>4. Storing(bk, Seen(n), Stored(bk))
        BY <1>11, <2>3 DEF G
    <2>5. Seen(n) = names
        BY <1>2 DEF Lists
    <2> HIDE DEF Seen
    <2> QED
        BY <2>4, <2>5
<1> QED
    BY <1>12, <1>13 DEF names

-----------------------------------------------------------------------------
(* All exits of a bucket, pair by pair.                                      *)

AllExits(bk, b) == FoldLeft(LAMBDA c, p : Exits(bk, c, p), b, Ordered(DOMAIN bk.bars))

(* The orders and positions of the pairs S.                                  *)
Of(S) == {i \in Ids : Pair(i) \in S}

LEMMA AllExitsKeep ==
    ASSUME NEW bk \in Buckets, NEW b \in Books
    PROVE  /\ AllExits(bk, b) \in Books
           /\ AccountsOf(b) => Exiting(bk, Of(DOMAIN bk.bars), b, AllExits(bk, b))
<1> DEFINE names == DOMAIN bk.bars
           n == Cardinality(names)
           order == Ordered(names)
           step == [x \in Books \X names |-> Exits(bk, x[1], x[2])]
           Body(f) == f = [s \in SUBSET (1..n) |->
                             IF s = {} THEN b
                             ELSE Exits(bk, f[s \ {Max(s)}], order[Max(s)])]
           iter == CHOOSE f : Body(f)
<1>1. names \in SUBSET Pairs
    BY BucketParts
<1>2. Lists(order, names, n)
    BY <1>1, NamesList
<1>3. n \in Nat /\ order \in [1..n -> names] /\ DOMAIN order = 1..n
    BY <1>1, <1>2 DEF Lists
<1>44. \A v \in Books, q \in names : Exits(bk, v, q) \in Books
    BY ExitsKeeps
<1>4. step \in [Books \X names -> Books]
    BY <1>44
<1>5. \A v \in Books, x \in names : step[<<v, x>>] = Exits(bk, v, x)
    OBVIOUS
<1> HIDE DEF n, order, step, names
<1>6. PICK g \in [SUBSET (1..n) -> Books] : IsListFold(g, n, order, b, step)
    BY <1>3, <1>4, FoldOfAListExists
<1>7. \A s \in SUBSET (1..n) : s # {} => Max(s) \in 1..n /\ order[Max(s)] \in names
    BY <1>3, MaxOfPlaces
<1>8. Body(g)
    <2>1. ASSUME NEW s \in SUBSET (1..n), s # {}
          PROVE  g[s] = Exits(bk, g[s \ {Max(s)}], order[Max(s)])
        <3>1. g[s] = step[<<g[s \ {Max(s)}], order[Max(s)]>>] /\ g[s \ {Max(s)}] \in Books
            BY <1>6, <2>1 DEF IsListFold
        <3> QED
            BY <1>5, <1>7, <2>1, <3>1
    <2> QED
        BY <1>6, <2>1 DEF IsListFold
<1>9. Body(iter)
    <2> HIDE DEF Body
    <2> QED
        BY <1>8
<1>10. Steps(iter, n, order, Books, b, step)
    <2>1. iter[{}] = b
        BY <1>9
    <2>2. ASSUME NEW s \in SUBSET (1..n), s # {}, iter[s \ {Max(s)}] \in Books
          PROVE  iter[s] = step[<<iter[s \ {Max(s)}], order[Max(s)]>>]
        <3>1. iter[s] = Exits(bk, iter[s \ {Max(s)}], order[Max(s)])
            <4> HIDE DEF iter
            <4> QED
                BY <1>9, <2>2
        <3> HIDE DEF iter
        <3> QED
            BY <1>5, <1>7, <2>2, <3>1
    <2> HIDE DEF iter
    <2> QED
        BY <2>1, <2>2 DEF Steps
<1>11. AllExits(bk, b) = iter[1..n]
    <2>1. AllExits(bk, b) = FoldLeft(LAMBDA c, x : Exits(bk, c, x), b, order)
        BY DEF AllExits, order, names
    <2> QED
        BY <1>3, <2>1 DEF FoldLeft, MapThenFoldSet
<1> HIDE DEF iter, Body
<1>12. AllExits(bk, b) \in Books
    <2>1. Runs(iter, n, order, Books, b, step)
        BY <1>3, <1>4, <1>10, FoldOfAListRuns
    <2> QED
        BY <1>3, <1>11, <2>1 DEF Runs
<1>13. ASSUME AccountsOf(b) PROVE Exiting(bk, Of(names), b, AllExits(bk, b))
    <2> DEFINE Seen(m) == {order[j] : j \in 1..m}
               G == {x \in Nat \X Books : Exiting(bk, Of(Seen(x[1])), b, x[2])}
    <2>1. <<0, b>> \in G
        <3>1. Of(Seen(0)) = {}
            BY DEF Of
        <3>2. Exiting(bk, Of(Seen(0)), b, b)
            BY <1>13, <3>1, ExitingNothing
        <3> HIDE DEF Seen
        <3> QED
            BY <3>2
    <2>2. ASSUME NEW m \in 1..n, NEW v \in Books, <<m - 1, v>> \in G
          PROVE  <<m, step[<<v, order[m]>>]>> \in G
        <3> DEFINE q == order[m]
                   c == Exits(bk, v, q)
                   seen == Seen(m - 1)
        <3>1. Exiting(bk, Of(seen), b, v) /\ AccountsOf(v)
            BY <2>2 DEF Exiting
        <3>2. q \in names
            BY <1>3
        <3>3. q \notin seen
            <4>1. \A j \in 1..(m - 1) : j \in 1..n /\ j # m
                BY <1>3
            <4> QED
                BY <1>2, <4>1 DEF Lists
        <3>4. Seen(m) = seen \cup {q}
            <4>1. 1..m = 1..(m - 1) \cup {m}
                BY <1>3
            <4> QED
                BY <4>1
        <3> HIDE DEF seen, Seen, c, q
        <3>5. Exiting(bk, {i \in Ids : Pair(i) = q}, v, c)
            BY <3>1, <3>2, ExitsKeeps DEF c, names
        <3>6. Exiting(bk, Of({q}), v, c)
            <4>1. {i \in Ids : Pair(i) = q} = Of({q})
                BY DEF Of
            <4> QED
                BY <3>5, <4>1
        <3>7. Of(seen) \cap Of({q}) = {} /\ Of(seen) \cup Of({q}) = Of(Seen(m))
            BY <3>3, <3>4 DEF Of
        <3>8. Exiting(bk, Of(seen) \cup Of({q}), b, c)
            BY <1>13, <3>1, <3>6, <3>7, ExitingTwice
        <3>9. c \in Books
            BY <3>8 DEF Exiting
        <3>10. step[<<v, q>>] = c
            BY <1>5, <3>2 DEF c
        <3>11. Exiting(bk, Of(Seen(m)), b, c) /\ m \in Nat
            <4> DEFINE U == Of(seen) \cup Of({q})
            <4>1. U = Of(Seen(m)) /\ Exiting(bk, U, b, c)
                BY <3>7, <3>8
            <4> HIDE DEF U
            <4> QED
                BY <1>3, <4>1
        <3>12. <<m, c>> \in G
            BY <3>9, <3>11
        <3> QED
            BY <3>10, <3>12 DEF q
    <2> HIDE DEF G
    <2>3. <<n, iter[1..n]>> \in G
        <3>1. KeptBySteps(G, n, order, Books, step)
            BY <2>2 DEF KeptBySteps
        <3> QED
            BY <1>3, <1>4, <1>10, <2>1, <3>1, FoldOfAListKeeps
    <2>4. Exiting(bk, Of(Seen(n)), b, AllExits(bk, b))
        BY <1>11, <2>3 DEF G
    <2>5. Seen(n) = names
        BY <1>2 DEF Lists
    <2> HIDE DEF Seen
    <2> QED
        BY <2>4, <2>5
<1> QED
    BY <1>12, <1>13 DEF names

(* The three stages of a replay.                                             *)
LEMMA ReplayStages ==
    ASSUME TimesOK, NEW bk \in Buckets
    PROVE  /\ Stored(bk) \in Books /\ Resolved(bk, Stored(bk)) \in Books
           /\ Replayed(bk) \in Books
           /\ CanReplay(bk) =>
                 /\ Storing(bk, DOMAIN bk.bars, Stored(bk))
                 /\ ResolvedIs(bk, Stored(bk), Resolved(bk, Stored(bk)))
                 /\ Exiting(bk, Of(DOMAIN bk.bars), Resolved(bk, Stored(bk)), Replayed(bk))
<1>1. PICK a : a = Stored(bk)
    OBVIOUS
<1>2. PICK b : b = Resolved(bk, a)
    OBVIOUS
<1>3. Replayed(bk) = AllExits(bk, b)
    BY <1>1, <1>2 DEF Replayed, AllExits
<1>4. a \in Books /\ (CanReplay(bk) => Storing(bk, DOMAIN bk.bars, a))
    BY <1>1, StoredKeeps
<1>5. b \in Books /\ (AccountsOf(a) => ResolvedIs(bk, a, b))
    BY <1>2, <1>4, ResolvedKeeps
<1>6. /\ AllExits(bk, b) \in Books
      /\ AccountsOf(b) => Exiting(bk, Of(DOMAIN bk.bars), b, AllExits(bk, b))
    BY <1>5, AllExitsKeep
<1>7. ASSUME CanReplay(bk)
      PROVE  Storing(bk, DOMAIN bk.bars, a) /\ ResolvedIs(bk, a, b)
             /\ Exiting(bk, Of(DOMAIN bk.bars), b, AllExits(bk, b))
    <2>1. AccountsOf(a)
        BY <1>4, <1>7 DEF Storing
    <2>2. AccountsOf(b)
        BY <1>5, <2>1 DEF ResolvedIs, Resolving
    <2> QED
        BY <1>4, <1>5, <1>6, <1>7, <2>1, <2>2
<1> QED
    BY <1>1, <1>2, <1>3, <1>4, <1>5, <1>6, <1>7

-----------------------------------------------------------------------------
(* What the check of a pair sees: nothing of its own signal, and of its        *)
(* positions those of the image that its bar did not end.                     *)

Visited(bk, p, S, b) ==
    /\ b \in Books /\ AccountsOf(b)
    /\ \A i \in DOMAIN b.rows : i \in DOMAIN bk.image.rows \/ Pair(i) \in S
    /\ b.reentry[p] = bk.image.reentry[p]
    /\ \A i \in DOMAIN bk.image.open : Pair(i) = p => i \in DOMAIN b.open /\ b.open[i] = bk.image.open[i]

LEMMA VisitedMore ==
    ASSUME NEW bk \in Buckets, CanReplay(bk), NEW p \in Pairs, NEW S, NEW b, Visited(bk, p, S, b),
           NEW q \in DOMAIN bk.bars, q \notin S, q # p,
           NEW c, c = ApplyStored(bk, Exits(bk, b, q), q)
    PROVE  Visited(bk, p, S \cup {q}, c)
<1> DEFINE id == <<q, bk.start + 1>>
           T == {i \in Ids : Pair(i) = q}
<1>1. b \in Books /\ AccountsOf(b) /\ bk.start \in Nat
    BY BucketParts DEF Visited
<1>2. PICK e \in Books : e = Exits(bk, b, q) /\ Exiting(bk, T, b, e)
    BY <1>1, ExitsKeeps
<1>3. Pair(id) = q /\ Signal(id) = bk.start + 1
    BY DEF Pair, Signal
<1>4. /\ \A i \in T : Pair(i) = q
      /\ \A i \in DOMAIN b.open : i \in DOMAIN b.rows
    BY <1>1 DEF AccountsOf, Positions
<1> HIDE DEF id, T
<1>5. DOMAIN e.rows = DOMAIN b.rows /\ AccountsOf(e)
    BY <1>2 DEF Exiting
<1>6. id \notin DOMAIN bk.image.rows
    BY <1>1, <1>3 DEF CanReplay
<1>7. id \notin DOMAIN e.rows
    BY <1>3, <1>5, <1>6 DEF Visited
<1>8. Applying(bk, q, e, c)
    BY <1>2, <1>5, <1>7, ApplyStoredKeeps DEF id
<1>9. \A i \in DOMAIN c.rows : i \in DOMAIN bk.image.rows \/ Pair(i) \in S \cup {q}
    <2>1. \A i \in NewIds(bk, {q}) : Pair(i) = q
        BY NewIdsAre
    <2> QED
        BY <1>5, <1>8, <2>1 DEF Applying, Visited
<1>10. c.reentry[p] = bk.image.reentry[p]
    <2>1. \A i \in T : Pair(i) # p
        BY <1>4
    <2>2. e.reentry[p] = b.reentry[p]
        BY <1>2, <2>1 DEF Exiting
    <2> QED
        BY <1>8, <2>2 DEF Applying, Visited
<1>11. ASSUME NEW i \in DOMAIN bk.image.open, Pair(i) = p
       PROVE  i \in DOMAIN c.open /\ c.open[i] = bk.image.open[i]
    <2>1. i \in DOMAIN b.open /\ b.open[i] = bk.image.open[i] /\ i \notin T
        BY <1>4, <1>11 DEF Visited
    <2>2. i \in DOMAIN e.open /\ e.open[i] = b.open[i]
        BY <1>2, <2>1 DEF Exiting, Gone
    <2> QED
        BY <1>8, <2>1, <2>2 DEF Applying
<1> QED
    BY <1>8, <1>9, <1>10, <1>11 DEF Visited, Applying

VisitedTo(bk, p) ==
    FoldLeft(LAMBDA b, q : ApplyStored(bk, Exits(bk, b, q), q), bk.image,
             Ordered({q \in DOMAIN bk.bars : q < p}))

LEMMA VisitedToKeeps ==
    ASSUME NEW bk \in Buckets, NEW p \in DOMAIN bk.bars
    PROVE  /\ VisitedTo(bk, p) \in Books
           /\ CanReplay(bk) => Visited(bk, p, {q \in DOMAIN bk.bars : q < p}, VisitedTo(bk, p))
<1> DEFINE names == {q \in DOMAIN bk.bars : q < p}
           n == Cardinality(names)
           order == Ordered(names)
           step == [x \in Books \X names |-> ApplyStored(bk, Exits(bk, x[1], x[2]), x[2])]
           Body(f) == f = [s \in SUBSET (1..n) |->
                             IF s = {} THEN bk.image
                             ELSE ApplyStored(bk, Exits(bk, f[s \ {Max(s)}], order[Max(s)]), order[Max(s)])]
           iter == CHOOSE f : Body(f)
<1>1. names \in SUBSET Pairs /\ names \subseteq DOMAIN bk.bars /\ bk.image \in Books
      /\ p \in Pairs /\ p \notin names
    <2>1. DOMAIN bk.bars \subseteq Pairs /\ bk.image \in Books /\ p \in Nat
        BY BucketParts, PairsAssumption
    <2> QED
        BY <2>1
<1>2. Lists(order, names, n)
    BY <1>1, NamesList
<1>3. n \in Nat /\ order \in [1..n -> names] /\ DOMAIN order = 1..n
    BY <1>1, <1>2 DEF Lists
<1>44. \A v \in Books, q \in names : ApplyStored(bk, Exits(bk, v, q), q) \in Books
    <2> SUFFICES ASSUME NEW v \in Books, NEW q \in names
                 PROVE  ApplyStored(bk, Exits(bk, v, q), q) \in Books
        OBVIOUS
    <2>1. Exits(bk, v, q) \in Books /\ q \in Pairs
        BY <1>1, ExitsKeeps
    <2> QED
        BY <2>1, ApplyStoredIsABook
<1>4. step \in [Books \X names -> Books]
    BY <1>44
<1>5. \A v \in Books, x \in names : step[<<v, x>>] = ApplyStored(bk, Exits(bk, v, x), x)
    OBVIOUS
<1> HIDE DEF n, order, step, names
<1>6. PICK g \in [SUBSET (1..n) -> Books] : IsListFold(g, n, order, bk.image, step)
    BY <1>1, <1>3, <1>4, FoldOfAListExists
<1>7. \A s \in SUBSET (1..n) : s # {} => Max(s) \in 1..n /\ order[Max(s)] \in names
    BY <1>3, MaxOfPlaces
<1>8. Body(g)
    <2>1. ASSUME NEW s \in SUBSET (1..n), s # {}
          PROVE  g[s] = ApplyStored(bk, Exits(bk, g[s \ {Max(s)}], order[Max(s)]), order[Max(s)])
        <3>1. g[s] = step[<<g[s \ {Max(s)}], order[Max(s)]>>] /\ g[s \ {Max(s)}] \in Books
            BY <1>6, <2>1 DEF IsListFold
        <3> QED
            BY <1>5, <1>7, <2>1, <3>1
    <2> QED
        BY <1>6, <2>1 DEF IsListFold
<1>9. Body(iter)
    <2> HIDE DEF Body
    <2> QED
        BY <1>8
<1>10. Steps(iter, n, order, Books, bk.image, step)
    <2>1. iter[{}] = bk.image
        BY <1>9
    <2>2. ASSUME NEW s \in SUBSET (1..n), s # {}, iter[s \ {Max(s)}] \in Books
          PROVE  iter[s] = step[<<iter[s \ {Max(s)}], order[Max(s)]>>]
        <3>1. iter[s] = ApplyStored(bk, Exits(bk, iter[s \ {Max(s)}], order[Max(s)]), order[Max(s)])
            <4> HIDE DEF iter
            <4> QED
                BY <1>9, <2>2
        <3> HIDE DEF iter
        <3> QED
            BY <1>5, <1>7, <2>2, <3>1
    <2> HIDE DEF iter
    <2> QED
        BY <2>1, <2>2 DEF Steps
<1>11. VisitedTo(bk, p) = iter[1..n]
    <2>1. VisitedTo(bk, p) = FoldLeft(LAMBDA c, x : ApplyStored(bk, Exits(bk, c, x), x), bk.image, order)
        BY DEF VisitedTo, order, names
    <2> QED
        BY <1>3, <2>1 DEF FoldLeft, MapThenFoldSet
<1> HIDE DEF iter, Body
<1>12. VisitedTo(bk, p) \in Books
    <2>1. Runs(iter, n, order, Books, bk.image, step)
        BY <1>1, <1>3, <1>4, <1>10, FoldOfAListRuns
    <2> QED
        BY <1>3, <1>11, <2>1 DEF Runs
<1>13. ASSUME CanReplay(bk) PROVE Visited(bk, p, names, VisitedTo(bk, p))
    <2> DEFINE Seen(m) == {order[j] : j \in 1..m}
               G == {x \in Nat \X Books : Visited(bk, p, Seen(x[1]), x[2])}
    <2>1. <<0, bk.image>> \in G
        <3>1. Visited(bk, p, Seen(0), bk.image)
            <4>1. Seen(0) = {}
                OBVIOUS
            <4>2. Visited(bk, p, {}, bk.image)
                BY <1>1, <1>13 DEF Visited, CanReplay
            <4> QED
                BY <4>1, <4>2
        <3> HIDE DEF Seen
        <3> QED
            BY <1>1, <3>1
    <2>2. ASSUME NEW m \in 1..n, NEW v \in Books, <<m - 1, v>> \in G
          PROVE  <<m, step[<<v, order[m]>>]>> \in G
        <3> DEFINE q == order[m]
                   c == ApplyStored(bk, Exits(bk, v, q), q)
                   seen == Seen(m - 1)
        <3>1. Visited(bk, p, seen, v)
            BY <2>2
        <3>2. q \in names /\ q \in DOMAIN bk.bars /\ q # p
            BY <1>1, <1>3
        <3>3. q \notin seen
            <4>1. \A j \in 1..(m - 1) : j \in 1..n /\ j # m
                BY <1>3
            <4> QED
                BY <1>2, <4>1 DEF Lists
        <3>4. Seen(m) = seen \cup {q}
            <4>1. 1..m = 1..(m - 1) \cup {m}
                BY <1>3
            <4> QED
                BY <4>1
        <3> HIDE DEF seen, Seen, c, q
        <3>5. Visited(bk, p, seen \cup {q}, c)
            BY <1>1, <1>13, <3>1, <3>2, <3>3, VisitedMore DEF c
        <3>6. c \in Books
            BY <3>5 DEF Visited
        <3>7. step[<<v, q>>] = c
            BY <1>5, <3>2 DEF c
        <3>8. Visited(bk, p, Seen(m), c) /\ m \in Nat
            BY <1>3, <3>4, <3>5
        <3>9. <<m, c>> \in G
            BY <3>6, <3>8
        <3> QED
            BY <3>7, <3>9 DEF q
    <2> HIDE DEF G
    <2>3. <<n, iter[1..n]>> \in G
        <3>1. KeptBySteps(G, n, order, Books, step)
            BY <2>2 DEF KeptBySteps
        <3> QED
            BY <1>1, <1>3, <1>4, <1>10, <2>1, <3>1, FoldOfAListKeeps
    <2>4. Visited(bk, p, Seen(n), VisitedTo(bk, p))
        BY <1>11, <2>3 DEF G
    <2>5. Seen(n) = names
        BY <1>2 DEF Lists
    <2> HIDE DEF Seen
    <2> QED
        BY <2>4, <2>5
<1> QED
    BY <1>12, <1>13 DEF names

CheckSees(bk, p, e) ==
    /\ e \in Books /\ AccountsOf(e)
    /\ <<p, bk.start + 1>> \notin DOMAIN e.rows
    /\ e.reentry[p] \in {bk.image.reentry[p], bk.start + 1 + DayBars}
    /\ \A i \in DOMAIN bk.image.open : Pair(i) = p =>
          \/ i \in DOMAIN e.open
          \/ bk.image.open[i].rule
          \/ e.reentry[p] = bk.start + 1 + DayBars

LEMMA ReplayedToSees ==
    ASSUME NEW bk \in Buckets, NEW p \in DOMAIN bk.bars
    PROVE  /\ ReplayedTo(bk, p) \in Books
           /\ CanReplay(bk) => CheckSees(bk, p, ReplayedTo(bk, p))
<1> DEFINE S == {q \in DOMAIN bk.bars : q < p}
           T == {i \in Ids : Pair(i) = p}
           id == <<p, bk.start + 1>>
<1>1. PICK b \in Books : b = VisitedTo(bk, p) /\ (CanReplay(bk) => Visited(bk, p, S, b))
    BY VisitedToKeeps
<1>2. PICK e \in Books : e = ReplayedTo(bk, p) /\ (AccountsOf(b) => Exiting(bk, T, b, e))
    <2>1. ReplayedTo(bk, p) = Exits(bk, b, p)
        BY <1>1 DEF ReplayedTo, VisitedTo
    <2> QED
        BY <1>1, <2>1, ExitsKeeps
<1>3. ASSUME CanReplay(bk) PROVE CheckSees(bk, p, e)
    <2>1. Visited(bk, p, S, b) /\ Exiting(bk, T, b, e) /\ AccountsOf(e)
        BY <1>1, <1>2, <1>3 DEF Visited, Exiting
    <2>2. Pair(id) = p /\ Signal(id) = bk.start + 1 /\ bk.start \in Nat /\ p \in Pairs /\ p \notin S
        <3>1. Pair(id) = p /\ Signal(id) = bk.start + 1
            BY DEF Pair, Signal
        <3>2. bk.start \in Nat /\ p \in Nat /\ p \in Pairs
            BY BucketParts, PairsAssumption
        <3> QED
            BY <3>1, <3>2
    <2> HIDE DEF S, T, id
    <2>3. id \notin DOMAIN e.rows
        <3>1. id \notin DOMAIN bk.image.rows
            BY <1>3, <2>2 DEF CanReplay
        <3>2. id \notin DOMAIN b.rows
            BY <2>1, <2>2, <3>1 DEF Visited
        <3> QED
            BY <2>1, <3>2 DEF Exiting
    <2>4. e.reentry[p] \in {bk.image.reentry[p], bk.start + 1 + DayBars}
        BY <2>1, <2>2 DEF Visited, Exiting
    <2>5. ASSUME NEW i \in DOMAIN bk.image.open, Pair(i) = p
          PROVE  \/ i \in DOMAIN e.open
                 \/ bk.image.open[i].rule
                 \/ e.reentry[p] = bk.start + 1 + DayBars
        <3>1. i \in DOMAIN b.open /\ b.open[i] = bk.image.open[i]
            BY <2>1, <2>5 DEF Visited
        <3>2. CASE i \notin DOMAIN e.open
            <4>1. ExitedRow(bk, b, e, i)
                BY <2>1, <3>1, <3>2 DEF Exiting, Gone
            <4> QED
                BY <2>5, <3>1, <4>1 DEF ExitedRow
        <3> QED
            BY <3>2
    <2> QED
        BY <2>1, <2>3, <2>4, <2>5 DEF CheckSees, id
<1> QED
    BY <1>2, <1>3

(* The check of an order: it adds nothing, or the row of the order, and it is   *)
(* no skip only where the pair holds nothing and may be entered again.        *)
MayEnter(e, id) ==
    /\ \A i \in DOMAIN e.open : Pair(i) # Pair(id)
    /\ e.reentry[Pair(id)] <= Signal(id)

IsRecorded(e, id, fill, why, c) ==
    /\ c \in Books
    /\ c.rows = Merged(e.rows, Entry(id, NewRow(fill, why)))
    /\ c.resting = e.resting \cup (IF fill = "pending" THEN {id} ELSE {})

Added(e, id, c) ==
    \E fill \in {"skip", "pending", "nofill"}, why \in Whys :
        /\ IsRecorded(e, id, fill, why, c)
        /\ why # "cap" /\ (why = "nofill" => fill = "nofill")
        /\ fill # "skip" => MayEnter(e, id)
        /\ why = "nofill" => clock >= Signal(id) + Window

LEMMA RowsAdded ==
    ASSUME NEW e \in Books, NEW id \in Ids, NEW fill \in {"skip", "pending", "nofill"},
           NEW why \in Whys, NEW last \in Nat, NEW more \in SUBSET {id},
           more = IF fill = "pending" THEN {id} ELSE {}, NEW c,
           c = [e EXCEPT !.rows = Merged(@, Entry(id, NewRow(fill, why))), !.resting = @ \cup more,
                         !.last = last]
    PROVE  IsRecorded(e, id, fill, why, c)
<1> DEFINE rows == Merged(e.rows, Entry(id, NewRow(fill, why)))
           resting == e.resting \cup more
<1>1. NewRow(fill, why) \in Row
    BY Numbers DEF NewRow, Row, Never
<1>2. Entry(id, NewRow(fill, why)) \in Maps(Ids, Row)
    BY <1>1, EntryIsAMap
<1>3. e.rows \in Maps(Ids, Row) /\ e.resting \in SUBSET Ids
    BY BookParts
<1>4. rows \in Maps(Ids, Row)
    BY <1>2, <1>3, MergedIsAMap
<1>5. resting \in SUBSET Ids
    BY <1>3
<1>6. c = [e EXCEPT !.rows = rows, !.resting = resting, !.last = last]
    OBVIOUS
<1> HIDE DEF rows, resting
<1>7. c \in Books /\ c.rows = rows /\ c.resting = resting
    BY <1>4, <1>5, <1>6 DEF Books
<1> QED
    BY <1>7 DEF rows, resting, IsRecorded

LEMMA CheckedIs ==
    ASSUME NEW e \in Books, NEW id \in Ids, NEW quote \in Quotes,
           NEW c, c = Checked(e, id, quote)
    PROVE  c = e \/ Added(e, id, c)
<1> DEFINE p == Pair(id)
           printed == \E t \in prints[p] : InWindow(id, t)
           Rec(fill, why, more, last) ==
               [e EXCEPT !.rows = Merged(@, Entry(id, NewRow(fill, why))), !.resting = @ \cup more,
                         !.last = last]
<1>1. Signal(id) \in Nat /\ e.last \in Nat /\ p \in Pairs /\ e.reentry[p] \in Nat
    BY BookParts, IdsAre
<1>2. /\ "veto" \in Whys /\ "kill" \in Whys /\ "quote" \in Whys /\ "pair" \in Whys
      /\ "reentry" \in Whys /\ "outOfOrder" \in Whys /\ "nofill" \in Whys /\ "none" \in Whys
      /\ "noTick" \in Whys
    BY DEF Whys
<1>3. ASSUME NEW why \in Whys, why \notin {"cap", "nofill"},
             NEW last \in Nat, c = Rec("skip", why, {}, last)
      PROVE  Added(e, id, c)
    <2>1. IsRecorded(e, id, "skip", why, c)
        <3>1. {} \in SUBSET {id} /\ {} = (IF "skip" = "pending" THEN {id} ELSE {})
              /\ "skip" \in {"skip", "pending", "nofill"}
            OBVIOUS
        <3> QED
            BY <1>3, <3>1, RowsAdded
    <2> QED
        BY <1>3, <2>1 DEF Added
<1>4. e.resting \cup {} = e.resting
    OBVIOUS
<1>5. \A why : Skipped(e, id, why) = Rec("skip", why, {}, Signal(id))
    BY <1>4 DEF Skipped, Recorded, Books
<1>6. CASE quote = "quiet"
    BY <1>6 DEF Checked
<1>7. CASE quote # "quiet" /\ Signal(id) < e.last
    <2>1. c = [e EXCEPT !.rows = Merged(@, Entry(id, NewRow("skip", "outOfOrder")))]
        BY <1>7 DEF Checked
    <2>2. c = Rec("skip", "outOfOrder", {}, e.last)
        BY <1>4, <2>1 DEF Books
    <2> QED
        BY <1>1, <1>2, <1>3, <2>2
<1>8. CASE quote # "quiet" /\ ~(Signal(id) < e.last)
    <2>1. c = IF quote = "vetoed" THEN Skipped(e, id, "veto")
              ELSE IF e.killed THEN Skipped(e, id, "kill")
              ELSE IF quote = "wide" THEN Skipped(e, id, "quote")
              ELSE IF \E i \in DOMAIN e.open : Pair(i) = p THEN Skipped(e, id, "pair")
              ELSE IF Signal(id) < e.reentry[p] THEN Skipped(e, id, "reentry")
              ELSE IF p \notin ticks THEN Recorded(e, id, "nofill", "noTick")
              ELSE IF ~printed /\ clock >= Signal(id) + Window
                   THEN Recorded(e, id, "nofill", "nofill")
              ELSE [Recorded(e, id, "pending", "none") EXCEPT !.resting = @ \cup {id}]
        BY <1>8 DEF Checked
    <2>2. \A why \in {"veto", "kill", "quote", "pair", "reentry"} :
            c = Skipped(e, id, why) => Added(e, id, c)
        <3> SUFFICES ASSUME NEW why \in {"veto", "kill", "quote", "pair", "reentry"},
                            c = Skipped(e, id, why)
                     PROVE  Added(e, id, c)
            OBVIOUS
        <3>1. c = Rec("skip", why, {}, Signal(id))
            BY <1>5
        <3>2. why \in Whys /\ why \notin {"cap", "nofill"}
            BY <1>2
        <3> HIDE DEF Rec
        <3> QED
            BY <1>1, <1>3, <3>1, <3>2
    <2>3. CASE (\A i \in DOMAIN e.open : Pair(i) # p) /\ ~(Signal(id) < e.reentry[p])
        <3>1. MayEnter(e, id)
            BY <1>1, <2>3 DEF MayEnter
        <3>2. ASSUME NEW why \in {"nofill", "noTick"}, c = Recorded(e, id, "nofill", why),
                     why = "nofill" => clock >= Signal(id) + Window
              PROVE  Added(e, id, c)
            <4>1. c = Rec("nofill", why, {}, Signal(id)) /\ why \in Whys
                BY <1>2, <1>4, <3>2 DEF Recorded, Books
            <4>2. {} \in SUBSET {id} /\ {} = (IF "nofill" = "pending" THEN {id} ELSE {})
                  /\ "nofill" \in {"skip", "pending", "nofill"}
                OBVIOUS
            <4>3. IsRecorded(e, id, "nofill", why, c)
                BY <1>1, <4>1, <4>2, RowsAdded
            <4> QED
                BY <1>2, <3>1, <3>2, <4>2, <4>3 DEF Added
        <3>3. ASSUME c = [Recorded(e, id, "pending", "none") EXCEPT !.resting = @ \cup {id}]
              PROVE  Added(e, id, c)
            <4>1. c = Rec("pending", "none", {id}, Signal(id))
                BY <3>3 DEF Recorded, Books
            <4>2. {id} \in SUBSET {id} /\ {id} = (IF "pending" = "pending" THEN {id} ELSE {})
                  /\ "pending" \in {"skip", "pending", "nofill"}
                OBVIOUS
            <4>3. IsRecorded(e, id, "pending", "none", c)
                BY <1>1, <1>2, <4>1, <4>2, RowsAdded
            <4> QED
                BY <1>2, <3>1, <4>2, <4>3 DEF Added
        <3> HIDE DEF printed, p
        <3> QED
            BY <2>1, <2>2, <3>2, <3>3
    <2>4. CASE ~((\A i \in DOMAIN e.open : Pair(i) # p) /\ ~(Signal(id) < e.reentry[p]))
        <3> HIDE DEF printed, p
        <3> QED
            BY <2>1, <2>2, <2>4
    <2> QED
        BY <2>3, <2>4
<1> QED
    BY <1>6, <1>7, <1>8

HasNofill(d) == \E i \in DOMAIN d.rows : d.rows[i].why = "nofill"

(* The decision of a check that sees no row of its own signal.               *)
LEMMA DecisionIs ==
    ASSUME NEW bk \in Buckets, NEW p \in Pairs, NEW e, CheckSees(bk, p, e),
           NEW id \in Ids, id = <<p, bk.start + 1>>,
           NEW c, c = e \/ Added(e, id, c), NEW d, d = Decision(e, c)
    PROVE  /\ d \in Decisions /\ IsDecision(bk, p, d)
           /\ (\E i \in DOMAIN d.rows : d.rows[i].fill # "skip") => MayEnter(e, id)
           /\ HasNofill(d) => clock >= Signal(id) + Window
<1>1. e \in Books /\ AccountsOf(e) /\ id \notin DOMAIN e.rows /\ id \notin e.resting
    BY DEF CheckSees, AccountsOf, Orders
<1>2. c \in Books
    BY <1>1 DEF Added, IsRecorded
<1> DEFINE rows == Restrict(c.rows, DOMAIN c.rows \ DOMAIN e.rows)
           last == IF c.last # e.last THEN c.last ELSE Never
<1>3. d.rows = rows /\ d.resting = c.resting \ e.resting /\ d.last = last
      /\ d = [rows |-> rows, resting |-> c.resting \ e.resting, last |-> last]
    BY DEF Decision
<1>4. /\ rows \in Maps(Ids, Row) /\ DOMAIN rows = DOMAIN c.rows \ DOMAIN e.rows
      /\ \A i \in DOMAIN rows : rows[i] = c.rows[i]
    <2> DEFINE T == DOMAIN c.rows \ DOMAIN e.rows
    <2>1. c.rows \in Maps(Ids, Row) /\ T \in SUBSET DOMAIN c.rows
        BY <1>2, BookParts
    <2> HIDE DEF T
    <2>2. /\ Restrict(c.rows, T) \in Maps(Ids, Row) /\ DOMAIN Restrict(c.rows, T) = T
          /\ \A i \in T : Restrict(c.rows, T)[i] = c.rows[i]
        BY <2>1, RestrictIsAMap
    <2> QED
        BY <2>2 DEF T
<1>5. d \in Decisions
    <2>1. c.resting \ e.resting \in SUBSET Ids /\ last \in Nat
        BY <1>1, <1>2, BookParts DEF Never
    <2> HIDE DEF rows, last
    <2> QED
        BY <1>3, <1>4, <2>1 DEF Decisions
<1> HIDE DEF rows, last
<1>6. CASE c = e
    <2>1. DOMAIN rows = {} /\ d.resting = {}
        BY <1>3, <1>4, <1>6
    <2>2. Orders(rows) = {}
        BY <2>1 DEF Orders
    <2> QED
        BY <1>3, <1>5, <2>1, <2>2 DEF IsDecision, HasNofill
<1>7. CASE Added(e, id, c)
    <2>1. PICK fill \in {"skip", "pending", "nofill"}, why \in Whys :
            /\ IsRecorded(e, id, fill, why, c)
            /\ why # "cap" /\ (why = "nofill" => fill = "nofill")
            /\ fill # "skip" => MayEnter(e, id)
            /\ why = "nofill" => clock >= Signal(id) + Window
        BY <1>7 DEF Added
    <2>2. DOMAIN c.rows = DOMAIN e.rows \cup {id} /\ c.rows[id] = NewRow(fill, why)
        BY <1>1, <2>1 DEF IsRecorded, Merged, Entry
    <2>3. DOMAIN rows = {id} /\ rows[id] = NewRow(fill, why)
        BY <1>1, <1>4, <2>2
    <2>4. IsNew(rows[id]) /\ rows[id].fill = fill /\ rows[id].why = why
        BY <2>1, <2>3 DEF NewRow, IsNew
    <2>5. d.resting = IF fill = "pending" THEN {id} ELSE {}
        BY <1>1, <1>3, <2>1 DEF IsRecorded
    <2>6. d.resting = Orders(rows)
        BY <2>3, <2>4, <2>5 DEF Orders
    <2>7. IsDecision(bk, p, d)
        BY <1>3, <2>3, <2>4, <2>6 DEF IsDecision
    <2>8. (\E i \in DOMAIN d.rows : d.rows[i].fill # "skip") => MayEnter(e, id)
        BY <1>3, <2>1, <2>3, <2>4
    <2>9. HasNofill(d) => clock >= Signal(id) + Window
        BY <1>3, <2>1, <2>3, <2>4 DEF HasNofill
    <2> QED
        BY <1>5, <2>7, <2>8, <2>9
<1> QED
    BY <1>6, <1>7

-----------------------------------------------------------------------------
(* The inductive invariant.                                                  *)

(* What a bucket of bar k may make of a row.                                  *)
RowLater(k, r, q) ==
    /\ r.fill = "skip" => q = r
    /\ r.fill # "skip" => q.fill # "skip"
    /\ r.by # Never => q.by = r.by /\ q.fill = r.fill
    /\ r.by = Never => q.by \in {Never, k}
    /\ r.exit # Never => q.exit = r.exit /\ q.net = r.net
    /\ r.exit = Never => q.exit \in {Never, k + 1}

(* The book is the bucket's image with the bucket's checks, fills and exits.   *)
Follows(b, bk) ==
    /\ DOMAIN b.rows = DOMAIN bk.image.rows \cup NewIds(bk, DOMAIN bk.bars)
    /\ \A i \in DOMAIN b.rows : RowLater(bk.start, Source(bk, i), b.rows[i])

(* The pause after a stop is remembered.                                     *)
Stops(b, i) == b.rows[i].net = -1 => b.rows[i].exit + DayBars <= b.reentry[Pair(i)]

(* NoReentry of any rows.                                                    *)
Barred(r, i, q, j) ==
    Pair(i) = Pair(j) /\ r.net = -1 /\ q.fill # "skip"
        => ~(r.exit <= Signal(j) /\ Signal(j) < r.exit + DayBars)

Spaced(rows) == \A i, j \in DOMAIN rows : i # j => Barred(rows[i], i, rows[j], j)

(* Nothing is later than the bar after reach, and an order still rests only     *)
(* where no print from before it went through its limit.                      *)
UpTo(b, i, reach) ==
    Signal(i) <= reach /\ b.rows[i].exit <= reach /\ Stops(b, i)

Unfilled(i, times, reach) == \A t \in times : InWindow(i, t) => t >= reach

BookOK(b, thr, pr) ==
    /\ b \in Books /\ AccountsOf(b) /\ Spaced(b.rows)
    /\ \A i \in DOMAIN b.rows : UpTo(b, i, thr[Pair(i)] + 1)
    /\ \A i \in b.resting : Unfilled(i, pr[Pair(i)], thr[Pair(i)] + 1)

(* The first bar of a pair that the image does not know.                      *)
Reach(bk, thr, p) == IF p \in DOMAIN bk.bars THEN bk.start ELSE thr[p] + 1

(* An order was checked only where its pair could be entered.                 *)
Clear(bk, p) ==
    (\E i \in DOMAIN bk.decisions[p].rows : bk.decisions[p].rows[i].fill # "skip") =>
        /\ bk.image.reentry[p] <= bk.start + 1
        /\ \A i \in DOMAIN bk.image.open : Pair(i) = p => bk.image.open[i].rule

BucketOK(bk, thr, pr) ==
    /\ bk \in Buckets /\ CanReplay(bk) /\ Spaced(bk.image.rows)
    /\ \A p \in DOMAIN bk.bars : thr[p] = bk.start
    /\ \A i \in DOMAIN bk.image.rows : UpTo(bk.image, i, Reach(bk, thr, Pair(i)))
    /\ \A i \in bk.image.resting : Unfilled(i, pr[Pair(i)], Reach(bk, thr, Pair(i)))
    /\ \A p \in DOMAIN bk.decisions : Clear(bk, p)

ThroughOK(thr) == thr \in [Pairs -> 0..MaxClock]

(* A bucket just opened.                                                     *)
LEMMA NewBucketOK ==
    ASSUME NEW b, NEW thr, NEW pr, BookOK(b, thr, pr), NEW k \in 0..(MaxClock - 1),
           NEW bk, bk = NewBucket(k, b)
    PROVE  BucketOK(bk, thr, pr)
<1>1. /\ bk.start = k /\ bk.bars = EmptyMap /\ bk.image = b /\ bk.decisions = EmptyMap
      /\ bk = [start |-> k, bars |-> EmptyMap, image |-> b, decisions |-> EmptyMap]
    BY DEF NewBucket
<1>2. DOMAIN bk.bars = {} /\ DOMAIN bk.decisions = {}
    BY <1>1 DEF EmptyMap
<1>3. EmptyMap \in Maps(Pairs, Bars) /\ EmptyMap \in Maps(Pairs, Decisions)
    BY MapsAre DEF EmptyMap
<1>4. b \in Books
    BY DEF BookOK
<1>5. bk \in Buckets
    BY <1>1, <1>3, <1>4 DEF Buckets
<1>6. CanReplay(bk)
    BY <1>1, <1>2 DEF CanReplay, BookOK
<1>7. \A p : Reach(bk, thr, p) = thr[p] + 1
    BY <1>2 DEF Reach
<1> QED
    BY <1>1, <1>2, <1>5, <1>6, <1>7 DEF BucketOK, BookOK

(* A bar that arrives in its bucket.                                         *)
LEMMA AddBar ==
    ASSUME NEW bk, NEW thr, ThroughOK(thr), NEW pr, pr \in [Pairs -> SUBSET (0..MaxClock)],
           BucketOK(bk, thr, pr), NEW p \in Pairs, NEW bar \in Bars,
           thr[p] < bk.start, \A t \in (thr[p] + 1)..(bk.start - 1) : t \notin pr[p],
           NEW c, c = [bk EXCEPT !.bars = Merged(@, Entry(p, bar))]
    PROVE  BucketOK(c, [thr EXCEPT ![p] = bk.start], pr) /\ p \in DOMAIN c.bars
<1> DEFINE thr1 == [thr EXCEPT ![p] = bk.start]
           bars == Merged(bk.bars, Entry(p, bar))
<1>0. bk \in Buckets
    BY DEF BucketOK
<1>1. /\ bk.start \in 0..(MaxClock - 1) /\ DOMAIN bk.bars \subseteq Pairs
      /\ bk.bars \in Maps(Pairs, Bars) /\ bk.image \in Books
      /\ bk.decisions \in Maps(Pairs, Decisions)
    BY <1>0, BucketParts
<1>2. p \notin DOMAIN bk.bars
    <2>1. thr[p] # bk.start
        BY <1>1 DEF ThroughOK
    <2> QED
        BY <2>1 DEF BucketOK
<1>3. bars \in Maps(Pairs, Bars) /\ DOMAIN bars = DOMAIN bk.bars \cup {p}
    <2>1. Entry(p, bar) \in Maps(Pairs, Bars)
        BY EntryIsAMap
    <2> QED
        BY <1>1, <2>1, MergedIsAMap DEF Merged, Entry
<1> HIDE DEF bars
<1>4. c = [bk EXCEPT !.bars = bars]
    BY DEF bars
<1>5. /\ c \in Buckets /\ c.bars = bars /\ c.start = bk.start /\ c.image = bk.image
      /\ c.decisions = bk.decisions
    BY <1>0, <1>1, <1>3, <1>4 DEF Buckets
<1>6. \A q \in Pairs : thr1[q] = IF q = p THEN bk.start ELSE thr[q]
    BY DEF ThroughOK
<1> HIDE DEF thr1
<1>7. \A q \in Pairs : Reach(c, thr1, q) = IF q = p THEN bk.start ELSE Reach(bk, thr, q)
    BY <1>3, <1>5, <1>6 DEF Reach
<1>8. Reach(bk, thr, p) = thr[p] + 1
    BY <1>2 DEF Reach
<1>9. \A i \in DOMAIN bk.image.rows : Pair(i) \in Pairs /\ i \in Ids
    BY <1>1, BookParts, IdsAre
<1>10. ASSUME NEW i \in DOMAIN bk.image.rows
       PROVE  UpTo(c.image, i, Reach(c, thr1, Pair(i)))
    <2>1. UpTo(bk.image, i, Reach(bk, thr, Pair(i)))
        BY DEF BucketOK
    <2>2. CASE Pair(i) # p
        BY <1>5, <1>7, <1>9, <2>1, <2>2
    <2>3. CASE Pair(i) = p
        <3>1. Signal(i) \in Nat /\ bk.image.rows[i] \in Row
            BY <1>1, <1>9, BookParts, IdsAre
        <3>2. bk.image.rows[i].exit \in Nat
            BY <3>1 DEF Row
        <3>3. thr[p] \in Nat /\ thr[p] + 1 <= bk.start /\ bk.start \in Nat
            BY <1>1 DEF ThroughOK
        <3>4. Signal(i) <= thr[p] + 1 /\ bk.image.rows[i].exit <= thr[p] + 1 /\ Stops(bk.image, i)
            BY <1>8, <2>1, <2>3 DEF UpTo
        <3>5. Signal(i) <= bk.start /\ bk.image.rows[i].exit <= bk.start
            BY <3>1, <3>2, <3>3, <3>4
        <3> QED
            BY <1>5, <1>7, <2>3, <3>4, <3>5 DEF UpTo
    <2> QED
        BY <2>2, <2>3
<1>11. ASSUME NEW i \in bk.image.resting
       PROVE  Unfilled(i, pr[Pair(i)], Reach(c, thr1, Pair(i)))
    <2>0. Pair(i) \in Pairs
        BY <1>1, BookParts, IdsAre
    <2>1. Unfilled(i, pr[Pair(i)], Reach(bk, thr, Pair(i)))
        BY DEF BucketOK
    <2>2. CASE Pair(i) # p
        BY <1>7, <2>0, <2>1, <2>2
    <2>3. CASE Pair(i) = p
        <3> SUFFICES ASSUME NEW t \in pr[p], InWindow(i, t)
                     PROVE  t >= bk.start
            BY <1>7, <2>0, <2>3 DEF Unfilled
        <3>1. t >= thr[p] + 1
            BY <1>8, <2>1, <2>3 DEF Unfilled
        <3>2. t \in Nat /\ thr[p] \in Nat /\ bk.start \in Nat
            BY <1>1 DEF ThroughOK
        <3>3. t \notin (thr[p] + 1)..(bk.start - 1)
            OBVIOUS
        <3> QED
            BY <3>1, <3>2, <3>3
    <2> QED
        BY <2>2, <2>3
<1>12. CanReplay(c)
    <2>1. \A i \in DOMAIN c.image.rows : Pair(i) \in DOMAIN c.bars => Signal(i) <= c.start
        <3> SUFFICES ASSUME NEW i \in DOMAIN bk.image.rows, Pair(i) \in DOMAIN c.bars
                     PROVE  Signal(i) <= bk.start
            BY <1>5
        <3>1. Reach(c, thr1, Pair(i)) = bk.start
            BY <1>5 DEF Reach
        <3> QED
            BY <1>10, <3>1 DEF UpTo
    <2>2. AccountsOf(bk.image) /\ DOMAIN bk.decisions \subseteq DOMAIN bk.bars
        BY DEF BucketOK, CanReplay
    <2>3. \A q \in DOMAIN bk.decisions : IsDecision(bk, q, bk.decisions[q])
        BY DEF BucketOK, CanReplay
    <2>4. \A q \in DOMAIN c.decisions : IsDecision(c, q, c.decisions[q])
        BY <1>5, <2>3 DEF IsDecision
    <2>5. DOMAIN c.decisions \subseteq DOMAIN c.bars
        BY <1>3, <1>5, <2>2
    <2> QED
        BY <1>5, <2>1, <2>2, <2>4, <2>5 DEF CanReplay
<1>13. \A q \in DOMAIN c.bars : thr1[q] = c.start
    <2>1. \A q \in DOMAIN bk.bars : thr[q] = bk.start
        BY DEF BucketOK
    <2> QED
        BY <1>1, <1>3, <1>5, <1>6, <2>1
<1>14. \A q \in DOMAIN c.decisions : Clear(c, q)
    <2>1. \A q \in DOMAIN bk.decisions : Clear(bk, q)
        BY DEF BucketOK
    <2> QED
        BY <1>5, <2>1 DEF Clear
<1>15. Spaced(c.image.rows)
    BY <1>5 DEF BucketOK
<1>16. BucketOK(c, thr1, pr)
    BY <1>5, <1>10, <1>11, <1>12, <1>13, <1>14, <1>15 DEF BucketOK
<1> QED
    BY <1>3, <1>5, <1>16 DEF thr1

(* A check that is remembered.                                               *)
LEMMA RememberOK ==
    ASSUME NEW bk, NEW thr, NEW pr, BucketOK(bk, thr, pr), NEW p \in DOMAIN bk.bars,
           p \notin DOMAIN bk.decisions, NEW d \in Decisions, IsDecision(bk, p, d),
           (\E i \in DOMAIN d.rows : d.rows[i].fill # "skip") =>
                /\ bk.image.reentry[p] <= bk.start + 1
                /\ \A i \in DOMAIN bk.image.open : Pair(i) = p => bk.image.open[i].rule,
           NEW c, c = Remember(bk, p, d)
    PROVE  BucketOK(c, thr, pr)
<1> DEFINE decisions == Merged(bk.decisions, Entry(p, d))
<1>0. bk \in Buckets /\ CanReplay(bk)
    BY DEF BucketOK
<1>1. /\ bk.start \in 0..(MaxClock - 1) /\ DOMAIN bk.bars \subseteq Pairs
      /\ bk.image \in Books /\ bk.decisions \in Maps(Pairs, Decisions)
    BY <1>0, BucketParts
<1>2. decisions \in Maps(Pairs, Decisions)
    <2>1. Entry(p, d) \in Maps(Pairs, Decisions)
        BY <1>1, EntryIsAMap
    <2> QED
        BY <1>1, <2>1, MergedIsAMap
<1>3. /\ DOMAIN decisions = DOMAIN bk.decisions \cup {p}
      /\ \A q \in DOMAIN bk.decisions : decisions[q] = bk.decisions[q]
      /\ decisions[p] = d
    BY DEF Merged, Entry
<1>4. c = [bk EXCEPT !.decisions = decisions]
    BY DEF Remember
<1> HIDE DEF decisions
<1>5. /\ c \in Buckets /\ c.bars = bk.bars /\ c.start = bk.start /\ c.image = bk.image
      /\ c.decisions = decisions
    BY <1>0, <1>1, <1>2, <1>4 DEF Buckets
<1>6. CanReplay(c)
    <2>1. \A q \in DOMAIN bk.decisions : IsDecision(bk, q, bk.decisions[q])
        BY <1>0 DEF CanReplay
    <2>2. \A q \in DOMAIN c.decisions : IsDecision(bk, q, c.decisions[q])
        BY <1>3, <1>5, <2>1
    <2>3. \A q \in DOMAIN c.decisions : IsDecision(c, q, c.decisions[q])
        BY <1>5, <2>2 DEF IsDecision
    <2>4. DOMAIN c.decisions \subseteq DOMAIN c.bars
        BY <1>0, <1>3, <1>5 DEF CanReplay
    <2>5. /\ AccountsOf(bk.image)
          /\ \A i \in DOMAIN bk.image.rows : Pair(i) \in DOMAIN bk.bars => Signal(i) <= bk.start
        BY <1>0 DEF CanReplay
    <2> QED
        BY <1>5, <2>3, <2>4, <2>5 DEF CanReplay
<1>7. \A q \in DOMAIN c.decisions : Clear(c, q)
    <2>1. \A q \in DOMAIN bk.decisions : Clear(bk, q)
        BY DEF BucketOK
    <2>2. \A q \in DOMAIN bk.decisions : Clear(c, q)
        BY <1>3, <1>5, <2>1 DEF Clear
    <2>3. Clear(c, p)
        BY <1>3, <1>5 DEF Clear
    <2> QED
        BY <1>3, <1>5, <2>2, <2>3
<1>8. \A q : Reach(c, thr, q) = Reach(bk, thr, q)
    BY <1>5 DEF Reach
<1> QED
    BY <1>5, <1>6, <1>7, <1>8 DEF BucketOK

(* A row that the replay leaves without a new exit, and one that it ends.      *)
Stayed(bk, c, i) == c.rows[i].exit = Source(bk, i).exit /\ c.rows[i].net = Source(bk, i).net

Left(bk, c, i) ==
    /\ Pair(i) \in DOMAIN bk.bars /\ c.rows[i].exit = bk.start + 1
    /\ \/ c.rows[i].net = 1
       \/ /\ c.rows[i].net = -1 /\ c.reentry[Pair(i)] = bk.start + 1 + DayBars
          /\ \/ i \in DOMAIN bk.image.open /\ ~bk.image.open[i].rule
             \/ /\ Source(bk, i).fill = "pending"
                /\ FillBar(bk, i) # Never /\ FillBar(bk, i) <= bk.start + 1

(* A book after the replay of the bucket.                                     *)
Ends(bk, c) ==
    /\ \A i \in DOMAIN c.rows : Stayed(bk, c, i) \/ Left(bk, c, i)
    /\ \A i \in c.resting : Source(bk, i).fill = "pending" /\ FillBar(bk, i) = Never
    /\ \A q \in Pairs : \/ c.reentry[q] = bk.image.reentry[q]
                        \/ q \in DOMAIN bk.bars /\ c.reentry[q] = bk.start + 1 + DayBars

LEMMA ReplayedFollows ==
    ASSUME TimesOK, NEW bk, bk \in Buckets, CanReplay(bk), NEW c, c = Replayed(bk)
    PROVE  c \in Books /\ AccountsOf(c) /\ Follows(c, bk) /\ Ends(bk, c)
<1>1. PICK a : a = Stored(bk)
    OBVIOUS
<1>2. PICK b : b = Resolved(bk, a)
    OBVIOUS
<1> DEFINE T == Of(DOMAIN bk.bars)
<1>3. Storing(bk, DOMAIN bk.bars, a) /\ ResolvedIs(bk, a, b) /\ Exiting(bk, T, b, c)
    BY <1>1, <1>2, ReplayStages
<1>4. \A i \in T : Pair(i) \in DOMAIN bk.bars
    BY DEF Of
<1> HIDE DEF T
<1>5. /\ a \in Books /\ AccountsOf(a) /\ b \in Books /\ AccountsOf(b) /\ c \in Books /\ AccountsOf(c)
    BY <1>3 DEF Storing, ResolvedIs, Resolving, Exiting
<1>6. /\ a.open = bk.image.open /\ a.reentry = bk.image.reentry
      /\ DOMAIN a.rows = DOMAIN bk.image.rows \cup NewIds(bk, DOMAIN bk.bars)
      /\ \A i \in DOMAIN a.rows : a.rows[i] = Source(bk, i)
    BY <1>3 DEF Storing
<1>7. /\ DOMAIN b.rows = DOMAIN a.rows
      /\ \A i \in DOMAIN a.rows : ResolvedRow(bk.start, a.rows[i], b.rows[i])
      /\ b.resting \subseteq a.resting /\ b.reentry = a.reentry
      /\ \A i \in DOMAIN a.open : i \in DOMAIN b.open /\ b.open[i] = a.open[i]
      /\ \A i \in DOMAIN b.open : i \notin DOMAIN a.open =>
            i \in a.resting /\ FillBar(bk, i) # Never /\ b.open[i].entry = FillBar(bk, i)
      /\ \A i \in b.resting : FillBar(bk, i) = Never
    BY <1>3 DEF ResolvedIs, Resolving
<1>8. /\ DOMAIN c.rows = DOMAIN b.rows /\ c.resting = b.resting
      /\ DOMAIN c.open \subseteq DOMAIN b.open
      /\ \A i \in DOMAIN b.rows : i \notin Gone(b, c) => c.rows[i] = b.rows[i]
      /\ \A i \in Gone(b, c) : i \in T /\ ExitedRow(bk, b, c, i)
      /\ \A q \in Pairs : c.reentry[q] \in {b.reentry[q], bk.start + 1 + DayBars}
      /\ \A q \in Pairs : (\A i \in T : Pair(i) # q) => c.reentry[q] = b.reentry[q]
    BY <1>3 DEF Exiting
<1>9. /\ a.resting = {i \in DOMAIN a.rows : a.rows[i].fill = "pending"}
      /\ DOMAIN b.open = {i \in DOMAIN b.rows : b.rows[i].fill = "fill" /\ b.rows[i].exit = Never}
      /\ \A i \in DOMAIN a.rows : IsSettled(a.rows[i])
    BY <1>5 DEF AccountsOf, Orders, Positions
<1>10. Gone(b, c) \subseteq DOMAIN b.open
    BY DEF Gone
<1>11. ASSUME NEW i \in DOMAIN c.rows
       PROVE  RowLater(bk.start, Source(bk, i), c.rows[i]) /\ (Stayed(bk, c, i) \/ Left(bk, c, i))
    <2>0. i \in DOMAIN a.rows /\ i \in DOMAIN b.rows /\ a.rows[i] = Source(bk, i)
        BY <1>6, <1>7, <1>8
    <2>1. ResolvedRow(bk.start, a.rows[i], b.rows[i]) /\ IsSettled(a.rows[i])
        BY <1>7, <1>9, <2>0
    <2>2. RowLater(bk.start, a.rows[i], b.rows[i])
          /\ b.rows[i].exit = a.rows[i].exit /\ b.rows[i].net = a.rows[i].net
        BY <2>1 DEF ResolvedRow, RowLater, IsSettled
    <2>3. CASE i \notin Gone(b, c)
        BY <1>8, <2>0, <2>2, <2>3 DEF Stayed
    <2>4. CASE i \in Gone(b, c)
        <3>1. i \in T /\ ExitedRow(bk, b, c, i) /\ i \in DOMAIN b.open /\ Pair(i) \in DOMAIN bk.bars
            BY <1>4, <1>8, <1>10, <2>4
        <3>2. b.rows[i].fill = "fill" /\ b.rows[i].exit = Never
            BY <1>9, <3>1
        <3>3. /\ b.open[i].entry <= bk.start + 1
              /\ c.rows[i].fill = b.rows[i].fill /\ c.rows[i].by = b.rows[i].by
              /\ c.rows[i].why = b.rows[i].why /\ c.rows[i].at = b.rows[i].at
              /\ c.rows[i].exit = bk.start + 1
              /\ c.rows[i].net = IF b.open[i].rule THEN 1 ELSE -1
              /\ ~b.open[i].rule => c.reentry[Pair(i)] = bk.start + 1 + DayBars
            BY <3>1 DEF ExitedRow
        <3>4. RowLater(bk.start, a.rows[i], c.rows[i])
            BY <2>2, <3>2, <3>3 DEF RowLater
        <3>5. CASE b.open[i].rule
            BY <2>0, <3>1, <3>3, <3>4, <3>5 DEF Left
        <3>6. CASE ~b.open[i].rule
            <4>1. c.rows[i].net = -1 /\ c.reentry[Pair(i)] = bk.start + 1 + DayBars
                BY <3>3, <3>6
            <4>2. CASE i \in DOMAIN a.open
                <5>1. i \in DOMAIN bk.image.open /\ ~bk.image.open[i].rule
                    BY <1>6, <1>7, <3>6, <4>2
                <5> QED
                    BY <2>0, <3>1, <3>3, <3>4, <4>1, <5>1 DEF Left
            <4>3. CASE i \notin DOMAIN a.open
                <5>1. i \in a.resting /\ FillBar(bk, i) # Never /\ FillBar(bk, i) <= bk.start + 1
                    BY <1>7, <3>1, <3>3, <4>3
                <5>2. Source(bk, i).fill = "pending"
                    BY <1>9, <2>0, <5>1
                <5> QED
                    BY <2>0, <3>1, <3>3, <3>4, <4>1, <5>1, <5>2 DEF Left
            <4> QED
                BY <4>2, <4>3
        <3> QED
            BY <3>5, <3>6
    <2> QED
        BY <2>3, <2>4
<1>12. \A i \in c.resting : Source(bk, i).fill = "pending" /\ FillBar(bk, i) = Never
    BY <1>6, <1>7, <1>8, <1>9
<1>13. ASSUME NEW q \in Pairs
       PROVE  \/ c.reentry[q] = bk.image.reentry[q]
              \/ q \in DOMAIN bk.bars /\ c.reentry[q] = bk.start + 1 + DayBars
    BY <1>4, <1>6, <1>7, <1>8
<1>14. Follows(c, bk)
    BY <1>6, <1>7, <1>8, <1>11 DEF Follows
<1>15. Ends(bk, c)
    BY <1>11, <1>12, <1>13 DEF Ends
<1> QED
    BY <1>5, <1>14, <1>15

LEMMA Multiple ==
    ASSUME NEW D \in Nat \ {0}, NEW s \in Nat, s % D = 0
    PROVE  \E m \in Int : s = D * m
OBVIOUS

(* Two signal times less than a day apart are one.                            *)
LEMMA SignalsAreADayApart ==
    ASSUME NEW s \in Nat, NEW t \in Nat, s % DayBars = 0, t % DayBars = 0, s < t
    PROVE  s + DayBars <= t
<1> DEFINE D == DayBars
<1>0. D \in Nat \ {0}
    BY Numbers
<1> HIDE DEF D
<1>1. s % D = 0 /\ t % D = 0
    BY DEF D
<1>a. PICK m \in Int : s = D * m
    BY <1>0, <1>1, Multiple
<1>b. PICK n \in Int : t = D * n
    BY <1>0, <1>1, Multiple
<1>2. m < n
    <2>1. CASE n <= m
        <3>1. D * n <= D * m
            BY <1>0, <2>1
        <3> QED
            BY <1>a, <1>b, <3>1
    <2> QED
        BY <1>a, <1>b, <2>1
<1>3. D * (m + 1) <= D * n
    BY <1>0, <1>2
<1>4. D * (m + 1) = D * m + D
    BY <1>0
<1> QED
    BY <1>a, <1>b, <1>3, <1>4 DEF D

(* Replays.                                                                  *)
LEMMA ReplayedUpTo ==
    ASSUME TimesOK, NEW bk, NEW thr, ThroughOK(thr), NEW pr, BucketOK(bk, thr, pr),
           NEW c, c \in Books, Follows(c, bk), Ends(bk, c), NEW i \in DOMAIN c.rows
    PROVE  UpTo(c, i, thr[Pair(i)] + 1)
<1> DEFINE p == Pair(i)
           q == c.rows[i]
           old == bk.image.rows[i]
<1>0. bk \in Buckets /\ CanReplay(bk)
    BY DEF BucketOK
<1>1. bk.start \in Nat /\ DOMAIN bk.bars \subseteq Pairs /\ bk.image \in Books
    BY <1>0, BucketParts
<1>2. i \in Ids /\ p \in Pairs /\ Signal(i) \in Nat /\ q \in Row
    BY BookParts, IdsAre
<1>3. thr[p] \in Nat /\ (p \in DOMAIN bk.bars => thr[p] = bk.start)
    BY <1>2 DEF ThroughOK, BucketOK
<1>4. DayBars \in Nat /\ c.reentry[p] \in Nat /\ bk.image.reentry[p] \in Nat
    BY <1>1, <1>2, BookParts, Numbers
<1>5. ASSUME i \in NewIds(bk, DOMAIN bk.bars)
      PROVE  Signal(i) <= thr[p] + 1 /\ (i \notin DOMAIN bk.image.rows =>
                Source(bk, i).exit = Never /\ Source(bk, i).net = 0)
    <2>1. /\ p \in DOMAIN bk.bars /\ Signal(i) = bk.start + 1
          /\ IsNew(bk.decisions[p].rows[i])
        BY <1>0, <1>5, NewIdsAre
    <2> QED
        BY <1>1, <1>3, <2>1 DEF IsNew, Source
<1>6. ASSUME i \in DOMAIN bk.image.rows
      PROVE  /\ Signal(i) <= thr[p] + 1 /\ Source(bk, i) = old /\ old.exit <= thr[p] + 1
             /\ old.net = -1 => old.exit + DayBars <= bk.image.reentry[p]
             /\ p \in DOMAIN bk.bars => old.exit <= bk.start
             /\ old.exit \in Nat
    <2>1. UpTo(bk.image, i, Reach(bk, thr, p))
        BY <1>6 DEF BucketOK
    <2>2. Signal(i) <= Reach(bk, thr, p) /\ old.exit <= Reach(bk, thr, p) /\ Stops(bk.image, i)
        BY <2>1 DEF UpTo
    <2>3. old.exit \in Nat
        <3>1. old \in Row
            BY <1>1, <1>6, BookParts
        <3> QED
            BY <3>1 DEF Row
    <2>4. Reach(bk, thr, p) \in Nat /\ Reach(bk, thr, p) <= thr[p] + 1
        BY <1>1, <1>3 DEF Reach
    <2>5. p \in DOMAIN bk.bars => Reach(bk, thr, p) = bk.start
        BY DEF Reach
    <2>6. Source(bk, i) = old
        BY <1>6 DEF Source
    <2>7. old.net = -1 => old.exit + DayBars <= bk.image.reentry[p]
        BY <2>2 DEF Stops
    <2>8. Signal(i) <= thr[p] + 1 /\ old.exit <= thr[p] + 1
        BY <1>2, <1>3, <2>2, <2>3, <2>4
    <2>9. p \in DOMAIN bk.bars => old.exit <= bk.start
        BY <2>2, <2>5
    <2> QED
        BY <2>3, <2>6, <2>7, <2>8, <2>9
<1>7. i \in DOMAIN bk.image.rows \/ i \in NewIds(bk, DOMAIN bk.bars)
    BY DEF Follows
<1>8. Signal(i) <= thr[p] + 1
    BY <1>5, <1>6, <1>7
<1>9. \/ c.reentry[p] = bk.image.reentry[p]
      \/ p \in DOMAIN bk.bars /\ c.reentry[p] = bk.start + 1 + DayBars
    BY <1>2 DEF Ends
<1>10. CASE Left(bk, c, i)
    <2>1. p \in DOMAIN bk.bars /\ q.exit = bk.start + 1
          /\ (q.net = 1 \/ c.reentry[p] = bk.start + 1 + DayBars)
        BY <1>10 DEF Left
    <2>2. q.exit <= thr[p] + 1
        BY <1>1, <1>3, <2>1
    <2>3. q.net = -1 => q.exit + DayBars <= c.reentry[p]
        BY <1>1, <1>4, <2>1
    <2> QED
        BY <1>8, <2>2, <2>3 DEF UpTo, Stops
<1>11. CASE Stayed(bk, c, i) /\ i \in DOMAIN bk.image.rows
    <2>1. q.exit = old.exit /\ q.net = old.net
        BY <1>6, <1>11 DEF Stayed
    <2>2. q.exit <= thr[p] + 1
        BY <1>6, <1>11, <2>1
    <2>3. ASSUME q.net = -1 PROVE q.exit + DayBars <= c.reentry[p]
        <3>1. q.exit + DayBars <= bk.image.reentry[p] /\ q.exit \in Nat
              /\ (p \in DOMAIN bk.bars => q.exit <= bk.start)
            BY <1>6, <1>11, <2>1, <2>3
        <3> QED
            BY <1>1, <1>4, <1>9, <3>1
    <2> QED
        BY <1>8, <2>2, <2>3 DEF UpTo, Stops
<1>12. CASE Stayed(bk, c, i) /\ i \notin DOMAIN bk.image.rows
    <2>1. q.exit = 0 /\ q.net = 0
        BY <1>5, <1>7, <1>12 DEF Stayed, Never
    <2> QED
        BY <1>3, <1>8, <2>1 DEF UpTo, Stops
<1> QED
    BY <1>10, <1>11, <1>12 DEF Ends

LEMMA ReplayedUnfilled ==
    ASSUME TimesOK, NEW bk, NEW thr, ThroughOK(thr), BucketOK(bk, thr, prints),
           NEW c, c \in Books, AccountsOf(c), Follows(c, bk), Ends(bk, c), NEW i \in c.resting
    PROVE  Unfilled(i, prints[Pair(i)], thr[Pair(i)] + 1)
<1>0. bk \in Buckets /\ CanReplay(bk) /\ i \in Ids
    BY BookParts DEF BucketOK
<1>1. Source(bk, i).fill = "pending" /\ FillBar(bk, i) = Never
    BY DEF Ends
<1>2. CASE Pair(i) \in DOMAIN bk.bars
    <2>1. \A t \in prints[Pair(i)] : ~InWindow(i, t)
        BY <1>0, <1>1, <1>2, FillBarIs
    <2> QED
        BY <2>1 DEF Unfilled
<1>3. CASE Pair(i) \notin DOMAIN bk.bars
    <2>1. i \in DOMAIN c.rows
        BY DEF AccountsOf, Orders
    <2>2. i \notin NewIds(bk, DOMAIN bk.bars)
        BY <1>0, <1>3, NewIdsAre
    <2>3. i \in DOMAIN bk.image.rows
        BY <2>1, <2>2 DEF Follows
    <2>4. AccountsOf(bk.image)
        BY <1>0 DEF CanReplay
    <2>5. i \in bk.image.resting
        BY <1>1, <2>3, <2>4 DEF AccountsOf, Orders, Source
    <2>6. Unfilled(i, prints[Pair(i)], Reach(bk, thr, Pair(i)))
        BY <2>5 DEF BucketOK
    <2> QED
        BY <1>3, <2>6 DEF Reach
<1> QED
    BY <1>2, <1>3

(* An order that the bucket checks rules out a stop of another of its pair in  *)
(* the bucket: what its pair holds is about to leave by rule, and what fills in *)
(* the bucket, or in the first second after it, is of another day.            *)
LEMMA NoStopBesideACheck ==
    ASSUME TimesOK, NEW bk, NEW thr, ThroughOK(thr), BucketOK(bk, thr, prints),
           NEW c, c \in Books, AccountsOf(c), Follows(c, bk), Ends(bk, c),
           NEW i \in DOMAIN c.rows, Left(bk, c, i), c.rows[i].net = -1,
           NEW j \in NewIds(bk, DOMAIN bk.bars), i # j, Pair(j) = Pair(i),
           bk.decisions[Pair(j)].rows[j].fill # "skip"
    PROVE  FALSE
<1> DEFINE p == Pair(i)
<1>0. bk \in Buckets /\ CanReplay(bk) /\ i \in Ids /\ p \in Pairs /\ Signal(i) \in Nat
    BY BookParts, IdsAre DEF BucketOK
<1>1. bk.start \in Nat /\ p \in DOMAIN bk.bars /\ thr[p] = bk.start
    BY <1>0, BucketParts DEF Left, BucketOK
<1>2. /\ p \in DOMAIN bk.decisions /\ j \in DOMAIN bk.decisions[p].rows
      /\ Signal(j) = bk.start + 1
    BY <1>0, NewIdsAre
<1>3. Clear(bk, p)
    BY <1>2 DEF BucketOK
<1>4. \A h \in DOMAIN bk.image.open : Pair(h) = p => bk.image.open[h].rule
    BY <1>2, <1>3 DEF Clear
<1>5. Source(bk, i).fill = "pending" /\ FillBar(bk, i) # Never /\ FillBar(bk, i) <= bk.start + 1
    BY <1>4 DEF Left
<1>6. InWindow(i, FillBar(bk, i)) /\ FillBar(bk, i) \in Nat
    BY <1>0, <1>5, FillBarIs, Numbers
<1>7. Signal(i) <= bk.start
    <2>1. Signal(i) <= bk.start + 1
        BY <1>0, <1>1, <1>5, <1>6 DEF InWindow
    <2>2. Signal(i) # bk.start + 1
        <3>1. j \in Ids
            BY BookParts DEF Follows
        <3>2. i = <<p, Signal(i)>> /\ j = <<Pair(j), bk.start + 1>>
            BY <1>0, <1>2, <3>1, IdsAre
        <3> QED
            BY <3>2
    <2> QED
        BY <1>0, <1>1, <2>1, <2>2
<1>8. i \in DOMAIN bk.image.rows
    <2>1. i \notin NewIds(bk, DOMAIN bk.bars)
        BY <1>0, <1>1, <1>7, NewIdsAre
    <2> QED
        BY <2>1 DEF Follows
<1>9. i \in bk.image.resting
    <2>1. AccountsOf(bk.image)
        BY <1>0 DEF CanReplay
    <2> QED
        BY <1>5, <1>8, <2>1 DEF AccountsOf, Orders, Source
<1>10. Unfilled(i, prints[p], bk.start)
    <2>1. Unfilled(i, prints[p], Reach(bk, thr, p))
        BY <1>9 DEF BucketOK
    <2> QED
        BY <1>1, <2>1 DEF Reach
<1>11. FillBar(bk, i) >= bk.start
    <2>1. FillBar(bk, i) \in prints[p] \/ FillBar(bk, i) = bk.start
        BY <1>0, <1>5, FillBarIs
    <2>2. FillBar(bk, i) \in prints[p] => FillBar(bk, i) >= bk.start
        BY <1>6, <1>10 DEF Unfilled
    <2> QED
        BY <1>1, <1>6, <2>1, <2>2
<1>12. bk.start < Signal(i) + Window
    BY <1>0, <1>1, <1>6, <1>11, Numbers DEF InWindow
<1>13. Signal(i) % DayBars = 0 /\ Signal(j) % DayBars = 0
    <2>1. i \in Ids /\ j \in Ids
        BY <1>0, BookParts DEF Follows
    <2> QED
        BY <2>1, IdsAre
<1>14. Signal(i) + DayBars <= Signal(j)
    <2>1. Signal(i) < Signal(j) /\ Signal(j) \in Nat
        BY <1>0, <1>1, <1>2, <1>7
    <2> QED
        BY <1>0, <1>13, <2>1, SignalsAreADayApart
<1> QED
    BY <1>0, <1>1, <1>2, <1>12, <1>14, Numbers

LEMMA ReplayedSpaced ==
    ASSUME TimesOK, NEW bk, NEW thr, ThroughOK(thr), BucketOK(bk, thr, prints),
           NEW c, c \in Books, AccountsOf(c), Follows(c, bk), Ends(bk, c)
    PROVE  Spaced(c.rows)
<1>0. bk \in Buckets /\ CanReplay(bk)
    BY DEF BucketOK
<1>1. bk.start \in Nat /\ DOMAIN bk.bars \subseteq Pairs /\ bk.image \in Books
    BY <1>0, BucketParts
<1> SUFFICES ASSUME NEW i \in DOMAIN c.rows, NEW j \in DOMAIN c.rows,
                    i # j, Pair(i) = Pair(j), c.rows[i].net = -1, c.rows[j].fill # "skip",
                    c.rows[i].exit <= Signal(j), Signal(j) < c.rows[i].exit + DayBars
             PROVE  FALSE
    BY DEF Spaced, Barred
<1> DEFINE p == Pair(i)
<1>2. i \in Ids /\ j \in Ids /\ p \in Pairs /\ Signal(j) \in Nat /\ c.rows[i] \in Row
    BY BookParts, IdsAre
<1>3. Source(bk, j).fill # "skip"
    BY DEF Follows, RowLater
<1>4. j \in DOMAIN bk.image.rows \/ j \in NewIds(bk, DOMAIN bk.bars)
    BY DEF Follows
<1>5. CASE Left(bk, c, i)
    <2>1. c.rows[i].exit = bk.start + 1 /\ p \in DOMAIN bk.bars
        BY <1>5 DEF Left
    <2>2. j \notin DOMAIN bk.image.rows
        <3>1. j \in DOMAIN bk.image.rows => Signal(j) <= bk.start
            BY <1>0, <2>1 DEF CanReplay
        <3> QED
            BY <1>1, <1>2, <2>1, <3>1
    <2>3. bk.decisions[Pair(j)].rows[j].fill # "skip" /\ j \in NewIds(bk, DOMAIN bk.bars)
        BY <1>3, <1>4, <2>2 DEF Source
    <2> QED
        BY <1>5, <2>3, NoStopBesideACheck
<1>6. CASE Stayed(bk, c, i)
    <2>1. i \in DOMAIN bk.image.rows
        <3>1. ASSUME i \notin DOMAIN bk.image.rows PROVE FALSE
            <4>1. i \in NewIds(bk, DOMAIN bk.bars)
                BY <3>1 DEF Follows
            <4>2. IsNew(bk.decisions[p].rows[i])
                BY <1>0, <4>1, NewIdsAre
            <4>3. Source(bk, i).net = 0
                BY <3>1, <4>2 DEF IsNew, Source
            <4> QED
                BY <1>6, <4>3 DEF Stayed
        <3> QED
            BY <3>1
    <2>2. bk.image.rows[i].exit = c.rows[i].exit /\ bk.image.rows[i].net = -1
        BY <1>6, <2>1 DEF Stayed, Source
    <2>3. CASE j \in DOMAIN bk.image.rows
        <3>1. Barred(bk.image.rows[i], i, bk.image.rows[j], j)
            BY <2>1, <2>3 DEF BucketOK, Spaced
        <3>2. bk.image.rows[j].fill # "skip"
            BY <1>3, <2>3 DEF Source
        <3> QED
            BY <2>2, <3>1, <3>2 DEF Barred
    <2>4. CASE j \notin DOMAIN bk.image.rows
        <3>1. j \in NewIds(bk, DOMAIN bk.bars) /\ bk.decisions[p].rows[j].fill # "skip"
            BY <1>3, <1>4, <2>4 DEF Source
        <3>2. p \in DOMAIN bk.decisions /\ j \in DOMAIN bk.decisions[p].rows
              /\ Signal(j) = bk.start + 1
            BY <1>0, <3>1, NewIdsAre
        <3>3. Clear(bk, p)
            BY <3>2 DEF BucketOK
        <3>4. bk.image.reentry[p] <= bk.start + 1
            BY <3>1, <3>2, <3>3 DEF Clear
        <3>5. Stops(bk.image, i)
            BY <2>1 DEF BucketOK, UpTo
        <3>6. c.rows[i].exit + DayBars <= bk.image.reentry[p]
            BY <2>2, <3>5 DEF Stops
        <3>7. c.rows[i].exit \in Nat /\ bk.image.reentry[p] \in Nat /\ DayBars \in Nat
            BY <1>1, <1>2, BookParts, Numbers DEF Row
        <3> QED
            BY <1>1, <1>2, <3>2, <3>4, <3>6, <3>7
    <2> QED
        BY <2>3, <2>4
<1> QED
    BY <1>5, <1>6 DEF Ends

(* The replay of a bucket in order is a book in order.                        *)
LEMMA ReplayedOK ==
    ASSUME TimesOK, NEW bk, NEW thr, ThroughOK(thr), BucketOK(bk, thr, prints),
           NEW c, c = Replayed(bk)
    PROVE  BookOK(c, thr, prints) /\ Follows(c, bk)
<1>1. c \in Books /\ AccountsOf(c) /\ Follows(c, bk) /\ Ends(bk, c)
    BY ReplayedFollows DEF BucketOK
<1>2. \A i \in DOMAIN c.rows : UpTo(c, i, thr[Pair(i)] + 1)
    BY <1>1, ReplayedUpTo
<1>3. \A i \in c.resting : Unfilled(i, prints[Pair(i)], thr[Pair(i)] + 1)
    BY <1>1, ReplayedUnfilled
<1>4. Spaced(c.rows)
    BY <1>1, ReplayedSpaced
<1> QED
    BY <1>1, <1>2, <1>3, <1>4 DEF BookOK

(* A book and its bucket.                                                    *)
Sound(b, bk, thr, pr) ==
    ThroughOK(thr) /\ BookOK(b, thr, pr) /\ BucketOK(bk, thr, pr) /\ Follows(b, bk)

Behind(thr, now) == \A p \in Pairs : thr[p] < now

IInv ==
    /\ feed \in FeedNames /\ crashes \in 0..MaxCrashes
    /\ TimesOK
    /\ Behind(through, clock) /\ Sound(book, bucket, through, prints)
    /\ saved.book \in Books
    /\ crashes < MaxCrashes => /\ Behind(saved.through, clock)
                               /\ Sound(saved.book, saved.bucket, saved.through, prints)

LEMMA EmptyBookIs ==
    EmptyBook \in Books /\ AccountsOf(EmptyBook) /\ Spaced(EmptyBook.rows)
<1>1. /\ EmptyBook.rows = EmptyMap /\ EmptyBook.open = EmptyMap /\ EmptyBook.resting = {}
      /\ EmptyBook.net = 0 /\ EmptyBook.killed = FALSE
    BY DEF EmptyBook
<1>2. DOMAIN EmptyMap = {}
    BY DEF EmptyMap
<1>3. EmptyMap \in Maps(Ids, Row) /\ EmptyMap \in Maps(Ids, Position)
    BY <1>2, MapsAre DEF EmptyMap
<1>4. EmptyBook \in Books
    BY <1>3 DEF EmptyBook, Books, Never
<1>5. Net(EmptyBook.rows) = 0
    BY <1>1, <1>2, TotalEmpty DEF Net
<1>6. ~(EmptyBook.net <= -Kill)
    BY <1>1, Numbers
<1>7. AccountsOf(EmptyBook)
    BY <1>1, <1>2, <1>5, <1>6 DEF AccountsOf, Positions, Orders
<1>8. Spaced(EmptyBook.rows)
    BY <1>1, <1>2 DEF Spaced
<1> QED
    BY <1>4, <1>7, <1>8

LEMMA InitOK == Init => IInv
<1> SUFFICES ASSUME Init PROVE IInv
    OBVIOUS
<1>1. /\ feed \in FeedNames /\ crashes \in 0..MaxCrashes /\ ticks \subseteq Pairs
    <2>1. PICK t \in Trials : feed = t.feed /\ ticks = t.ticks /\ crashes = t.crashes
        BY DEF Init
    <2>2. t \in [feed : FeedNames, ticks : SUBSET Pairs, crashes : 0..MaxCrashes]
        BY TrialsAssumption
    <2> QED
        BY <2>1, <2>2
<1>2. /\ clock = DayBars /\ prints = [p \in Pairs |-> {}] /\ through = [p \in Pairs |-> DayBars - 2]
      /\ early = [p \in Pairs |-> {}]
      /\ book = EmptyBook /\ bucket = NewBucket(Never, EmptyBook) /\ saved = FirstSnapshot
    BY DEF Init, FirstSnapshot
<1>3. /\ saved.book = book /\ saved.bucket = bucket /\ saved.through = through
    BY <1>2 DEF FirstSnapshot
<1>4. TimesOK /\ ThroughOK(through) /\ Behind(through, clock)
    BY <1>1, <1>2, Numbers DEF TimesOK, ThroughOK, Behind
<1>5. BookOK(book, through, prints)
    <2>1. DOMAIN book.rows = {} /\ book.resting = {}
        BY <1>2 DEF EmptyBook, EmptyMap
    <2> QED
        BY <1>2, <2>1, EmptyBookIs DEF BookOK
<1>6. BucketOK(bucket, through, prints)
    <2>1. Never \in 0..(MaxClock - 1)
        BY Numbers DEF Never
    <2> QED
        BY <1>2, <1>5, <2>1, NewBucketOK
<1>7. Follows(book, bucket)
    <2>1. bucket.image = book /\ bucket.bars = EmptyMap /\ bucket.decisions = EmptyMap
        BY <1>2 DEF NewBucket
    <2>2. book.rows = EmptyMap /\ DOMAIN EmptyMap = {}
        BY <1>2 DEF EmptyBook, EmptyMap
    <2>3. NewIds(bucket, DOMAIN bucket.bars) = {}
        BY <2>1, <2>2 DEF NewIds
    <2> QED
        BY <2>1, <2>2, <2>3 DEF Follows
<1> QED
    BY <1>1, <1>2, <1>3, <1>4, <1>5, <1>6, <1>7, EmptyBookIs DEF IInv, Sound

(* What a bar makes of the bucket: its image and its checks stay, or it is a    *)
(* new one that starts from the book.                                        *)
Continues(bk, b, next) ==
    \/ /\ next.start = bk.start /\ next.image = bk.image
       /\ DOMAIN bk.bars \subseteq DOMAIN next.bars
       /\ DOMAIN bk.decisions \subseteq DOMAIN next.decisions
       /\ \A q \in DOMAIN bk.decisions : next.decisions[q] = bk.decisions[q]
    \/ next.start # bk.start /\ next.image = b

LEMMA PushOK ==
    ASSUME IInv, NEW p \in Pairs, Push(p)
    PROVE  /\ IInv'
           /\ Continues(bucket, book, bucket')
<1>0. /\ feed \in FeedNames /\ crashes \in 0..MaxCrashes /\ TimesOK
      /\ Behind(through, clock) /\ saved.book \in Books
      /\ ThroughOK(through) /\ BookOK(book, through, prints) /\ BucketOK(bucket, through, prints)
      /\ crashes < MaxCrashes => /\ Behind(saved.through, clock)
                                 /\ Sound(saved.book, saved.bucket, saved.through, prints)
    BY DEF IInv, Sound
<1>1. PICK k \in Due(p), bar \in Bars, quote \in Quotes :
        LET full == [BucketOf(k) EXCEPT !.bars = Merged(@, Entry(p, bar))]
            before == ReplayedTo(full, p)
            after == Checked(before, <<p, k + 1>>, quote)
            next == IF IsDayCloseBar(k) /\ p \notin DOMAIN full.decisions
                    THEN Remember(full, p, Decision(before, after))
                    ELSE full
        IN /\ bucket' = next
           /\ book' = Replayed(next)
           /\ through' = [through EXCEPT ![p] = k]
           /\ UNCHANGED <<feed, ticks, clock, prints, early, saved, crashes>>
    BY DEF Push
<1>2. PICK bk : bk = BucketOf(k)
    OBVIOUS
<1>3. PICK full : full = [bk EXCEPT !.bars = Merged(@, Entry(p, bar))]
    OBVIOUS
<1>4. PICK e : e = ReplayedTo(full, p)
    OBVIOUS
<1>5. PICK id : id = <<p, k + 1>>
    OBVIOUS
<1>6. PICK c : c = Checked(e, id, quote)
    OBVIOUS
<1>7. PICK d : d = Decision(e, c)
    OBVIOUS
<1>8. PICK next : next = IF IsDayCloseBar(k) /\ p \notin DOMAIN full.decisions
                         THEN Remember(full, p, d) ELSE full
    OBVIOUS
<1>9. /\ bucket' = next /\ book' = Replayed(next) /\ through' = [through EXCEPT ![p] = k]
      /\ feed' = feed /\ clock' = clock /\ prints' = prints /\ saved' = saved /\ crashes' = crashes
      /\ ticks' = ticks /\ early' = early
    BY <1>1, <1>2, <1>3, <1>4, <1>5, <1>6, <1>7, <1>8
<1>10. /\ k \in 0..(MaxClock - 1) /\ through[p] < k /\ k < clock
       /\ \A t \in (through[p] + 1)..(k - 1) : t \notin prints[p]
    <2>1. /\ k \in (through[p] + 1)..(clock - 1)
          /\ \A t \in (through[p] + 1)..(k - 1) : t \notin prints[p]
        BY DEF Due
    <2>2. through[p] \in 0..MaxClock /\ clock \in 0..MaxClock
        BY <1>0 DEF ThroughOK, TimesOK
    <2>3. k \in 0..(MaxClock - 1) /\ through[p] < k /\ k < clock
        BY <2>1, <2>2, Numbers
    <2> QED
        BY <2>1, <2>3
<1>11. BucketOK(bk, through, prints) /\ bk.start = k
       /\ (bucket.start = k => bk = bucket)
       /\ (bucket.start # k => bk.image = book)
    <2>1. CASE bucket.start = k
        BY <1>0, <1>2, <2>1 DEF BucketOf
    <2>2. CASE bucket.start # k
        <3>1. bk = NewBucket(k, book)
            BY <1>2, <2>2 DEF BucketOf
        <3>2. bk.start = k /\ bk.image = book
            BY <3>1 DEF NewBucket
        <3> QED
            BY <1>0, <1>10, <2>2, <3>1, <3>2, NewBucketOK
    <2> QED
        BY <2>1, <2>2
<1> DEFINE thr == [through EXCEPT ![p] = k]
<1>12. BucketOK(full, thr, prints) /\ p \in DOMAIN full.bars
    <2>1. prints \in [Pairs -> SUBSET (0..MaxClock)]
        BY <1>0 DEF TimesOK
    <2> QED
        BY <1>0, <1>3, <1>10, <1>11, <2>1, AddBar
<1>13. ThroughOK(thr)
    <2>1. k \in 0..MaxClock
        BY <1>10, Numbers
    <2> QED
        BY <1>0, <2>1 DEF ThroughOK
<1>14. Behind(thr, clock)
    BY <1>0, <1>10 DEF Behind, ThroughOK
<1> HIDE DEF thr
<1>15. /\ full.start = k /\ full.image = bk.image /\ full.decisions = bk.decisions
       /\ DOMAIN full.bars = DOMAIN bk.bars \cup {p}
    <2>1. bk \in Buckets
        BY <1>11 DEF BucketOK
    <2> QED
        BY <1>3, <1>11, <2>1 DEF Buckets, Merged, Entry
<1>16. BucketOK(next, thr, prints)
    <2>1. CASE IsDayCloseBar(k) /\ p \notin DOMAIN full.decisions
        <3>1. full \in Buckets /\ CanReplay(full)
            BY <1>12 DEF BucketOK
        <3>2. CheckSees(full, p, e)
            BY <1>0, <1>4, <1>12, <3>1, ReplayedToSees
        <3>3. id \in Ids /\ Pair(id) = p /\ Signal(id) = k + 1
            <4>1. k + 1 \in 1..MaxClock
                BY <1>10, Numbers
            <4> QED
                BY <1>5, <2>1, <4>1 DEF Ids, Signals, IsDayCloseBar, Pair, Signal
        <3>4. e \in Books
            BY <3>2 DEF CheckSees
        <3>5. c = e \/ Added(e, id, c)
            BY <1>6, <3>3, <3>4, CheckedIs
        <3>6. id = <<p, full.start + 1>>
            BY <1>5, <1>15
        <3>7. /\ d \in Decisions /\ IsDecision(full, p, d)
              /\ (\E i \in DOMAIN d.rows : d.rows[i].fill # "skip") => MayEnter(e, id)
            BY <1>7, <3>1, <3>2, <3>3, <3>5, <3>6, DecisionIs
        <3>8. ASSUME MayEnter(e, id)
              PROVE  /\ full.image.reentry[p] <= full.start + 1
                     /\ \A i \in DOMAIN full.image.open : Pair(i) = p => full.image.open[i].rule
            <4>1. (\A i \in DOMAIN e.open : Pair(i) # p) /\ e.reentry[p] <= full.start + 1
                BY <1>15, <3>3, <3>8 DEF MayEnter
            <4>2. full.start \in Nat
                BY <3>1, BucketParts
            <4>3. e.reentry[p] # full.start + 1 + DayBars
                BY <4>1, <4>2, Numbers
            <4>4. e.reentry[p] \in {full.image.reentry[p], full.start + 1 + DayBars}
                BY <3>2 DEF CheckSees
            <4>5. ASSUME NEW i \in DOMAIN full.image.open, Pair(i) = p
                  PROVE  full.image.open[i].rule
                BY <3>2, <4>1, <4>3, <4>5 DEF CheckSees
            <4> QED
                BY <4>1, <4>3, <4>4, <4>5
        <3>9. next = Remember(full, p, d)
            BY <1>8, <2>1
        <3> QED
            BY <1>12, <2>1, <3>7, <3>8, <3>9, RememberOK
    <2>2. CASE ~(IsDayCloseBar(k) /\ p \notin DOMAIN full.decisions)
        BY <1>8, <1>12, <2>2
    <2> QED
        BY <2>1, <2>2
<1>17. BookOK(book', thr, prints) /\ Follows(book', next)
    BY <1>0, <1>9, <1>13, <1>16, ReplayedOK
<1>18. /\ next.start = k /\ next.image = bk.image /\ DOMAIN bk.bars \subseteq DOMAIN next.bars
       /\ DOMAIN bk.decisions \subseteq DOMAIN next.decisions
       /\ \A q \in DOMAIN bk.decisions : next.decisions[q] = bk.decisions[q]
    <2>1. CASE next = full
        BY <1>15, <2>1
    <2>2. CASE next = Remember(full, p, d)
        <3>1. full \in Buckets
            BY <1>12 DEF BucketOK
        <3>2. /\ next.start = full.start /\ next.image = full.image /\ next.bars = full.bars
              /\ next.decisions = Merged(full.decisions, Entry(p, d))
            BY <2>2, <3>1 DEF Remember, Buckets
        <3> QED
            BY <1>15, <3>2 DEF Merged, Entry
    <2> QED
        BY <1>8, <2>1, <2>2
<1>19. Continues(bucket, book, bucket')
    BY <1>9, <1>11, <1>18 DEF Continues
<1>20. through' = thr
    BY <1>9 DEF thr
<1>21. Sound(book, bucket, through, prints)'
    BY <1>9, <1>13, <1>16, <1>17, <1>20 DEF Sound
<1>22. Behind(through, clock)'
    BY <1>0, <1>9, <1>14, <1>20
<1>23. TimesOK' /\ (saved.book \in Books)'
       /\ (crashes < MaxCrashes => /\ Behind(saved.through, clock)
                                   /\ Sound(saved.book, saved.bucket, saved.through, prints))'
    BY <1>0, <1>9 DEF TimesOK
<1> QED
    BY <1>0, <1>9, <1>19, <1>21, <1>22, <1>23 DEF IInv

(* A print is in the bar now open, which no pair has pushed.                  *)
LEMMA TradedOK ==
    ASSUME NEW b, NEW bk, NEW thr, NEW pr, pr \in [Pairs -> SUBSET (0..MaxClock)],
           Sound(b, bk, thr, pr), NEW now \in 0..MaxClock, Behind(thr, now), NEW p \in Pairs,
           NEW more, more = [pr EXCEPT ![p] = @ \cup {now}]
    PROVE  Sound(b, bk, thr, more)
<1>0. ThroughOK(thr) /\ BookOK(b, thr, pr) /\ BucketOK(bk, thr, pr) /\ Follows(b, bk)
    BY DEF Sound
<1>1. \A q \in Pairs : \A t \in more[q] : t \in pr[q] \/ t = now
    OBVIOUS
<1>2. ASSUME NEW q \in Pairs
      PROVE  thr[q] \in Nat /\ now >= thr[q] + 1
    <2>1. thr[q] \in 0..MaxClock /\ thr[q] < now
        BY <1>0 DEF ThroughOK, Behind
    <2> QED
        BY <2>1, Numbers
<1>3. ASSUME NEW i \in b.resting
      PROVE  Unfilled(i, more[Pair(i)], thr[Pair(i)] + 1)
    <2>1. Pair(i) \in Pairs
        BY <1>0, BookParts, IdsAre DEF BookOK
    <2>2. Unfilled(i, pr[Pair(i)], thr[Pair(i)] + 1)
        BY <1>0 DEF BookOK
    <2> QED
        BY <1>1, <1>2, <2>1, <2>2 DEF Unfilled
<1>4. ASSUME NEW i \in bk.image.resting
      PROVE  Unfilled(i, more[Pair(i)], Reach(bk, thr, Pair(i)))
    <2>0. bk \in Buckets
        BY <1>0 DEF BucketOK
    <2>1. Pair(i) \in Pairs
        <3>1. bk.image \in Books
            BY <2>0, BucketParts
        <3> QED
            BY <3>1, BookParts, IdsAre
    <2>2. Unfilled(i, pr[Pair(i)], Reach(bk, thr, Pair(i)))
        BY <1>0 DEF BucketOK
    <2>3. Pair(i) \in DOMAIN bk.bars => thr[Pair(i)] = bk.start
        BY <1>0 DEF BucketOK
    <2>4. now >= Reach(bk, thr, Pair(i))
        <3>1. CASE Pair(i) \in DOMAIN bk.bars
            <4>1. Reach(bk, thr, Pair(i)) = thr[Pair(i)]
                BY <2>3, <3>1 DEF Reach
            <4> QED
                BY <1>2, <2>1, <4>1
        <3>2. CASE Pair(i) \notin DOMAIN bk.bars
            BY <1>2, <2>1, <3>2 DEF Reach
        <3> QED
            BY <3>1, <3>2
    <2> QED
        BY <1>1, <2>1, <2>2, <2>4 DEF Unfilled
<1>5. BookOK(b, thr, more)
    BY <1>0, <1>3 DEF BookOK
<1>6. BucketOK(bk, thr, more)
    BY <1>0, <1>4 DEF BucketOK
<1> QED
    BY <1>0, <1>5, <1>6 DEF Sound

LEMMA NextOK == IInv /\ [Next]_vars => IInv'
<1> SUFFICES ASSUME IInv, [Next]_vars PROVE IInv'
    OBVIOUS
<1>0. /\ feed \in FeedNames /\ crashes \in 0..MaxCrashes /\ TimesOK
      /\ Behind(through, clock) /\ Sound(book, bucket, through, prints)
      /\ book \in Books /\ saved.book \in Books
      /\ crashes < MaxCrashes => /\ Behind(saved.through, clock)
                                 /\ Sound(saved.book, saved.bucket, saved.through, prints)
    BY DEF IInv, Sound, BookOK
<1>a. \A s : s = Snapshot => s.book = book /\ s.bucket = bucket /\ s.through = through
    BY DEF Snapshot
<1>b. /\ prints \in [Pairs -> SUBSET (0..MaxClock)] /\ clock \in 0..MaxClock
      /\ early \in [Pairs -> SUBSET (0..MaxClock)] /\ ticks \subseteq Pairs
    BY <1>0 DEF TimesOK
<1>1. CASE Tick
    <2>1. /\ clock' = clock + 1 /\ clock < MaxClock
          /\ feed' = feed /\ prints' = prints /\ through' = through /\ book' = book
          /\ bucket' = bucket /\ crashes' = crashes /\ early' = early /\ ticks' = ticks
          /\ IF crashes < MaxCrashes THEN saved' = Snapshot ELSE saved' = saved
        BY <1>1 DEF Tick
    <2>2. /\ clock' \in 0..MaxClock
          /\ \A q \in Pairs : through[q] < clock'
        BY <1>0, <1>b, <2>1, Numbers DEF Behind, Sound, ThroughOK
    <2>3. TimesOK'
        BY <1>b, <2>1, <2>2 DEF TimesOK
    <2>4. CASE ~(crashes < MaxCrashes)
        BY <1>0, <2>1, <2>2, <2>3, <2>4 DEF IInv, Behind
    <2>5. CASE crashes < MaxCrashes
        <3>1. saved'.book = book /\ saved'.bucket = bucket /\ saved'.through = through
            BY <1>a, <2>1, <2>5
        <3> QED
            BY <1>0, <2>1, <2>2, <2>3, <3>1 DEF IInv, Behind
    <2> QED
        BY <2>4, <2>5
<1>2. CASE Save
    <2>1. /\ feed' = feed /\ prints' = prints /\ through' = through /\ book' = book
          /\ bucket' = bucket /\ crashes' = crashes /\ clock' = clock /\ saved' = Snapshot
          /\ early' = early /\ ticks' = ticks
        BY <1>2 DEF Save
    <2>2. saved'.book = book /\ saved'.bucket = bucket /\ saved'.through = through
        BY <1>a, <2>1
    <2> QED
        BY <1>0, <2>1, <2>2 DEF IInv, TimesOK, Behind
<1>3. CASE Restart
    <2>1. /\ crashes < MaxCrashes /\ crashes' = crashes + 1
          /\ book' = saved.book /\ bucket' = saved.bucket /\ through' = saved.through
          /\ feed' = feed /\ clock' = clock /\ prints' = prints
          /\ early' = early /\ ticks' = ticks
          /\ IF crashes' < MaxCrashes THEN saved' = saved ELSE saved' = FirstSnapshot
        BY <1>3 DEF Restart, Restored
    <2>2. crashes' \in 0..MaxCrashes /\ TimesOK'
        BY <1>0, <1>b, <2>1, NumbersAssumption DEF TimesOK
    <2>3. saved'.book \in Books
        BY <1>0, <2>1, EmptyBookIs DEF FirstSnapshot
    <2>4. crashes' < MaxCrashes => saved' = saved
        BY <2>1
    <2> QED
        BY <1>0, <2>1, <2>2, <2>3, <2>4 DEF IInv, Behind
<1>4. ASSUME NEW p \in Pairs, Push(p) PROVE IInv'
    BY <1>4, PushOK
<1>5. ASSUME NEW p \in Pairs, Trade(p) PROVE IInv'
    <2>1. /\ prints' = [prints EXCEPT ![p] = @ \cup {clock}]
          /\ feed' = feed /\ clock' = clock /\ through' = through /\ book' = book
          /\ bucket' = bucket /\ saved' = saved /\ crashes' = crashes /\ ticks' = ticks
        BY <1>5 DEF Trade
    <2>2. Sound(book, bucket, through, prints')
        BY <1>0, <1>b, <2>1, TradedOK
    <2>3. crashes < MaxCrashes => Sound(saved.book, saved.bucket, saved.through, prints')
        BY <1>0, <1>b, <2>1, TradedOK
    <2>4. TimesOK'
        <3>1. PICK first \in BOOLEAN :
                early' = [early EXCEPT ![p] = IF first THEN @ \cup {clock} ELSE @]
            BY <1>5 DEF Trade
        <3>2. early' \in [Pairs -> SUBSET (0..MaxClock)]
            BY <1>b, <3>1
        <3> QED
            BY <1>b, <2>1, <3>2 DEF TimesOK
    <2> QED
        BY <1>0, <2>1, <2>2, <2>3, <2>4 DEF IInv, Behind
<1>6. CASE UNCHANGED vars
    BY <1>0, <1>6 DEF vars, IInv, TimesOK, Behind
<1> QED
    BY <1>1, <1>2, <1>3, <1>4, <1>5, <1>6 DEF Next

(* What the book, its image and the saved book keep on every feed.             *)
THEOREM Invariance == Spec => []IInv
<1>1. Init => IInv
    BY InitOK
<1>2. IInv /\ [Next]_vars => IInv'
    BY NextOK
<1> QED
    BY <1>1, <1>2, PTL DEF Spec

-----------------------------------------------------------------------------
(* The theorems.                                                             *)

LEMMA BooksAreBooks == ASSUME NEW b, b \in Books PROVE IsBook(b)
<1>1. \A r \in Row : IsRow(r)
    BY DEF Row, IsRow
<1> QED
    BY <1>1, BookParts DEF IsBook

(* The book, its image and what was saved of it keep their types, and only a   *)
(* bar that is in the bucket has its check remembered there.                  *)
THEOREM TypeCorrect == Spec => []TypeOK
<1>1. IInv => TypeOK
    <2> SUFFICES ASSUME IInv PROVE TypeOK
        OBVIOUS
    <2>1. book \in Books /\ bucket.image \in Books /\ saved.book \in Books
          /\ DOMAIN bucket.decisions \subseteq DOMAIN bucket.bars
        BY BucketParts DEF IInv, Sound, BookOK, BucketOK, CanReplay
    <2>2. IsBook(book) /\ IsBook(bucket.image) /\ IsBook(saved.book)
        BY <2>1, BooksAreBooks
    <2> QED
        BY <2>1, <2>2 DEF TypeOK, IInv, Sound, ThroughOK, TimesOK
<1> QED
    BY <1>1, Invariance, PTL

(* However a bucket's bars arrive, however often it is replayed and wherever a  *)
(* restart falls, the book's positions, orders and net are those of its rows.   *)
THEOREM AccountsAlwaysAgree == Spec => []AccountsAgree
<1>1. IInv => AccountsAgree
    <2> SUFFICES ASSUME IInv PROVE AccountsAgree
        OBVIOUS
    <2>1. AccountsOf(book)
        BY DEF IInv, Sound, BookOK
    <2>2. book.net = LET net == [i \in DOMAIN book.rows |-> book.rows[i].net]
                     IN MapThenSumSet(LAMBDA i : net[i], DOMAIN book.rows)
        BY <2>1 DEF AccountsOf, Net, Total
    <2>3. /\ DOMAIN book.open = {i \in DOMAIN book.rows :
                                   book.rows[i].fill = "fill" /\ book.rows[i].exit = Never}
          /\ book.resting = {i \in DOMAIN book.rows : book.rows[i].fill = "pending"}
          /\ book.net <= -Kill => book.killed
        BY <2>1 DEF AccountsOf, Positions, Orders
    <2> QED
        BY <2>2, <2>3 DEF AccountsAgree
<1> QED
    BY <1>1, Invariance, PTL

(* No order is placed within a day of the stop of another of its pair: not by a *)
(* bar that arrives before the bar of the stop's own bucket is replayed, and not *)
(* beside an order that fills and is stopped in the bucket of the check.        *)
THEOREM NoReentryHolds == Spec => []NoReentry
<1>1. IInv => NoReentry
    <2> SUFFICES ASSUME IInv PROVE NoReentry
        OBVIOUS
    <2>1. AccountsOf(book) /\ Spaced(book.rows)
        BY DEF IInv, Sound, BookOK
    <2> SUFFICES ASSUME NEW i \in DOMAIN book.rows, NEW j \in DOMAIN book.rows,
                        i # j, Pair(i) = Pair(j) /\ book.rows[i].net = -1,
                        \/ book.rows[j].fill \in {"pending", "fill"}
                        \/ book.rows[j].why \in {"cap", "nofill"}
                 PROVE  ~(book.rows[i].exit <= Signal(j)
                            /\ Signal(j) < book.rows[i].exit + DayBars)
        BY DEF NoReentry
    <2>2. book.rows[j].fill # "skip"
        BY <2>1 DEF AccountsOf, IsSettled
    <2> QED
        BY <2>1, <2>2 DEF Spaced, Barred
<1> QED
    BY <1>1, Invariance, PTL

(* A row before and after a bar, seen from the row that both started from.     *)
LEMMA LaterRows ==
    ASSUME NEW k, NEW s, NEW r, NEW q, RowLater(k, s, r), RowLater(k, s, q)
    PROVE  /\ r.fill = "skip" => q = r
           /\ r.fill # "skip" => q.fill # "skip"
           /\ r.by \notin {Never, k} => q.fill = r.fill
           /\ r.exit \notin {Never, k + 1} => q.exit = r.exit
BY DEF RowLater

LEMMA RowsStand ==
    ASSUME IInv, NEW p \in Pairs, Push(p), NEW i \in DOMAIN book.rows
    PROVE  /\ i \in DOMAIN book'.rows
           /\ book.rows[i].fill = "skip" => book'.rows[i] = book.rows[i]
           /\ book.rows[i].fill # "skip" => book'.rows[i].fill # "skip"
           /\ book.rows[i].by \notin {Never, bucket'.start} => book'.rows[i].fill = book.rows[i].fill
           /\ book.rows[i].exit \notin {Never, bucket'.start + 1}
                => book'.rows[i].exit = book.rows[i].exit
<1>1. IInv' /\ Continues(bucket, book, bucket')
    BY PushOK
<1>2. PICK b, bk : b = book' /\ bk = bucket'
    OBVIOUS
<1>3. Follows(book, bucket) /\ bucket \in Buckets /\ CanReplay(bucket)
    BY DEF IInv, Sound, BucketOK
<1>4. Follows(b, bk)
    BY <1>1, <1>2 DEF IInv, Sound
<1>5. CASE bk.start # bucket.start /\ bk.image = book
    <2>1. i \in DOMAIN b.rows /\ Source(bk, i) = book.rows[i]
        BY <1>4, <1>5 DEF Follows, Source
    <2>2. RowLater(bk.start, book.rows[i], b.rows[i])
        BY <1>4, <2>1 DEF Follows
    <2> QED
        BY <1>2, <2>1, <2>2 DEF RowLater
<1>6. CASE /\ bk.start = bucket.start /\ bk.image = bucket.image
           /\ DOMAIN bucket.bars \subseteq DOMAIN bk.bars
           /\ DOMAIN bucket.decisions \subseteq DOMAIN bk.decisions
           /\ \A q \in DOMAIN bucket.decisions : bk.decisions[q] = bucket.decisions[q]
    <2>1. i \in DOMAIN bucket.image.rows \/ i \in NewIds(bucket, DOMAIN bucket.bars)
        BY <1>3 DEF Follows
    <2>2. i \in DOMAIN b.rows /\ Source(bk, i) = Source(bucket, i)
        <3>1. CASE i \in DOMAIN bucket.image.rows
            BY <1>4, <1>6, <3>1 DEF Follows, Source
        <3>2. CASE i \notin DOMAIN bucket.image.rows
            <4>1. i \in NewIds(bucket, DOMAIN bucket.bars)
                BY <2>1, <3>2
            <4>2. /\ Pair(i) \in DOMAIN bucket.bars /\ Pair(i) \in DOMAIN bucket.decisions
                  /\ i \in DOMAIN bucket.decisions[Pair(i)].rows
                BY <1>3, <4>1, NewIdsAre
            <4>3. i \in NewIds(bk, DOMAIN bk.bars)
                BY <1>6, <4>2 DEF NewIds
            <4> QED
                BY <1>4, <1>6, <3>2, <4>2, <4>3 DEF Follows, Source
        <3> QED
            BY <3>1, <3>2
    <2>3. RowLater(bk.start, Source(bk, i), book.rows[i])
        BY <1>3, <1>6, <2>2 DEF Follows
    <2>4. RowLater(bk.start, Source(bk, i), b.rows[i])
        BY <1>4, <2>2 DEF Follows
    <2> QED
        BY <1>2, <2>2, <2>3, <2>4, LaterRows
<1> QED
    BY <1>1, <1>2, <1>5, <1>6 DEF Continues

(* Only a push, or a restart, changes the book.                              *)
LEMMA BookChanges ==
    ASSUME [Next]_vars, crashes' = crashes, IInv
    PROVE  book' = book \/ \E p \in Pairs : Push(p)
<1>1. CASE Restart
    <2>1. crashes' = crashes + 1 /\ crashes \in Nat
        BY <1>1, NumbersAssumption DEF Restart, IInv
    <2> QED
        BY <2>1
<1>2. CASE Tick \/ Save \/ (\E p \in Pairs : Trade(p)) \/ UNCHANGED vars
    BY <1>2 DEF Tick, Save, Trade, vars
<1>3. CASE \E p \in Pairs : Push(p)
    BY <1>3
<1> QED
    BY <1>1, <1>2, <1>3 DEF Next

(* A later arrival of a bucket flips no signal.                               *)
THEOREM SignalsAlwaysStand == Spec => SignalsStand
<1>1. IInv /\ [Next]_vars =>
        (crashes' = crashes =>
           \A i \in DOMAIN book.rows :
              /\ i \in DOMAIN book'.rows
              /\ book.rows[i].fill = "skip" => book'.rows[i] = book.rows[i]
              /\ book.rows[i].fill # "skip" => book'.rows[i].fill # "skip")
    <2> SUFFICES ASSUME IInv, [Next]_vars, crashes' = crashes, NEW i \in DOMAIN book.rows
                 PROVE  /\ i \in DOMAIN book'.rows
                        /\ book.rows[i].fill = "skip" => book'.rows[i] = book.rows[i]
                        /\ book.rows[i].fill # "skip" => book'.rows[i].fill # "skip"
        OBVIOUS
    <2>1. CASE book' = book
        BY <2>1
    <2>2. CASE \E p \in Pairs : Push(p)
        BY <2>2, RowsStand
    <2> QED
        BY <2>1, <2>2, BookChanges
<1> QED
    BY <1>1, Invariance, PTL DEF Spec, SignalsStand

(* What an earlier bucket filled, refused or ended is never taken back.         *)
THEOREM OldBucketsAlwaysStand == Spec => OldBucketsStand
<1>1. IInv /\ [Next]_vars =>
        (crashes' = crashes =>
           \A i \in DOMAIN book.rows :
              LET row == book.rows[i]
              IN /\ row.by \notin {Never, bucket'.start}
                      => i \in DOMAIN book'.rows /\ book'.rows[i].fill = row.fill
                 /\ row.exit \notin {Never, bucket'.start + 1}
                      => i \in DOMAIN book'.rows /\ book'.rows[i].exit = row.exit)
    <2> SUFFICES ASSUME IInv, [Next]_vars, crashes' = crashes, NEW i \in DOMAIN book.rows
                 PROVE  /\ i \in DOMAIN book'.rows
                        /\ book.rows[i].by \notin {Never, bucket'.start}
                              => book'.rows[i].fill = book.rows[i].fill
                        /\ book.rows[i].exit \notin {Never, bucket'.start + 1}
                              => book'.rows[i].exit = book.rows[i].exit
        OBVIOUS
    <2>1. CASE book' = book
        BY <2>1
    <2>2. CASE \E p \in Pairs : Push(p)
        BY <2>2, RowsStand
    <2> QED
        BY <2>1, <2>2, BookChanges
<1> QED
    BY <1>1, Invariance, PTL DEF Spec, OldBucketsStand

-----------------------------------------------------------------------------
(* Slots and ranks: what one bucket deals out.                               *)

(* The rows that hold a slot in bar t.                                       *)
Occupies(rows, t) ==
    {i \in DOMAIN rows : /\ rows[i].fill = "fill" /\ rows[i].at <= t
                         /\ rows[i].exit = Never \/ t < rows[i].exit}

Full(rows, t) == Cardinality(Occupies(rows, t)) >= MaxOpen

(* SlotsHold and FillsGoByRank of any rows.                                  *)
SlotsOf(rows) == \A t \in 1..MaxClock : Cardinality(Occupies(rows, t)) <= MaxOpen

RanksOf(rows) ==
    \A i, j \in DOMAIN rows :
        /\ rows[i].fill = "fill" /\ rows[j].why = "cap"
        /\ rows[i].at = rows[j].at /\ rows[i].by = rows[j].by
        => Outranks(i, j)

(* A position opened in the bar that its row says.                           *)
Entries(b) == \A i \in DOMAIN b.open : b.open[i].entry = b.rows[i].at

LEMMA OccupiesIs ==
    ASSUME NEW b \in Books, NEW t
    PROVE  IsFiniteSet(Occupies(b.rows, t)) /\ Cardinality(Occupies(b.rows, t)) \in Nat
<1>1. Occupies(b.rows, t) \subseteq DOMAIN b.rows
    BY DEF Occupies
<1>2. IsFiniteSet(Occupies(b.rows, t))
    BY <1>1, RowsAre, FS_Subset
<1> QED
    BY <1>2, FS_CardinalityType

LEMMA HoldersAre ==
    ASSUME NEW b \in Books, AccountsOf(b), Entries(b), NEW t
    PROVE  Holders(b, t) = Occupies(b.rows, t)
<1>1. /\ DOMAIN b.open = {i \in DOMAIN b.rows : b.rows[i].fill = "fill" /\ b.rows[i].exit = Never}
      /\ \A i \in DOMAIN b.rows : b.rows[i].exit # Never => b.rows[i].fill = "fill"
    BY DEF AccountsOf, Positions, IsSettled
<1>2. \A i \in DOMAIN b.open : b.open[i].entry = b.rows[i].at
    BY DEF Entries
<1> QED
    BY <1>1, <1>2 DEF Holders, Occupies

(* What the bucket of a book decides for a pending row.                       *)
NewlyDealt(bk, i, q) ==
    /\ q.by = bk.start
    /\ \/ q.fill = "fill" /\ q.why = "none" /\ q.at = FillBar(bk, i) /\ q.at # Never
       \/ q.fill = "nofill" /\ q.why = "cap" /\ q.at = FillBar(bk, i) /\ q.at # Never
       \/ /\ q.fill = "nofill" /\ q.why = "nofill" /\ FillBar(bk, i) = Never
          /\ clock >= Signal(i) + Window

(* One order dealt with: its row alone changes, and it fills while a slot of     *)
(* its bar is free.                                                          *)
Deal(bk, v, id, c) ==
    /\ Resolving(bk, v, c) /\ Entries(c)
    /\ \A i \in DOMAIN v.rows : i # id => c.rows[i] = v.rows[i]
    /\ \/ c.rows[id] = v.rows[id]
       \/ /\ NewlyDealt(bk, id, c.rows[id]) /\ c.rows[id].exit = Never
          /\ c.rows[id].fill = "fill" => ~Full(v.rows, c.rows[id].at)
          /\ c.rows[id].why = "cap" => Full(v.rows, c.rows[id].at)

LEMMA DealOne ==
    ASSUME TimesOK, NEW bk \in Buckets, NEW v \in Books, AccountsOf(v), Entries(v),
           NEW id \in DOMAIN v.rows, v.rows[id].fill = "pending", NEW c, c = ResolveOne(bk, v, id)
    PROVE  Deal(bk, v, id, c)
<1> DEFINE at == FillBar(bk, id)
<1>0. id \in Ids /\ v.rows[id].exit = Never /\ id \notin DOMAIN v.open
    BY BookParts DEF AccountsOf, IsSettled, Positions
<1>1. at \in 0..MaxClock /\ bk.start \in 0..MaxClock /\ Never \in 0..MaxClock
    BY <1>0, FillBarIs, Numbers DEF Buckets, Never
<1>2. /\ "none" \in Whys /\ "cap" \in Whys /\ "nofill" \in Whys
      /\ "fill" \in {"fill", "nofill"} /\ "nofill" \in {"fill", "nofill"}
    BY DEF Whys
<1>3. Resolving(bk, v, c)
    BY ResolveOneKeeps
<1>4. Capped(v, at) <=> Full(v.rows, at)
    BY HoldersAre DEF Capped, Full
<1>5. \A i \in DOMAIN v.open : i \in DOMAIN v.rows /\ i # id
    BY <1>0 DEF AccountsOf, Positions
<1>6. ASSUME NEW why, NEW t, IsDecided(v, id, "nofill", why, t, bk.start, c)
      PROVE  /\ Entries(c)
             /\ \A i \in DOMAIN v.rows : i # id => c.rows[i] = v.rows[i]
             /\ c.rows[id].fill = "nofill" /\ c.rows[id].why = why /\ c.rows[id].at = t
             /\ c.rows[id].by = bk.start /\ c.rows[id].exit = Never
    <2>1. /\ c.open = v.open /\ \A i \in DOMAIN v.rows : i # id => c.rows[i] = v.rows[i]
          /\ c.rows[id].fill = "nofill" /\ c.rows[id].why = why /\ c.rows[id].at = t
          /\ c.rows[id].by = bk.start /\ c.rows[id].exit = Never
        BY <1>0, <1>6 DEF IsDecided
    <2>2. Entries(c)
        BY <1>5, <2>1 DEF Entries
    <2> QED
        BY <2>1, <2>2
<1>7. CASE at # Never /\ Capped(v, at)
    <2>1. c = Decided(v, id, "nofill", "cap", at, bk.start)
        BY <1>7 DEF ResolveOne
    <2> HIDE DEF at
    <2>2. IsDecided(v, id, "nofill", "cap", at, bk.start, c)
        BY <1>1, <1>2, <2>1, DecidedIs
    <2>3. /\ Entries(c) /\ \A i \in DOMAIN v.rows : i # id => c.rows[i] = v.rows[i]
          /\ c.rows[id].fill = "nofill" /\ c.rows[id].why = "cap" /\ c.rows[id].at = at
          /\ c.rows[id].by = bk.start /\ c.rows[id].exit = Never
        BY <1>6, <2>2
    <2>4. NewlyDealt(bk, id, c.rows[id])
        BY <1>7, <2>3 DEF NewlyDealt, at
    <2> QED
        BY <1>3, <1>4, <1>7, <2>3, <2>4 DEF Deal
<1>8. CASE at # Never /\ ~Capped(v, at)
    <2> DEFINE d == Decided(v, id, "fill", "none", at, bk.start)
    <2>1. c = [d EXCEPT !.open = Merged(@, Entry(id, [entry |-> at, rule |-> FALSE]))]
        BY <1>8 DEF ResolveOne
    <2> HIDE DEF at
    <2>2. IsDecided(v, id, "fill", "none", at, bk.start, d)
        BY <1>1, <1>2, DecidedIs
    <2>3. d \in Books
        BY <2>2 DEF IsDecided
    <2> HIDE DEF d
    <2>4. IsOpened(d, id, at, c)
        BY <1>0, <1>1, <2>1, <2>3, OpenedIs
    <2>5. /\ d.open = v.open /\ \A i \in DOMAIN v.rows : i # id => d.rows[i] = v.rows[i]
          /\ d.rows[id].fill = "fill" /\ d.rows[id].why = "none" /\ d.rows[id].at = at
          /\ d.rows[id].by = bk.start /\ d.rows[id].exit = Never
        BY <1>0, <2>2 DEF IsDecided
    <2>6. /\ c.rows = d.rows /\ DOMAIN c.open = DOMAIN d.open \cup {id}
          /\ \A i \in DOMAIN d.open : c.open[i] = d.open[i]
          /\ id \notin DOMAIN d.open => c.open[id].entry = at
        BY <2>4 DEF IsOpened
    <2>7. Entries(c)
        BY <1>0, <1>5, <2>5, <2>6 DEF Entries
    <2>8. NewlyDealt(bk, id, c.rows[id])
        BY <1>8, <2>5, <2>6 DEF NewlyDealt, at
    <2> QED
        BY <1>3, <1>4, <1>8, <2>5, <2>6, <2>7, <2>8 DEF Deal
<1>9. CASE at = Never /\ clock >= Signal(id) + Window
    <2>1. c = Decided(v, id, "nofill", "nofill", Never, bk.start)
        BY <1>9 DEF ResolveOne
    <2>2. IsDecided(v, id, "nofill", "nofill", Never, bk.start, c)
        BY <1>1, <1>2, <2>1, DecidedIs
    <2>3. /\ Entries(c) /\ \A i \in DOMAIN v.rows : i # id => c.rows[i] = v.rows[i]
          /\ c.rows[id].fill = "nofill" /\ c.rows[id].why = "nofill"
          /\ c.rows[id].by = bk.start /\ c.rows[id].exit = Never
        BY <1>6, <2>2
    <2>4. NewlyDealt(bk, id, c.rows[id])
        BY <1>9, <2>3 DEF NewlyDealt
    <2> QED
        BY <1>3, <2>3, <2>4 DEF Deal
<1>10. CASE at = Never /\ ~(clock >= Signal(id) + Window)
    <2>1. c = v
        BY <1>10 DEF ResolveOne
    <2> QED
        BY <1>3, <2>1 DEF Deal
<1> QED
    BY <1>7, <1>8, <1>9, <1>10

(* The orders that rest on the book b, when their fill bars go with their rank   *)
(* and none is before a fill that is on the book already.                     *)
InOrder(bk, b) ==
    /\ \A i \in DOMAIN b.rows : b.rows[i].fill = "fill" => b.rows[i].at <= bk.start
    /\ \A j \in b.resting : FillBar(bk, j) # Never => bk.start <= FillBar(bk, j)
    /\ \A i, j \in b.resting :
          Outranks(i, j) /\ FillBar(bk, i) # Never /\ FillBar(bk, j) # Never
            => FillBar(bk, i) <= FillBar(bk, j)

(* The orders S of the book b, dealt with.                                   *)
Deals(bk, b, S, c) ==
    /\ Resolving(bk, b, c) /\ Entries(c) /\ SlotsOf(c.rows)
    /\ \A i \in DOMAIN b.rows : i \notin S => c.rows[i] = b.rows[i]
    /\ \A i \in S : c.rows[i] = b.rows[i] \/ NewlyDealt(bk, i, c.rows[i])
    /\ \A j \in S : c.rows[j].why = "cap" => Full(c.rows, c.rows[j].at)
    /\ \A i, j \in S :
          c.rows[i].fill = "fill" /\ c.rows[j].why = "cap" /\ c.rows[i].at = c.rows[j].at
            => Outranks(i, j)

LEMMA DealNothing ==
    ASSUME NEW bk, NEW b \in Books, AccountsOf(b), Entries(b), SlotsOf(b.rows)
    PROVE  Deals(bk, b, {}, b)
BY ResolvingNothing DEF Deals

(* An order that fills takes a slot from its bar on, where nobody comes later.  *)
LEMMA SlotTaken ==
    ASSUME NEW b \in Books, NEW c \in Books, NEW id \in DOMAIN b.rows, NEW at \in 1..MaxClock,
           DOMAIN c.rows = DOMAIN b.rows, \A i \in DOMAIN b.rows : i # id => c.rows[i] = b.rows[i],
           b.rows[id].fill # "fill",
           c.rows[id].fill = "fill", c.rows[id].at = at, c.rows[id].exit = Never,
           \A i \in DOMAIN b.rows : b.rows[i].fill = "fill" => b.rows[i].at <= at,
           SlotsOf(b.rows), ~Full(b.rows, at)
    PROVE  SlotsOf(c.rows)
<1> SUFFICES ASSUME NEW t \in 1..MaxClock
             PROVE  Cardinality(Occupies(c.rows, t)) <= MaxOpen
    BY DEF SlotsOf
<1> DEFINE old == Occupies(b.rows, t)
           new == Occupies(c.rows, t)
           first == Occupies(b.rows, at)
<1>1. IsFiniteSet(old) /\ Cardinality(old) \in Nat /\ IsFiniteSet(first) /\ Cardinality(first) \in Nat
    BY OccupiesIs
<1>2. Cardinality(old) <= MaxOpen /\ Cardinality(first) < MaxOpen /\ MaxOpen \in Nat
    BY <1>1, Numbers DEF SlotsOf, Full
<1>3. CASE ~(at <= t)
    <2>1. new = old
        BY <1>3 DEF Occupies
    <2> HIDE DEF old, new
    <2> QED
        BY <1>2, <2>1 DEF old, new
<1>4. CASE at <= t
    <2>1. new = old \cup {id} /\ id \notin old
        BY <1>4 DEF Occupies
    <2>2. old \subseteq first
        <3>1. \A i \in DOMAIN b.rows : b.rows[i].exit \in Nat
            <4>1. \A i \in DOMAIN b.rows : b.rows[i] \in Row
                BY BookParts
            <4> QED
                BY <4>1 DEF Row
        <3>2. \A i \in DOMAIN b.rows : t < b.rows[i].exit => at < b.rows[i].exit
            BY <1>4, <3>1
        <3> QED
            BY <3>2 DEF Occupies
    <2> HIDE DEF old, new, first
    <2>3. Cardinality(old) <= Cardinality(first)
        BY <1>1, <2>2, FS_Subset
    <2>4. Cardinality(new) = Cardinality(old) + 1
        BY <1>1, <2>1, FS_AddElement
    <2> QED
        BY <1>1, <1>2, <2>3, <2>4 DEF new
<1> QED
    BY <1>3, <1>4

(* The next order in rank.                                                   *)
LEMMA DealMore ==
    ASSUME TimesOK, NEW bk \in Buckets, NEW b \in Books, AccountsOf(b), InOrder(bk, b),
           NEW S \in SUBSET b.resting, NEW v, Deals(bk, b, S, v),
           NEW id \in b.resting, id \notin S, \A x \in S : Outranks(x, id),
           NEW c, c = ResolveOne(bk, v, id)
    PROVE  Deals(bk, b, S \cup {id}, c)
<1>1. /\ v \in Books /\ AccountsOf(v) /\ DOMAIN v.rows = DOMAIN b.rows
      /\ Resolving(bk, b, v) /\ Entries(v) /\ SlotsOf(v.rows)
    BY DEF Deals, Resolving
<1>2. id \in DOMAIN b.rows /\ b.rows[id].fill = "pending" /\ v.rows[id] = b.rows[id]
    BY DEF AccountsOf, Orders, Deals
<1>3. Deal(bk, v, id, c)
    BY <1>1, <1>2, DealOne
<1>4. /\ Resolving(bk, v, c) /\ Entries(c) /\ c \in Books /\ DOMAIN c.rows = DOMAIN v.rows
      /\ \A i \in DOMAIN v.rows : i # id => c.rows[i] = v.rows[i]
    BY <1>3 DEF Deal, Resolving
<1>5. Resolving(bk, b, c)
    BY <1>1, <1>4, ResolvingTwice
<1>6. S \subseteq DOMAIN b.rows /\ id \in Ids /\ S \subseteq Ids
    BY BookParts DEF AccountsOf, Orders
<1>7. \A i \in DOMAIN b.rows : i \notin S \cup {id} => c.rows[i] = b.rows[i]
    BY <1>1, <1>4 DEF Deals
<1>8. v.rows[id].why # "cap"
    BY <1>1, <1>2 DEF AccountsOf, IsSettled
<1>9. CASE c.rows[id] = v.rows[id]
    <2>1. \A i \in DOMAIN v.rows : c.rows[i] = v.rows[i]
        BY <1>4, <1>9
    <2>2. \A t : Occupies(c.rows, t) = Occupies(v.rows, t)
        BY <1>4, <2>1 DEF Occupies
    <2>3. SlotsOf(c.rows)
        BY <1>1, <2>2 DEF SlotsOf
    <2>4. \A i \in S \cup {id} : c.rows[i] = b.rows[i] \/ NewlyDealt(bk, i, c.rows[i])
        BY <1>1, <1>2, <1>6, <2>1 DEF Deals
    <2>5. \A j \in S \cup {id} : c.rows[j].why = "cap" => Full(c.rows, c.rows[j].at)
        BY <1>1, <1>2, <1>6, <1>8, <2>1, <2>2 DEF Deals, Full
    <2>6. \A i, j \in S \cup {id} :
             c.rows[i].fill = "fill" /\ c.rows[j].why = "cap" /\ c.rows[i].at = c.rows[j].at
               => Outranks(i, j)
        BY <1>1, <1>2, <1>6, <1>8, <2>1 DEF Deals
    <2> QED
        BY <1>4, <1>5, <1>7, <2>3, <2>4, <2>5, <2>6 DEF Deals
<1>10. CASE /\ NewlyDealt(bk, id, c.rows[id]) /\ c.rows[id].exit = Never
            /\ c.rows[id].fill = "fill" => ~Full(v.rows, c.rows[id].at)
            /\ c.rows[id].why = "cap" => Full(v.rows, c.rows[id].at)
    <2>1. \A t : Occupies(v.rows, t) \subseteq Occupies(c.rows, t)
        BY <1>2, <1>4 DEF Occupies
    <2>2. \A t : Full(v.rows, t) => Full(c.rows, t)
        <3> SUFFICES ASSUME NEW t, Full(v.rows, t) PROVE Full(c.rows, t)
            OBVIOUS
        <3> DEFINE x == Occupies(v.rows, t)
                   y == Occupies(c.rows, t)
        <3>1. IsFiniteSet(y) /\ Cardinality(y) \in Nat /\ Cardinality(x) \in Nat /\ x \subseteq y
            BY <1>1, <1>4, <2>1, OccupiesIs
        <3>2. Cardinality(x) >= MaxOpen /\ MaxOpen \in Nat
            BY Numbers DEF Full
        <3> HIDE DEF x, y
        <3>3. Cardinality(x) <= Cardinality(y)
            BY <3>1, FS_Subset
        <3>4. Cardinality(y) >= MaxOpen
            BY <3>1, <3>2, <3>3
        <3> QED
            BY <3>4 DEF Full, y
    <2>3. SlotsOf(c.rows)
        <3>1. CASE c.rows[id].fill # "fill"
            <4>1. \A t : Occupies(c.rows, t) = Occupies(v.rows, t)
                BY <1>2, <1>4, <3>1 DEF Occupies
            <4> QED
                BY <1>1, <4>1 DEF SlotsOf
        <3>2. CASE c.rows[id].fill = "fill"
            <4> DEFINE at == FillBar(bk, id)
            <4>1. c.rows[id].at = at /\ at # Never
                BY <1>10, <3>2 DEF NewlyDealt
            <4>2. at \in 1..MaxClock
                <5>1. at \in 0..MaxClock
                    BY <1>6, FillBarIs
                <5> QED
                    BY <4>1, <5>1, Numbers DEF Never
            <4>3. ~Full(v.rows, at)
                BY <1>10, <3>2, <4>1
            <4>4. ASSUME NEW i \in DOMAIN v.rows, v.rows[i].fill = "fill"
                  PROVE  v.rows[i].at <= at
                <5>1. CASE v.rows[i] = b.rows[i]
                    <6>1. v.rows[i].at <= bk.start /\ bk.start <= at
                        BY <1>1, <4>1, <4>4, <5>1 DEF InOrder
                    <6>2. v.rows[i].at \in Nat /\ bk.start \in Nat
                        <7>1. v.rows[i] \in Row
                            BY <1>1, BookParts
                        <7>2. v.rows[i].at \in 0..MaxClock
                            BY <7>1 DEF Row
                        <7> QED
                            BY <7>2, BucketParts
                    <6> QED
                        BY <4>2, <6>1, <6>2
                <5>2. CASE v.rows[i] # b.rows[i]
                    <6>1. i \in S /\ NewlyDealt(bk, i, v.rows[i])
                        BY <1>1, <5>2 DEF Deals
                    <6>2. v.rows[i].at = FillBar(bk, i) /\ FillBar(bk, i) # Never
                        BY <4>4, <6>1 DEF NewlyDealt
                    <6>3. Outranks(i, id) /\ i \in b.resting
                        BY <6>1
                    <6> QED
                        BY <4>1, <6>2, <6>3 DEF InOrder
                <5> QED
                    BY <5>1, <5>2
            <4>5. v.rows[id].fill # "fill" /\ id \in DOMAIN v.rows
                BY <1>1, <1>2
            <4> HIDE DEF at
            <4> QED
                BY <1>1, <1>4, <1>10, <3>2, <4>1, <4>2, <4>3, <4>4, <4>5, SlotTaken
        <3> QED
            BY <3>1, <3>2
    <2>4. \A i \in S : i # id /\ c.rows[i] = v.rows[i]
        BY <1>1, <1>4, <1>6
    <2>5. \A i \in S \cup {id} : c.rows[i] = b.rows[i] \/ NewlyDealt(bk, i, c.rows[i])
        BY <1>10, <2>4 DEF Deals
    <2>6. \A j \in S \cup {id} : c.rows[j].why = "cap" => Full(c.rows, c.rows[j].at)
        BY <1>10, <2>2, <2>4 DEF Deals
    <2>7. ASSUME NEW i \in S \cup {id}, NEW j \in S \cup {id},
                 c.rows[i].fill = "fill", c.rows[j].why = "cap", c.rows[i].at = c.rows[j].at
          PROVE  Outranks(i, j)
        <3>1. CASE i \in S /\ j \in S
            BY <2>4, <2>7, <3>1 DEF Deals
        <3>2. CASE i \in S /\ j = id
            BY <3>2
        <3>3. CASE i = id /\ j \in S
            <4>1. ~Full(v.rows, c.rows[id].at)
                BY <1>10, <2>7, <3>3
            <4>2. Full(v.rows, v.rows[j].at) /\ v.rows[j].at = c.rows[id].at
                BY <2>4, <2>7, <3>3 DEF Deals
            <4> QED
                BY <4>1, <4>2
        <3>4. CASE i = id /\ j = id
            BY <1>10, <2>7, <3>4 DEF NewlyDealt
        <3> QED
            BY <3>1, <3>2, <3>3, <3>4
    <2> QED
        BY <1>4, <1>5, <1>7, <2>3, <2>5, <2>6, <2>7 DEF Deals
<1> QED
    BY <1>3, <1>9, <1>10 DEF Deal

(* All orders, from the first in rank to the last.                           *)
LEMMA ResolvedDeals ==
    ASSUME TimesOK, NEW bk \in Buckets, NEW b \in Books, AccountsOf(b), Entries(b),
           SlotsOf(b.rows), InOrder(bk, b)
    PROVE  Deals(bk, b, b.resting, Resolved(bk, b))
<1> DEFINE n == Cardinality(b.resting)
           order == Ranked(b.resting)
           Seen(m) == {order[j] : j \in 1..m}
           G == {x \in Nat \X Books : Deals(bk, b, Seen(x[1]), x[2])}
<1>1. b.resting \in SUBSET Ids
    BY BookParts
<1>2. Lists(order, b.resting, n) /\ InRank(order, n)
    BY <1>1, RankedLists
<1>3. n \in Nat /\ order \in [1..n -> b.resting]
    BY <1>2 DEF Lists
<1> HIDE DEF n, order
<1>4. <<0, b>> \in G
    <2>1. Seen(0) = {}
        OBVIOUS
    <2> HIDE DEF Seen
    <2> QED
        BY <2>1, DealNothing
<1>5. ASSUME NEW m \in 1..n, NEW v \in Books, <<m - 1, v>> \in G
      PROVE  <<m, ResolveOne(bk, v, order[m])>> \in G
    <2> DEFINE S == Seen(m - 1)
               id == order[m]
               c == ResolveOne(bk, v, id)
    <2>1. Deals(bk, b, S, v)
        BY <1>5
    <2>2. \A j \in 1..(m - 1) : j \in 1..n /\ j < m
        BY <1>3
    <2>3. S \in SUBSET b.resting /\ id \in b.resting
        BY <1>3, <2>2
    <2>4. id \notin S
        BY <1>2, <2>2 DEF Lists
    <2>5. \A x \in S : Outranks(x, id)
        BY <1>2, <2>2 DEF InRank
    <2>6. Seen(m) = S \cup {id}
        <3>1. 1..m = 1..(m - 1) \cup {m}
            BY <1>3
        <3> QED
            BY <3>1
    <2> HIDE DEF Seen, S, id, c
    <2>7. Deals(bk, b, S \cup {id}, c)
        BY <2>1, <2>3, <2>4, <2>5, DealMore DEF c
    <2>8. Deals(bk, b, Seen(m), c)
        <3> DEFINE U == S \cup {id}
        <3>1. U = Seen(m) /\ Deals(bk, b, U, c)
            BY <2>6, <2>7
        <3> HIDE DEF U
        <3> QED
            BY <3>1
    <2>9. c \in Books /\ m \in Nat
        BY <1>3, <2>7 DEF Deals, Resolving
    <2> QED
        BY <2>8, <2>9 DEF c, id
<1> HIDE DEF G
<1>6. <<n, Resolved(bk, b)>> \in G
    <2>1. ResolvesTo(G, bk, b)
        BY <1>5 DEF ResolvesTo, n, order
    <2> QED
        BY <1>4, <2>1, ResolvedIsReached DEF n
<1>7. Deals(bk, b, Seen(n), Resolved(bk, b))
    BY <1>6 DEF G
<1>8. Seen(n) = b.resting
    BY <1>2 DEF Lists
<1> HIDE DEF Seen
<1> QED
    BY <1>7, <1>8

(* What is dealt to a row is not taken back by its exit.                      *)
SameDeal(r, q) == q.fill = r.fill /\ q.why = r.why /\ q.at = r.at /\ q.by = r.by

ExitsOnly(b, c) ==
    /\ DOMAIN c.rows = DOMAIN b.rows
    /\ \A i \in DOMAIN b.rows : SameDeal(b.rows[i], c.rows[i])

LEMMA ExitedDeals ==
    ASSUME NEW bk \in Buckets, NEW T, NEW b \in Books, AccountsOf(b), Entries(b),
           SlotsOf(b.rows), NEW c, Exiting(bk, T, b, c)
    PROVE  ExitsOnly(b, c) /\ Entries(c) /\ SlotsOf(c.rows)
<1>1. /\ c \in Books /\ AccountsOf(c) /\ DOMAIN c.rows = DOMAIN b.rows
      /\ DOMAIN c.open \subseteq DOMAIN b.open
      /\ \A i \in DOMAIN b.rows : i \notin Gone(b, c) => c.rows[i] = b.rows[i]
      /\ \A i \in Gone(b, c) : ExitedRow(bk, b, c, i)
      /\ \A i \in DOMAIN c.open : c.open[i].entry = b.open[i].entry
    BY DEF Exiting
<1>2. /\ Gone(b, c) \subseteq DOMAIN b.open
      /\ \A i \in DOMAIN b.open : i \in DOMAIN b.rows /\ b.rows[i].exit = Never
    BY DEF Gone, AccountsOf, Positions
<1>3. \A i \in DOMAIN b.rows : SameDeal(b.rows[i], c.rows[i])
    BY <1>1 DEF SameDeal, ExitedRow
<1>4. Entries(c)
    BY <1>1, <1>2, <1>3 DEF Entries, SameDeal
<1>5. ASSUME NEW t \in 1..MaxClock
      PROVE  Cardinality(Occupies(c.rows, t)) <= MaxOpen
    <2>1. Occupies(c.rows, t) \subseteq Occupies(b.rows, t)
        BY <1>1, <1>2, <1>3 DEF Occupies, SameDeal
    <2> DEFINE x == Occupies(b.rows, t)
               y == Occupies(c.rows, t)
    <2>2. IsFiniteSet(x) /\ Cardinality(x) \in Nat /\ Cardinality(y) \in Nat
        BY <1>1, OccupiesIs
    <2>3. Cardinality(x) <= MaxOpen /\ MaxOpen \in Nat
        BY Numbers DEF SlotsOf
    <2> HIDE DEF x, y
    <2>4. Cardinality(y) <= Cardinality(x)
        BY <2>1, <2>2, FS_Subset DEF x, y
    <2>5. Cardinality(y) <= MaxOpen
        BY <2>2, <2>3, <2>4
    <2> QED
        BY <2>5 DEF y
<1> QED
    BY <1>1, <1>3, <1>4, <1>5 DEF ExitsOnly, SlotsOf

-----------------------------------------------------------------------------
(* The feed "live": every bar arrives the moment it closes, and but for the     *)
(* first bar of an order the prints of a bar come after the bars before it.     *)

(* Nothing a bucket of bar k or an earlier one decided is of a later bar than   *)
(* the next, and a window that it saw end has ended.                          *)
EarlyRow(r, i, k) ==
    /\ r.by <= k
    /\ r.fill = "fill" => r.at <= k + 1
    /\ r.why = "nofill" => Signal(i) + Window <= k + 1

Early(rows, k) == \A i \in DOMAIN rows : EarlyRow(rows[i], i, k)

(* NofillIsTrue of any rows.                                                 *)
TrueNofill(r, i, pr, dp) ==
    r.why = "nofill" => \A t \in pr[Pair(i)] \cup dp[Pair(i)] : ~InWindow(i, t)

TrueNofills(rows, pr, dp) == \A i \in DOMAIN rows : TrueNofill(rows[i], i, pr, dp)

(* A book that the buckets up to bar k made.                                  *)
BookLive(b, k, pr, dp) ==
    /\ Entries(b) /\ SlotsOf(b.rows) /\ RanksOf(b.rows) /\ Early(b.rows, k)
    /\ Window > 1 => TrueNofills(b.rows, pr, dp)

(* No bar went through the limit of an order that rests, but for the bars of    *)
(* the bucket, which its image does not know.                                 *)
Untouched(b, dp) == \A i \in b.resting : \A t \in dp[Pair(i)] : ~InWindow(i, t)

InBucket(bk, p, t) == t = bk.start /\ p \in DOMAIN bk.bars /\ bk.bars[p].low # "calm"

UntouchedBefore(bk, dp) ==
    \A i \in bk.image.resting :
        \A t \in dp[Pair(i)] : InWindow(i, t) => InBucket(bk, Pair(i), t)

DipsOK(thr, dp) ==
    /\ dp \in [Pairs -> SUBSET Nat]
    /\ \A p \in Pairs : \A t \in dp[p] : t <= thr[p]

BucketLive(bk, thr, pr, dp) ==
    /\ BookLive(bk.image, bk.start - 1, pr, dp)
    /\ DipsOK(thr, dp) /\ UntouchedBefore(bk, dp)
    /\ \A p \in DOMAIN bk.decisions : ~HasNofill(bk.decisions[p])

(* The prints are of first bars of orders, and the bars before the last that    *)
(* closed were built from them when nothing else was there.                    *)
PrintOK(t, last, now) == t % DayBars = 0 /\ t <= now /\ (t <= last \/ t >= now - 1)

Printed(thr, pr, now) == \A p \in Pairs : \A t \in pr[p] : PrintOK(t, thr[p], now)

LiveOK(b, bk, thr, pr, dp, now) ==
    /\ BookLive(b, bk.start, pr, dp) /\ Untouched(b, dp)
    /\ BucketLive(bk, thr, pr, dp)
    /\ bk.start < now

(* What a replay starts from: the image and what the bucket's checks added.    *)
NewRowsAre(bk, b) ==
    \A i \in DOMAIN b.rows : i \notin DOMAIN bk.image.rows =>
        /\ b.rows[i].by = Never /\ b.rows[i].fill \in {"skip", "pending", "nofill"}
        /\ b.rows[i].why \notin {"cap", "nofill"} /\ Signal(i) = bk.start + 1

LEMMA StoredRows ==
    ASSUME NEW bk \in Buckets, CanReplay(bk), NEW S, NEW b, Storing(bk, S, b),
           \A p \in DOMAIN bk.decisions : ~HasNofill(bk.decisions[p])
    PROVE  /\ NewRowsAre(bk, b)
           /\ DOMAIN bk.image.rows \subseteq DOMAIN b.rows
           /\ \A i \in DOMAIN bk.image.rows : b.rows[i] = bk.image.rows[i]
<1>1. ASSUME NEW i \in DOMAIN b.rows, i \notin DOMAIN bk.image.rows
      PROVE  /\ b.rows[i].by = Never /\ b.rows[i].fill \in {"skip", "pending", "nofill"}
             /\ b.rows[i].why \notin {"cap", "nofill"} /\ Signal(i) = bk.start + 1
    <2>1. i \in NewIds(bk, S) /\ b.rows[i] = bk.decisions[Pair(i)].rows[i]
        BY <1>1 DEF Storing, Source
    <2>2. /\ Pair(i) \in DOMAIN bk.decisions /\ i \in DOMAIN bk.decisions[Pair(i)].rows
          /\ Signal(i) = bk.start + 1 /\ IsNew(b.rows[i])
        BY <2>1, NewIdsAre
    <2>3. b.rows[i].why # "nofill"
        BY <2>1, <2>2 DEF HasNofill
    <2> QED
        BY <2>2, <2>3 DEF IsNew
<1> QED
    BY <1>1 DEF NewRowsAre, Storing, Source

LEMMA StoredSlots ==
    ASSUME NEW bk \in Buckets, CanReplay(bk), Entries(bk.image), SlotsOf(bk.image.rows),
           NEW S, NEW b, Storing(bk, S, b),
           \A p \in DOMAIN bk.decisions : ~HasNofill(bk.decisions[p])
    PROVE  Entries(b) /\ SlotsOf(b.rows)
<1>1. /\ NewRowsAre(bk, b) /\ DOMAIN bk.image.rows \subseteq DOMAIN b.rows
      /\ \A i \in DOMAIN bk.image.rows : b.rows[i] = bk.image.rows[i]
    BY StoredRows
<1>2. DOMAIN bk.image.open \subseteq DOMAIN bk.image.rows /\ b.open = bk.image.open
    BY DEF CanReplay, AccountsOf, Positions, Storing
<1>3. Entries(b)
    BY <1>1, <1>2 DEF Entries
<1>4. \A t : Occupies(b.rows, t) = Occupies(bk.image.rows, t)
    BY <1>1 DEF Occupies, NewRowsAre
<1>5. SlotsOf(b.rows)
    BY <1>4 DEF SlotsOf
<1> QED
    BY <1>3, <1>5

(* The orders that the bucket may decide.                                     *)
Open(bk, i) == i \in Ids /\ (i \in bk.image.resting \/ Signal(i) = bk.start + 1)

LEMMA StoredOrders ==
    ASSUME NEW bk \in Buckets, CanReplay(bk), NEW S, NEW b, Storing(bk, S, b), NEW i \in b.resting
    PROVE  Open(bk, i)
<1>1. b \in Books /\ AccountsOf(b)
    BY DEF Storing
<1>2. i \in DOMAIN b.rows /\ b.rows[i].fill = "pending" /\ i \in Ids
    BY <1>1, BookParts DEF AccountsOf, Orders
<1>3. CASE i \in DOMAIN bk.image.rows
    <2>1. bk.image.rows[i].fill = "pending"
        BY <1>2, <1>3 DEF Storing, Source
    <2> QED
        BY <1>2, <1>3, <2>1 DEF CanReplay, AccountsOf, Orders, Open
<1>4. CASE i \notin DOMAIN bk.image.rows
    <2>1. i \in NewIds(bk, S)
        BY <1>2, <1>4 DEF Storing
    <2> QED
        BY <1>2, <2>1, NewIdsAre DEF Open
<1> QED
    BY <1>3, <1>4

(* With the feed "live" an order fills in the bar of the bucket, or in the bar  *)
(* now open when that is the first of the order.                             *)
FillsInBar(bk, i) ==
    /\ bk.start <= FillBar(bk, i) /\ Signal(i) <= FillBar(bk, i)
    /\ FillBar(bk, i) = bk.start \/ FillBar(bk, i) = Signal(i)
    /\ FillBar(bk, i) <= bk.start + 1

LEMMA FillBarLive ==
    ASSUME TimesOK, NEW bk, NEW thr, ThroughOK(thr), BucketOK(bk, thr, prints),
           Printed(thr, prints, clock), clock = bk.start + 1,
           NEW i, Open(bk, i), FillBar(bk, i) # Never
    PROVE  FillsInBar(bk, i)
<1> DEFINE at == FillBar(bk, i)
           p == Pair(i)
<1>0. bk \in Buckets /\ CanReplay(bk) /\ bk.start \in Nat
    BY BucketParts DEF BucketOK
<1>1. i \in Ids /\ (i \in bk.image.resting \/ Signal(i) = bk.start + 1)
    BY DEF Open
<1>2. p \in Pairs /\ Signal(i) \in Nat /\ Signal(i) % DayBars = 0
    BY <1>1, IdsAre
<1>3. /\ at \in Nat /\ InWindow(i, at) /\ p \in DOMAIN bk.bars
      /\ at \in prints[p] \/ at = bk.start
    BY <1>0, <1>1, FillBarIs, Numbers
<1>4. Signal(i) <= at /\ at < Signal(i) + Window
    BY <1>3 DEF InWindow
<1>5. bk.start <= at
    <2>1. CASE Signal(i) = bk.start + 1
        BY <1>0, <1>3, <1>4, <2>1
    <2>2. CASE i \in bk.image.resting
        <3>1. Unfilled(i, prints[p], Reach(bk, thr, p))
            BY <2>2 DEF BucketOK
        <3>2. at \in prints[p] => at >= bk.start
            BY <1>3, <3>1 DEF Unfilled, Reach
        <3> QED
            BY <1>0, <1>3, <3>2
    <2> QED
        BY <1>1, <2>1, <2>2
<1>6. CASE at = bk.start
    BY <1>0, <1>4, <1>6 DEF FillsInBar
<1>7. CASE at # bk.start
    <2>1. at % DayBars = 0 /\ at <= bk.start + 1
        BY <1>2, <1>3, <1>7 DEF Printed, PrintOK
    <2>2. at = Signal(i)
        <3>1. CASE Signal(i) < at
            <4>1. Signal(i) + DayBars <= at
                BY <1>2, <1>3, <2>1, <3>1, SignalsAreADayApart
            <4> QED
                BY <1>2, <1>3, <1>4, <4>1, Numbers
        <3> QED
            BY <1>2, <1>3, <1>4, <3>1
    <2> QED
        BY <1>4, <1>5, <2>1, <2>2 DEF FillsInBar
<1> QED
    BY <1>6, <1>7

LEMMA StoredInOrder ==
    ASSUME TimesOK, NEW bk, NEW thr, ThroughOK(thr), BucketOK(bk, thr, prints),
           Printed(thr, prints, clock), clock = bk.start + 1,
           Early(bk.image.rows, bk.start - 1), NEW S, NEW b, Storing(bk, S, b),
           \A p \in DOMAIN bk.decisions : ~HasNofill(bk.decisions[p])
    PROVE  InOrder(bk, b)
<1>0. bk \in Buckets /\ CanReplay(bk) /\ bk.start \in Nat
    BY BucketParts DEF BucketOK
<1>1. /\ NewRowsAre(bk, b) /\ DOMAIN bk.image.rows \subseteq DOMAIN b.rows
      /\ \A i \in DOMAIN bk.image.rows : b.rows[i] = bk.image.rows[i]
    BY <1>0, StoredRows
<1>2. ASSUME NEW i \in DOMAIN b.rows, b.rows[i].fill = "fill" PROVE b.rows[i].at <= bk.start
    <2>1. i \in DOMAIN bk.image.rows
        BY <1>1, <1>2 DEF NewRowsAre
    <2>2. EarlyRow(bk.image.rows[i], i, bk.start - 1)
        BY <2>1 DEF Early
    <2>3. b.rows[i].at <= (bk.start - 1) + 1
        BY <1>1, <1>2, <2>1, <2>2 DEF EarlyRow
    <2>4. (bk.start - 1) + 1 = bk.start
        BY <1>0
    <2> QED
        BY <2>3, <2>4
<1>3. \A j \in b.resting : FillBar(bk, j) # Never => FillsInBar(bk, j)
    BY <1>0, StoredOrders, FillBarLive
<1>4. ASSUME NEW i \in b.resting, NEW j \in b.resting, Outranks(i, j),
             FillsInBar(bk, i), FillsInBar(bk, j)
      PROVE  FillBar(bk, i) <= FillBar(bk, j)
    <2>1. i \in Ids /\ j \in Ids
        BY <1>0, StoredOrders DEF Open
    <2>2. Signal(i) \in Nat /\ Signal(j) \in Nat
        BY <2>1, IdsAre
    <2>3. FillBar(bk, i) \in Nat /\ FillBar(bk, j) \in Nat
        BY <1>0, <2>1, FillBarIs, Numbers
    <2>4. Signal(i) <= Signal(j)
        BY <1>4, <2>2 DEF Outranks
    <2> QED
        BY <1>0, <1>4, <2>2, <2>3, <2>4 DEF FillsInBar
<1>5. \A j \in b.resting : FillBar(bk, j) # Never => bk.start <= FillBar(bk, j)
    BY <1>3 DEF FillsInBar
<1> QED
    BY <1>2, <1>3, <1>4, <1>5 DEF InOrder

(* Every row of the replayed book is as the image left it, one a check of the    *)
(* bucket added, or one that the bucket dealt with.                           *)
DealtRow(bk, i, q) ==
    \/ i \in DOMAIN bk.image.rows /\ SameDeal(bk.image.rows[i], q)
    \/ q.by = Never /\ q.fill # "fill" /\ q.why \notin {"cap", "nofill"}
    \/ NewlyDealt(bk, i, q)

ReplayDeals(bk, c) ==
    /\ Entries(c) /\ SlotsOf(c.rows)
    /\ \A i \in DOMAIN c.rows : DealtRow(bk, i, c.rows[i])
    /\ \A i \in DOMAIN c.rows : NewlyDealt(bk, i, c.rows[i]) => Open(bk, i)
    /\ \A i \in c.resting : Open(bk, i) /\ FillBar(bk, i) = Never
    /\ \A i, j \in DOMAIN c.rows :
          /\ NewlyDealt(bk, i, c.rows[i]) /\ NewlyDealt(bk, j, c.rows[j])
          /\ c.rows[i].fill = "fill" /\ c.rows[j].why = "cap" /\ c.rows[i].at = c.rows[j].at
          => Outranks(i, j)

LEMMA ReplayedDeals ==
    ASSUME TimesOK, NEW bk, NEW thr, ThroughOK(thr), BucketOK(bk, thr, prints),
           Printed(thr, prints, clock), clock = bk.start + 1, NEW dp,
           BucketLive(bk, thr, prints, dp), NEW c, c = Replayed(bk)
    PROVE  ReplayDeals(bk, c)
<1>0. bk \in Buckets /\ CanReplay(bk) /\ bk.start \in Nat
    BY BucketParts DEF BucketOK
<1>1. PICK a : a = Stored(bk)
    OBVIOUS
<1>2. PICK b : b = Resolved(bk, a)
    OBVIOUS
<1> DEFINE S == DOMAIN bk.bars
           T == Of(DOMAIN bk.bars)
<1>3. Storing(bk, S, a) /\ ResolvedIs(bk, a, b) /\ Exiting(bk, T, b, c)
    BY <1>0, <1>1, <1>2, ReplayStages
<1> HIDE DEF S, T
<1>4. /\ a \in Books /\ AccountsOf(a) /\ b \in Books /\ AccountsOf(b) /\ DOMAIN b.rows = DOMAIN a.rows
      /\ b.resting \subseteq a.resting /\ \A i \in b.resting : FillBar(bk, i) = Never
    BY <1>3 DEF Storing, ResolvedIs, Resolving
<1>5. /\ Entries(bk.image) /\ SlotsOf(bk.image.rows) /\ Early(bk.image.rows, bk.start - 1)
      /\ \A p \in DOMAIN bk.decisions : ~HasNofill(bk.decisions[p])
    BY DEF BucketLive, BookLive
<1>6. Entries(a) /\ SlotsOf(a.rows)
    BY <1>0, <1>3, <1>5, StoredSlots
<1>7. InOrder(bk, a)
    BY <1>3, <1>5, StoredInOrder
<1>8. Deals(bk, a, a.resting, b)
    BY <1>0, <1>2, <1>4, <1>6, <1>7, ResolvedDeals
<1>9. Entries(b) /\ SlotsOf(b.rows)
    BY <1>8 DEF Deals
<1>10. ExitsOnly(b, c) /\ Entries(c) /\ SlotsOf(c.rows)
    BY <1>0, <1>3, <1>4, <1>9, ExitedDeals
<1>11. c.resting = b.resting /\ DOMAIN c.rows = DOMAIN a.rows
    BY <1>3, <1>4, <1>10 DEF Exiting, ExitsOnly
<1>12. /\ NewRowsAre(bk, a)
       /\ \A i \in DOMAIN bk.image.rows : i \in DOMAIN a.rows /\ a.rows[i] = bk.image.rows[i]
    BY <1>0, <1>3, <1>5, StoredRows
<1>13. \A i \in a.resting : Open(bk, i)
    BY <1>0, <1>3, StoredOrders
<1>14. ASSUME NEW i \in DOMAIN c.rows
       PROVE  i \in DOMAIN a.rows /\ SameDeal(b.rows[i], c.rows[i])
    BY <1>4, <1>10, <1>11 DEF ExitsOnly
<1>15. ASSUME NEW i \in DOMAIN c.rows
       PROVE  NewlyDealt(bk, i, b.rows[i]) <=> NewlyDealt(bk, i, c.rows[i])
    BY <1>14 DEF SameDeal, NewlyDealt
<1>16. ASSUME NEW i \in DOMAIN a.rows PROVE DealtRow(bk, i, b.rows[i])
    <2>1. CASE b.rows[i] = a.rows[i]
        <3>1. CASE i \in DOMAIN bk.image.rows
            BY <1>12, <2>1, <3>1 DEF DealtRow, SameDeal
        <3>2. CASE i \notin DOMAIN bk.image.rows
            BY <1>12, <2>1, <3>2 DEF DealtRow, NewRowsAre
        <3> QED
            BY <3>1, <3>2
    <2>2. CASE b.rows[i] # a.rows[i]
        BY <1>8, <2>2 DEF Deals, DealtRow
    <2> QED
        BY <2>1, <2>2
<1>17. ASSUME NEW i \in DOMAIN c.rows PROVE DealtRow(bk, i, c.rows[i])
    BY <1>14, <1>15, <1>16 DEF DealtRow, SameDeal
<1>18. ASSUME NEW i \in DOMAIN a.rows, NewlyDealt(bk, i, b.rows[i]) PROVE i \in a.resting
    <2>1. ASSUME i \notin a.resting PROVE FALSE
        <3>1. b.rows[i] = a.rows[i]
            BY <1>8, <2>1 DEF Deals
        <3>2. b.rows[i].by = bk.start /\ b.rows[i].why \in {"none", "cap", "nofill"}
              /\ (b.rows[i].fill = "fill" \/ b.rows[i].why \in {"cap", "nofill"})
            BY <1>18 DEF NewlyDealt
        <3>3. i \in DOMAIN bk.image.rows
            BY <1>12, <3>1, <3>2 DEF NewRowsAre
        <3>4. bk.image.rows[i].by <= bk.start - 1
            BY <1>5, <3>3 DEF Early, EarlyRow
        <3> QED
            BY <1>0, <1>12, <3>1, <3>2, <3>3, <3>4
    <2> QED
        BY <2>1
<1>19. \A i \in DOMAIN c.rows : NewlyDealt(bk, i, c.rows[i]) => Open(bk, i)
    BY <1>13, <1>14, <1>15, <1>18
<1>20. \A i \in c.resting : Open(bk, i) /\ FillBar(bk, i) = Never
    BY <1>4, <1>11, <1>13
<1>21. ASSUME NEW i \in DOMAIN c.rows, NEW j \in DOMAIN c.rows,
              NewlyDealt(bk, i, c.rows[i]), NewlyDealt(bk, j, c.rows[j]),
              c.rows[i].fill = "fill", c.rows[j].why = "cap", c.rows[i].at = c.rows[j].at
       PROVE  Outranks(i, j)
    <2>1. i \in a.resting /\ j \in a.resting
        BY <1>14, <1>15, <1>18, <1>21
    <2>2. b.rows[i].fill = "fill" /\ b.rows[j].why = "cap" /\ b.rows[i].at = b.rows[j].at
        BY <1>14, <1>21 DEF SameDeal
    <2> QED
        BY <1>8, <2>1, <2>2 DEF Deals
<1> QED
    BY <1>10, <1>17, <1>19, <1>20, <1>21 DEF ReplayDeals

LEMMA ReplayedEarly ==
    ASSUME NEW bk \in Buckets, clock = bk.start + 1, NEW c, ReplayDeals(bk, c),
           Early(bk.image.rows, bk.start - 1),
           \A i : Open(bk, i) /\ FillBar(bk, i) # Never => FillsInBar(bk, i)
    PROVE  Early(c.rows, bk.start) /\ \A i \in DOMAIN c.rows :
              i \in DOMAIN bk.image.rows /\ SameDeal(bk.image.rows[i], c.rows[i])
                 => c.rows[i].by < bk.start
<1>0. bk.start \in Nat /\ (bk.start - 1) + 1 = bk.start
    BY BucketParts
<1>1. ASSUME NEW i \in DOMAIN c.rows, i \in DOMAIN bk.image.rows,
             SameDeal(bk.image.rows[i], c.rows[i])
      PROVE  EarlyRow(c.rows[i], i, bk.start) /\ c.rows[i].by < bk.start
    <2>1. EarlyRow(bk.image.rows[i], i, bk.start - 1)
        BY <1>1 DEF Early
    <2>2. bk.image \in Books
        BY BucketParts
    <2>3. i \in Ids /\ bk.image.rows[i] \in Row
        BY <1>1, <2>2, BookParts
    <2>4. bk.image.rows[i].by \in Nat /\ bk.image.rows[i].at \in Nat
        BY <2>3 DEF Row
    <2>5. Signal(i) \in Nat /\ Window \in Nat
        BY <2>3, IdsAre, Numbers
    <2> QED
        BY <1>0, <1>1, <2>1, <2>4, <2>5 DEF EarlyRow, SameDeal
<1>2. ASSUME NEW i \in DOMAIN c.rows, NewlyDealt(bk, i, c.rows[i])
      PROVE  EarlyRow(c.rows[i], i, bk.start)
    <2>1. c.rows[i].by <= bk.start
        BY <1>0, <1>2 DEF NewlyDealt
    <2>2. c.rows[i].fill = "fill" => c.rows[i].at <= bk.start + 1
        BY <1>2 DEF NewlyDealt, ReplayDeals, FillsInBar
    <2>3. c.rows[i].why = "nofill" => Signal(i) + Window <= bk.start + 1
        <3>1. i \in Ids
            BY <1>2 DEF ReplayDeals, Open
        <3>2. Signal(i) \in Nat /\ Window \in Nat
            BY <3>1, IdsAre, Numbers
        <3> QED
            BY <1>0, <1>2, <3>2 DEF NewlyDealt
    <2> QED
        BY <2>1, <2>2, <2>3 DEF EarlyRow
<1>3. ASSUME NEW i \in DOMAIN c.rows, c.rows[i].by = Never, c.rows[i].fill # "fill",
             c.rows[i].why \notin {"cap", "nofill"}
      PROVE  EarlyRow(c.rows[i], i, bk.start)
    BY <1>0, <1>3 DEF EarlyRow, Never
<1>4. ASSUME NEW i \in DOMAIN c.rows PROVE EarlyRow(c.rows[i], i, bk.start)
    <2>1. DealtRow(bk, i, c.rows[i])
        BY DEF ReplayDeals
    <2> QED
        BY <1>1, <1>2, <1>3, <2>1 DEF DealtRow
<1> QED
    BY <1>1, <1>4 DEF Early

LEMMA ReplayedRanks ==
    ASSUME NEW bk \in Buckets, NEW c, ReplayDeals(bk, c), RanksOf(bk.image.rows),
           \A i \in DOMAIN c.rows :
              i \in DOMAIN bk.image.rows /\ SameDeal(bk.image.rows[i], c.rows[i])
                 => c.rows[i].by < bk.start
    PROVE  RanksOf(c.rows)
<1>0. bk.start \in Nat /\ ~(bk.start < bk.start)
    BY BucketParts
<1> DEFINE Old(i) == i \in DOMAIN bk.image.rows /\ SameDeal(bk.image.rows[i], c.rows[i])
<1>1. ASSUME NEW i \in DOMAIN c.rows, c.rows[i].fill = "fill" \/ c.rows[i].why = "cap"
      PROVE  Old(i) \/ NewlyDealt(bk, i, c.rows[i])
    <2>1. DealtRow(bk, i, c.rows[i])
        BY DEF ReplayDeals
    <2> QED
        BY <1>1, <2>1 DEF DealtRow
<1>2. ASSUME NEW i \in DOMAIN c.rows, NEW j \in DOMAIN c.rows,
             c.rows[i].fill = "fill", c.rows[j].why = "cap",
             c.rows[i].at = c.rows[j].at, c.rows[i].by = c.rows[j].by
      PROVE  Outranks(i, j)
    <2>1. CASE Old(i) /\ Old(j)
        BY <1>2, <2>1 DEF RanksOf, SameDeal
    <2>2. CASE NewlyDealt(bk, i, c.rows[i]) /\ NewlyDealt(bk, j, c.rows[j])
        BY <1>2, <2>2 DEF ReplayDeals
    <2>3. CASE Old(i) /\ NewlyDealt(bk, j, c.rows[j])
        <3>1. c.rows[i].by < bk.start /\ c.rows[j].by = bk.start
            BY <2>3 DEF NewlyDealt
        <3> QED
            BY <1>0, <1>2, <3>1
    <2>4. CASE NewlyDealt(bk, i, c.rows[i]) /\ Old(j)
        <3>1. c.rows[j].by < bk.start /\ c.rows[i].by = bk.start
            BY <2>4 DEF NewlyDealt
        <3> QED
            BY <1>0, <1>2, <3>1
    <2> HIDE DEF Old
    <2> QED
        BY <1>1, <1>2, <2>1, <2>2, <2>3, <2>4
<1> QED
    BY <1>2 DEF RanksOf

(* No bar and no print went through the limit of an order that the bucket finds *)
(* untouched, in its window and before the bar now open.                       *)
LEMMA NeverFilled ==
    ASSUME TimesOK, NEW bk, NEW thr, ThroughOK(thr), Behind(thr, clock), BucketOK(bk, thr, prints),
           Printed(thr, prints, clock), clock = bk.start + 1, NEW dp,
           BucketLive(bk, thr, prints, dp), NEW i, Open(bk, i), FillBar(bk, i) = Never
    PROVE  /\ \A t \in dp[Pair(i)] : ~InWindow(i, t)
           /\ Window > 1 /\ clock >= Signal(i) + Window =>
                 \A t \in prints[Pair(i)] : ~InWindow(i, t)
<1> DEFINE p == Pair(i)
<1>0. bk \in Buckets /\ CanReplay(bk) /\ bk.start \in Nat /\ DOMAIN bk.bars \subseteq Pairs
    BY BucketParts DEF BucketOK
<1>1. i \in Ids /\ (i \in bk.image.resting \/ Signal(i) = bk.start + 1)
    BY DEF Open
<1>2. p \in Pairs /\ Signal(i) \in Nat /\ Signal(i) % DayBars = 0 /\ thr[p] \in Nat
    BY <1>1, IdsAre DEF ThroughOK
<1>3. Window \in Nat /\ Window < DayBars /\ DayBars \in Nat
    BY Numbers
<1>4. p \in DOMAIN bk.bars =>
        /\ \A t \in prints[p] : ~InWindow(i, t)
        /\ bk.bars[p].low = "calm" \/ ~InWindow(i, bk.start)
    BY <1>0, <1>1, FillBarIs
<1>5. ASSUME NEW t \in dp[p], InWindow(i, t) PROVE FALSE
    <2>1. DipsOK(thr, dp)
        BY DEF BucketLive
    <2>2. t \in Nat /\ t <= thr[p]
        <3>1. dp[p] \in SUBSET Nat
            BY <1>2, <2>1 DEF DipsOK
        <3> QED
            BY <1>2, <2>1, <3>1 DEF DipsOK
    <2>3. CASE i \in bk.image.resting
        <3>1. InBucket(bk, p, t)
            BY <1>5, <2>3 DEF BucketLive, UntouchedBefore
        <3> QED
            BY <1>4, <1>5, <3>1 DEF InBucket
    <2>4. CASE Signal(i) = bk.start + 1
        <3>1. t >= bk.start + 1
            BY <1>5, <2>2, <2>4 DEF InWindow
        <3> QED
            BY <1>0, <1>2, <2>2, <3>1 DEF Behind
    <2> QED
        BY <1>1, <2>3, <2>4
<1>6. ASSUME Window > 1, clock >= Signal(i) + Window, NEW t \in prints[p], InWindow(i, t)
      PROVE  FALSE
    <2>1. t \in Nat /\ t % DayBars = 0 /\ (t <= thr[p] \/ t >= clock - 1)
        <3>1. prints[p] \in SUBSET (0..MaxClock)
            BY <1>2 DEF TimesOK
        <3> QED
            BY <1>2, <1>6, <3>1, Numbers DEF Printed, PrintOK
    <2>2. Signal(i) <= t /\ t < Signal(i) + Window
        BY <1>6 DEF InWindow
    <2>3. p \notin DOMAIN bk.bars
        BY <1>4, <1>6
    <2>4. i \in bk.image.resting
        <3>1. Signal(i) # bk.start + 1
            BY <1>0, <1>2, <1>3, <1>6
        <3> QED
            BY <1>1, <3>1
    <2>5. t >= thr[p] + 1
        <3>1. Unfilled(i, prints[p], Reach(bk, thr, p))
            BY <2>4 DEF BucketOK
        <3> QED
            BY <1>6, <2>3, <3>1 DEF Unfilled, Reach
    <2>6. t >= bk.start
        BY <1>0, <1>2, <2>1, <2>5
    <2>7. ~(Signal(i) < t)
        <3>1. Signal(i) < t => Signal(i) + DayBars <= t
            BY <1>2, <2>1, SignalsAreADayApart
        <3> QED
            BY <1>2, <1>3, <2>1, <2>2, <3>1
    <2> QED
        BY <1>0, <1>2, <1>3, <1>6, <2>1, <2>2, <2>6, <2>7
<1> QED
    BY <1>5, <1>6

(* With the feed "live" the replay of a bucket is a book that the buckets up to  *)
(* its bar made.                                                             *)
LEMMA ReplayedLive ==
    ASSUME TimesOK, NEW bk, NEW thr, ThroughOK(thr), Behind(thr, clock), BucketOK(bk, thr, prints),
           Printed(thr, prints, clock), clock = bk.start + 1, NEW dp,
           BucketLive(bk, thr, prints, dp), NEW c, c = Replayed(bk)
    PROVE  BookLive(c, bk.start, prints, dp) /\ Untouched(c, dp)
<1>0. bk \in Buckets /\ CanReplay(bk)
    BY DEF BucketOK
<1>1. ReplayDeals(bk, c)
    BY ReplayedDeals
<1>2. /\ Early(bk.image.rows, bk.start - 1) /\ RanksOf(bk.image.rows)
      /\ Window > 1 => TrueNofills(bk.image.rows, prints, dp)
    BY DEF BucketLive, BookLive
<1>3. \A i : Open(bk, i) /\ FillBar(bk, i) # Never => FillsInBar(bk, i)
    BY FillBarLive
<1>4. /\ Early(c.rows, bk.start)
      /\ \A i \in DOMAIN c.rows :
            i \in DOMAIN bk.image.rows /\ SameDeal(bk.image.rows[i], c.rows[i])
               => c.rows[i].by < bk.start
    BY <1>0, <1>1, <1>2, <1>3, ReplayedEarly
<1>5. RanksOf(c.rows)
    BY <1>0, <1>1, <1>2, <1>4, ReplayedRanks
<1>6. ASSUME NEW i \in c.resting PROVE \A t \in dp[Pair(i)] : ~InWindow(i, t)
    <2>1. Open(bk, i) /\ FillBar(bk, i) = Never
        BY <1>1 DEF ReplayDeals
    <2> QED
        BY <2>1, NeverFilled
<1>7. ASSUME Window > 1, NEW i \in DOMAIN c.rows PROVE TrueNofill(c.rows[i], i, prints, dp)
    <2>1. DealtRow(bk, i, c.rows[i])
        BY <1>1 DEF ReplayDeals
    <2>2. CASE i \in DOMAIN bk.image.rows /\ SameDeal(bk.image.rows[i], c.rows[i])
        BY <1>2, <1>7, <2>2 DEF TrueNofills, TrueNofill, SameDeal
    <2>3. CASE NewlyDealt(bk, i, c.rows[i]) /\ c.rows[i].why = "nofill"
        <3>1. Open(bk, i) /\ FillBar(bk, i) = Never /\ clock >= Signal(i) + Window
            BY <1>1, <2>3 DEF ReplayDeals, NewlyDealt
        <3>2. /\ \A t \in dp[Pair(i)] : ~InWindow(i, t)
              /\ \A t \in prints[Pair(i)] : ~InWindow(i, t)
            BY <1>7, <3>1, NeverFilled
        <3> QED
            BY <3>2 DEF TrueNofill
    <2>4. CASE c.rows[i].why # "nofill"
        BY <2>4 DEF TrueNofill
    <2> QED
        BY <2>1, <2>2, <2>3, <2>4 DEF DealtRow
<1>8. Untouched(c, dp)
    BY <1>6 DEF Untouched
<1>9. Window > 1 => TrueNofills(c.rows, prints, dp)
    BY <1>7 DEF TrueNofills
<1> QED
    BY <1>1, <1>4, <1>5, <1>8, <1>9 DEF BookLive, ReplayDeals

(* The bucket under a live feed.                                             *)

LEMMA NewBucketLive ==
    ASSUME NEW b \in Books, NEW k \in Nat, NEW pr, NEW dp, BookLive(b, k, pr, dp),
           Untouched(b, dp), NEW thr, DipsOK(thr, dp), NEW m \in Nat, k < m,
           NEW bk, bk = NewBucket(m, b)
    PROVE  BucketLive(bk, thr, pr, dp)
<1>1. /\ bk.start = m /\ bk.image = b /\ DOMAIN bk.decisions = {}
    BY DEF NewBucket, EmptyMap
<1>2. ASSUME NEW i \in DOMAIN b.rows PROVE EarlyRow(b.rows[i], i, m - 1)
    <2>1. EarlyRow(b.rows[i], i, k)
        BY DEF BookLive, Early
    <2>2. i \in Ids /\ b.rows[i] \in Row
        BY BookParts
    <2>3. b.rows[i].by \in Nat /\ b.rows[i].at \in Nat
        BY <2>2 DEF Row
    <2>4. Signal(i) \in Nat /\ Window \in Nat
        BY <2>2, IdsAre, Numbers
    <2> QED
        BY <2>1, <2>3, <2>4 DEF EarlyRow
<1>3. BookLive(b, m - 1, pr, dp)
    BY <1>2 DEF BookLive, Early
<1>4. UntouchedBefore(bk, dp)
    BY <1>1 DEF Untouched, UntouchedBefore
<1> QED
    BY <1>1, <1>3, <1>4 DEF BucketLive

(* The times of a map and at most the time t.                                *)
Within(more, times, t) == \A p \in Pairs : more[p] \subseteq times[p] \cup {t}

(* A bar or a print of time t is outside every window that has ended by then.  *)
LEMMA NofillsStayTrue ==
    ASSUME NEW b \in Books, NEW k \in Int, NEW pr, NEW dp, BookLive(b, k, pr, dp),
           NEW t \in Nat, k < t, NEW more, Within(more, pr, t), NEW later, Within(later, dp, t)
    PROVE  BookLive(b, k, more, later)
<1>1. ASSUME TrueNofills(b.rows, pr, dp), NEW i \in DOMAIN b.rows
      PROVE  TrueNofill(b.rows[i], i, more, later)
    <2> SUFFICES ASSUME b.rows[i].why = "nofill", NEW u \in more[Pair(i)] \cup later[Pair(i)],
                        InWindow(i, u)
                 PROVE  FALSE
        BY DEF TrueNofill
    <2>1. i \in Ids /\ Pair(i) \in Pairs /\ Signal(i) \in Nat /\ Window \in Nat
        BY BookParts, IdsAre, Numbers
    <2>2. EarlyRow(b.rows[i], i, k)
        BY DEF BookLive, Early
    <2>3. Signal(i) + Window <= k + 1
        BY <2>2 DEF EarlyRow
    <2>4. u \in pr[Pair(i)] \cup dp[Pair(i)] \/ u = t
        BY <2>1 DEF Within
    <2>5. u # t
        BY <2>1, <2>3 DEF InWindow
    <2> QED
        BY <1>1, <2>4, <2>5 DEF TrueNofills, TrueNofill
<1> QED
    BY <1>1 DEF BookLive, TrueNofills

LEMMA AddBarLive ==
    ASSUME NEW bk, NEW thr, ThroughOK(thr), NEW pr, BucketOK(bk, thr, pr), NEW dp,
           BucketLive(bk, thr, pr, dp), NEW p \in Pairs, NEW bar \in Bars, thr[p] < bk.start,
           NEW c, c = [bk EXCEPT !.bars = Merged(@, Entry(p, bar))],
           NEW later, later = [dp EXCEPT ![p] = IF bar.low = "calm" THEN @ ELSE @ \cup {bk.start}]
    PROVE  BucketLive(c, [thr EXCEPT ![p] = bk.start], pr, later)
<1> DEFINE bars == Merged(bk.bars, Entry(p, bar))
           thr1 == [thr EXCEPT ![p] = bk.start]
<1>0. bk \in Buckets
    BY DEF BucketOK
<1>1. bk.start \in Nat /\ bk.image \in Books /\ DipsOK(thr, dp)
    BY <1>0, BucketParts DEF BucketLive
<1>2. p \notin DOMAIN bk.bars
    <2>1. thr[p] # bk.start
        BY <1>1 DEF ThroughOK
    <2> QED
        BY <2>1 DEF BucketOK
<1>3. /\ DOMAIN bars = DOMAIN bk.bars \cup {p} /\ bars[p] = bar
      /\ \A q \in DOMAIN bk.bars : bars[q] = bk.bars[q]
    BY <1>2 DEF Merged, Entry
<1> HIDE DEF bars
<1>4. c = [bk EXCEPT !.bars = bars]
    BY DEF bars
<1>5. /\ c.bars = bars /\ c.start = bk.start /\ c.image = bk.image /\ c.decisions = bk.decisions
    BY <1>0, <1>4 DEF Buckets
<1>6. dp \in [Pairs -> SUBSET Nat]
    BY <1>1 DEF DipsOK
<1>7. /\ later \in [Pairs -> SUBSET Nat]
      /\ \A q \in Pairs : q # p => later[q] = dp[q]
      /\ later[p] \subseteq dp[p] \cup {bk.start}
      /\ bar.low = "calm" => later[p] = dp[p]
    BY <1>1, <1>6
<1>8. /\ thr1[p] = bk.start /\ \A q \in Pairs : q # p => thr1[q] = thr[q]
      /\ \A q \in Pairs : thr[q] \in Nat
    BY DEF ThroughOK
<1> HIDE DEF thr1
<1>9. DipsOK(thr1, later)
    <2> SUFFICES ASSUME NEW q \in Pairs, NEW t \in later[q] PROVE t <= thr1[q]
        BY <1>7 DEF DipsOK
    <2>1. t \in Nat
        BY <1>7
    <2>2. t \in dp[q] => t <= thr[q]
        BY <1>1 DEF DipsOK
    <2>3. CASE q # p
        BY <1>7, <1>8, <2>2, <2>3
    <2>4. CASE q = p
        <3>1. t \in dp[p] \/ t = bk.start
            BY <1>7, <2>4
        <3> QED
            BY <1>1, <1>8, <2>1, <2>2, <2>4, <3>1
    <2> QED
        BY <2>3, <2>4
<1>10. UntouchedBefore(c, later)
    <2> SUFFICES ASSUME NEW i \in bk.image.resting, NEW t \in later[Pair(i)], InWindow(i, t)
                 PROVE  InBucket(c, Pair(i), t)
        BY <1>5 DEF UntouchedBefore
    <2>0. Pair(i) \in Pairs
        BY <1>1, BookParts, IdsAre
    <2>1. CASE t \in dp[Pair(i)]
        <3>1. InBucket(bk, Pair(i), t)
            BY <2>1 DEF BucketLive, UntouchedBefore
        <3> QED
            BY <1>3, <1>5, <3>1 DEF InBucket
    <2>2. CASE t \notin dp[Pair(i)]
        <3>1. Pair(i) = p /\ t = bk.start /\ bar.low # "calm"
            BY <1>7, <2>0, <2>2
        <3> QED
            BY <1>3, <1>5, <3>1 DEF InBucket
    <2> QED
        BY <2>1, <2>2
<1>11. BookLive(bk.image, bk.start - 1, pr, later)
    <2> DEFINE k == bk.start - 1
    <2>1. k \in Int /\ k < bk.start /\ BookLive(bk.image, k, pr, dp)
        BY <1>1 DEF BucketLive
    <2>2. Within(pr, pr, bk.start) /\ Within(later, dp, bk.start)
        BY <1>7 DEF Within
    <2> HIDE DEF k
    <2>3. BookLive(bk.image, k, pr, later)
        BY <1>1, <2>1, <2>2, NofillsStayTrue
    <2> QED
        BY <2>3 DEF k
<1>12. \A q \in DOMAIN c.decisions : ~HasNofill(c.decisions[q])
    BY <1>5 DEF BucketLive
<1> QED
    BY <1>5, <1>9, <1>10, <1>11, <1>12 DEF BucketLive, thr1

LEMMA RememberLive ==
    ASSUME NEW bk \in Buckets, NEW thr, NEW pr, NEW dp, BucketLive(bk, thr, pr, dp), NEW p,
           p \notin DOMAIN bk.decisions, NEW d, ~HasNofill(d), NEW c, c = Remember(bk, p, d)
    PROVE  BucketLive(c, thr, pr, dp)
<1> DEFINE decisions == Merged(bk.decisions, Entry(p, d))
<1>1. /\ DOMAIN decisions = DOMAIN bk.decisions \cup {p} /\ decisions[p] = d
      /\ \A q \in DOMAIN bk.decisions : decisions[q] = bk.decisions[q]
    BY DEF Merged, Entry
<1>2. c = [bk EXCEPT !.decisions = decisions]
    BY DEF Remember
<1> HIDE DEF decisions
<1>3. /\ c.bars = bk.bars /\ c.start = bk.start /\ c.image = bk.image /\ c.decisions = decisions
    BY <1>2 DEF Buckets
<1>4. \A q \in DOMAIN c.decisions : ~HasNofill(c.decisions[q])
    <2>1. \A q \in DOMAIN bk.decisions : ~HasNofill(bk.decisions[q])
        BY DEF BucketLive
    <2> QED
        BY <1>1, <1>3, <2>1
<1>5. UntouchedBefore(c, dp)
    BY <1>3 DEF BucketLive, UntouchedBefore, InBucket
<1>6. BookLive(c.image, c.start - 1, pr, dp) /\ DipsOK(thr, dp)
    BY <1>3 DEF BucketLive
<1> QED
    BY <1>4, <1>5, <1>6 DEF BucketLive

LEMMA TradedLive ==
    ASSUME NEW b, NEW bk, NEW thr, NEW pr, pr \in [Pairs -> SUBSET (0..MaxClock)],
           BookOK(b, thr, pr), BucketOK(bk, thr, pr), NEW dp, NEW now \in Nat,
           LiveOK(b, bk, thr, pr, dp, now), NEW p \in Pairs,
           NEW more, more = [pr EXCEPT ![p] = @ \cup {now}]
    PROVE  LiveOK(b, bk, thr, more, dp, now)
<1>1. b \in Books /\ bk.start \in Nat /\ bk.image \in Books
    BY BucketParts DEF BookOK, BucketOK
<1>2. BookLive(b, bk.start, pr, dp) /\ Untouched(b, dp) /\ BucketLive(bk, thr, pr, dp)
      /\ bk.start < now
    BY DEF LiveOK
<1>3. Within(more, pr, now) /\ Within(dp, dp, now)
    BY DEF Within
<1>4. BookLive(b, bk.start, more, dp)
    <2>1. bk.start \in Int
        BY <1>1
    <2> QED
        BY <1>1, <1>2, <1>3, <2>1, NofillsStayTrue
<1>5. BookLive(bk.image, bk.start - 1, more, dp)
    <2> DEFINE k == bk.start - 1
    <2>1. k \in Int /\ k < now /\ BookLive(bk.image, k, pr, dp)
        BY <1>1, <1>2 DEF BucketLive
    <2> HIDE DEF k
    <2>2. BookLive(bk.image, k, more, dp)
        BY <1>1, <1>3, <2>1, NofillsStayTrue
    <2> QED
        BY <2>2 DEF k
<1>6. BucketLive(bk, thr, more, dp)
    BY <1>2, <1>5 DEF BucketLive
<1> QED
    BY <1>2, <1>4, <1>6 DEF LiveOK

(* The inductive invariant of the live feed.  What is saved matters as long as  *)
(* it may be restored.                                                       *)
LiveInv ==
    feed = "live" =>
        /\ LiveOK(book, bucket, through, prints, dips, clock)
        /\ Printed(through, prints, clock)
        /\ crashes < MaxCrashes =>
              /\ LiveOK(saved.book, saved.bucket, saved.through, prints, saved.dips, clock)
              /\ Printed(saved.through, prints, clock)

LEMMA InitLive == Init => LiveInv
<1> SUFFICES ASSUME Init PROVE LiveInv
    OBVIOUS
<1>1. /\ clock = DayBars /\ prints = [p \in Pairs |-> {}] /\ through = [p \in Pairs |-> DayBars - 2]
      /\ book = EmptyBook /\ bucket = NewBucket(Never, EmptyBook)
      /\ dips = [p \in Pairs |-> {}] /\ saved = FirstSnapshot
    BY DEF Init, FirstSnapshot
<1>2. /\ saved.book = book /\ saved.bucket = bucket /\ saved.through = through /\ saved.dips = dips
    BY <1>1 DEF FirstSnapshot
<1>3. /\ DOMAIN book.rows = {} /\ DOMAIN book.open = {} /\ book.resting = {}
    BY <1>1 DEF EmptyBook, EmptyMap
<1>4. /\ bucket.start = 0 /\ bucket.image = book /\ DOMAIN bucket.decisions = {}
    BY <1>1 DEF NewBucket, Never, EmptyMap
<1>5. ASSUME NEW k PROVE BookLive(book, k, prints, dips)
    <2>1. \A t : Occupies(book.rows, t) = {}
        BY <1>3 DEF Occupies
    <2>2. SlotsOf(book.rows)
        BY <2>1, FS_EmptySet, Numbers DEF SlotsOf
    <2> QED
        BY <1>3, <2>2 DEF BookLive, Entries, RanksOf, Early, TrueNofills
<1>6. Untouched(book, dips) /\ UntouchedBefore(bucket, dips)
    BY <1>3, <1>4 DEF Untouched, UntouchedBefore
<1>7. DipsOK(through, dips)
    BY <1>1 DEF DipsOK
<1>8. BucketLive(bucket, through, prints, dips)
    BY <1>4, <1>5, <1>6, <1>7 DEF BucketLive
<1>9. LiveOK(book, bucket, through, prints, dips, clock)
    <2>1. bucket.start < clock
        BY <1>1, <1>4, Numbers
    <2> QED
        BY <1>5, <1>6, <1>8, <2>1 DEF LiveOK
<1>10. Printed(through, prints, clock)
    BY <1>1 DEF Printed
<1> QED
    BY <1>2, <1>9, <1>10 DEF LiveInv

LEMMA PushedLive ==
    ASSUME IInv, LiveInv, feed = "live", NEW p \in Pairs, Push(p)
    PROVE  /\ LiveOK(book', bucket', through', prints, dips', clock)
           /\ Printed(through', prints, clock)
<1>0. /\ TimesOK /\ Behind(through, clock)
      /\ ThroughOK(through) /\ BookOK(book, through, prints) /\ BucketOK(bucket, through, prints)
      /\ LiveOK(book, bucket, through, prints, dips, clock) /\ Printed(through, prints, clock)
    BY DEF IInv, Sound, LiveInv
<1>1. PICK k \in Due(p), bar \in Bars, quote \in Quotes :
        LET full == [BucketOf(k) EXCEPT !.bars = Merged(@, Entry(p, bar))]
            before == ReplayedTo(full, p)
            after == Checked(before, <<p, k + 1>>, quote)
            next == IF IsDayCloseBar(k) /\ p \notin DOMAIN full.decisions
                    THEN Remember(full, p, Decision(before, after))
                    ELSE full
        IN /\ bucket' = next
           /\ book' = Replayed(next)
           /\ through' = [through EXCEPT ![p] = k]
           /\ dips' = [dips EXCEPT ![p] = IF bar.low = "calm" THEN @ ELSE @ \cup {k}]
           /\ UNCHANGED <<feed, ticks, clock, prints, early, saved, crashes>>
    BY DEF Push
<1>2. PICK bk : bk = BucketOf(k)
    OBVIOUS
<1>3. PICK full : full = [bk EXCEPT !.bars = Merged(@, Entry(p, bar))]
    OBVIOUS
<1>4. PICK e : e = ReplayedTo(full, p)
    OBVIOUS
<1>5. PICK id : id = <<p, k + 1>>
    OBVIOUS
<1>6. PICK c : c = Checked(e, id, quote)
    OBVIOUS
<1>7. PICK d : d = Decision(e, c)
    OBVIOUS
<1>8. PICK next : next = IF IsDayCloseBar(k) /\ p \notin DOMAIN full.decisions
                         THEN Remember(full, p, d) ELSE full
    OBVIOUS
<1>9. /\ bucket' = next /\ book' = Replayed(next) /\ through' = [through EXCEPT ![p] = k]
      /\ dips' = [dips EXCEPT ![p] = IF bar.low = "calm" THEN @ ELSE @ \cup {k}]
      /\ clock' = clock /\ prints' = prints
    BY <1>1, <1>2, <1>3, <1>4, <1>5, <1>6, <1>7, <1>8
<1>10. /\ k \in 0..(MaxClock - 1) /\ k \in Nat /\ through[p] < k /\ k = clock - 1 /\ clock = k + 1
       /\ \A t \in (through[p] + 1)..(k - 1) : t \notin prints[p]
    <2>1. /\ k \in (through[p] + 1)..(clock - 1) /\ k = clock - 1
          /\ \A t \in (through[p] + 1)..(k - 1) : t \notin prints[p]
        BY DEF Due
    <2>2. through[p] \in 0..MaxClock /\ clock \in 0..MaxClock
        BY <1>0 DEF ThroughOK, TimesOK
    <2>3. k \in 0..(MaxClock - 1) /\ k \in Nat /\ through[p] < k /\ clock = k + 1
        BY <2>1, <2>2, Numbers
    <2> QED
        BY <2>1, <2>3
<1>11. BucketOK(bk, through, prints) /\ bk.start = k /\ BucketLive(bk, through, prints, dips)
    <2>1. CASE bucket.start = k
        BY <1>0, <1>2, <2>1 DEF BucketOf, LiveOK
    <2>2. CASE bucket.start # k
        <3>1. bk = NewBucket(k, book)
            BY <1>2, <2>2 DEF BucketOf
        <3>2. bk.start = k
            BY <3>1 DEF NewBucket
        <3>3. BucketOK(bk, through, prints)
            BY <1>0, <1>10, <3>1, NewBucketOK
        <3>4. bucket.start \in Nat /\ book \in Books
            BY <1>0, BucketParts DEF BucketOK, BookOK
        <3>5. bucket.start < k
            BY <1>0, <1>10, <2>2, <3>4 DEF LiveOK
        <3>6. BookLive(book, bucket.start, prints, dips) /\ Untouched(book, dips)
              /\ DipsOK(through, dips)
            BY <1>0 DEF LiveOK, BucketLive
        <3>7. BucketLive(bk, through, prints, dips)
            BY <1>10, <3>1, <3>4, <3>5, <3>6, NewBucketLive
        <3> QED
            BY <3>2, <3>3, <3>7
    <2> QED
        BY <2>1, <2>2
<1> DEFINE thr == [through EXCEPT ![p] = k]
<1>12. BucketOK(full, thr, prints)
    <2>1. prints \in [Pairs -> SUBSET (0..MaxClock)]
        BY <1>0 DEF TimesOK
    <2> QED
        BY <1>0, <1>3, <1>10, <1>11, <2>1, AddBar
<1>13. BucketLive(full, thr, prints, dips')
    BY <1>0, <1>3, <1>9, <1>10, <1>11, AddBarLive
<1>14. ThroughOK(thr) /\ Behind(thr, clock)
    <2>1. k \in 0..MaxClock /\ k < clock
        BY <1>10, Numbers
    <2> QED
        BY <1>0, <2>1 DEF ThroughOK, Behind
<1>15. Printed(thr, prints, clock)
    <2> SUFFICES ASSUME NEW q \in Pairs, NEW t \in prints[q]
                 PROVE  PrintOK(t, thr[q], clock)
        BY DEF Printed
    <2>1. PrintOK(t, through[q], clock)
        BY <1>0 DEF Printed
    <2>2. t \in Nat /\ through[q] \in Nat
        <3>1. prints[q] \in SUBSET (0..MaxClock) /\ through[q] \in 0..MaxClock
            BY <1>0 DEF TimesOK, ThroughOK
        <3> QED
            BY <3>1, Numbers
    <2>3. thr[q] \in Nat /\ through[q] <= thr[q]
        BY <1>0, <1>10, <2>2 DEF ThroughOK
    <2> HIDE DEF thr
    <2> QED
        BY <2>1, <2>2, <2>3 DEF PrintOK
<1> HIDE DEF thr
<1>16. full.start = k /\ full \in Buckets /\ CanReplay(full)
    <2>1. bk \in Buckets
        BY <1>11 DEF BucketOK
    <2>2. full.start = bk.start
        BY <1>3, <2>1 DEF Buckets
    <2> QED
        BY <1>11, <1>12, <2>2 DEF BucketOK
<1>17. BucketLive(next, thr, prints, dips') /\ next.start = k
    <2>1. CASE IsDayCloseBar(k) /\ p \notin DOMAIN full.decisions
        <3>1. p \in DOMAIN full.bars
            BY <1>3, <1>11 DEF Merged, Entry, BucketOK, Buckets
        <3>2. CheckSees(full, p, e)
            BY <1>0, <1>4, <1>16, <3>1, ReplayedToSees
        <3>3. id \in Ids /\ Signal(id) = k + 1
            <4>1. k + 1 \in 1..MaxClock
                BY <1>10, Numbers
            <4> QED
                BY <1>5, <2>1, <4>1 DEF Ids, Signals, IsDayCloseBar, Signal
        <3>4. e \in Books
            BY <3>2 DEF CheckSees
        <3>5. c = e \/ Added(e, id, c)
            BY <1>6, <3>3, <3>4, CheckedIs
        <3>6. id = <<p, full.start + 1>>
            BY <1>5, <1>16
        <3>7. HasNofill(d) => clock >= Signal(id) + Window
            BY <1>7, <1>16, <3>2, <3>3, <3>5, <3>6, DecisionIs
        <3>8. ~HasNofill(d)
            BY <1>10, <3>3, <3>7, Numbers
        <3>9. next = Remember(full, p, d)
            BY <1>8, <2>1
        <3>10. next.start = full.start
            BY <1>16, <3>9 DEF Remember, Buckets
        <3> QED
            BY <1>13, <1>16, <2>1, <3>8, <3>9, <3>10, RememberLive
    <2>2. CASE ~(IsDayCloseBar(k) /\ p \notin DOMAIN full.decisions)
        BY <1>8, <1>13, <1>16, <2>2
    <2> QED
        BY <2>1, <2>2
<1>18. BucketOK(next, thr, prints)
    <2>1. IInv'
        BY PushOK
    <2>2. BucketOK(bucket', through', prints')
        BY <2>1 DEF IInv, Sound
    <2> QED
        BY <1>9, <2>2 DEF thr
<1>19. BookLive(book', k, prints, dips') /\ Untouched(book', dips')
    <2>1. clock = next.start + 1
        BY <1>10, <1>17
    <2>2. BookLive(book', next.start, prints, dips') /\ Untouched(book', dips')
        BY <1>0, <1>9, <1>14, <1>15, <1>17, <1>18, <2>1, ReplayedLive
    <2> QED
        BY <1>17, <2>2
<1>20. LiveOK(book', next, thr, prints, dips', clock)
    BY <1>10, <1>17, <1>19 DEF LiveOK
<1> QED
    BY <1>9, <1>15, <1>20 DEF thr

LEMMA LaterLive ==
    ASSUME NEW b, NEW bk \in Buckets, NEW thr, NEW pr, NEW dp, NEW now \in Nat,
           LiveOK(b, bk, thr, pr, dp, now)
    PROVE  LiveOK(b, bk, thr, pr, dp, now + 1)
<1>1. bk.start \in Nat /\ bk.start < now
    BY BucketParts DEF LiveOK
<1>2. bk.start < now + 1
    BY <1>1
<1> QED
    BY <1>2 DEF LiveOK

LEMMA NextLive == IInv /\ LiveInv /\ [Next]_vars => LiveInv'
<1> SUFFICES ASSUME IInv, LiveInv, [Next]_vars, feed' = "live"
             PROVE  LiveInv'
    BY DEF LiveInv
<1>0. /\ TimesOK /\ ThroughOK(through)
      /\ BookOK(book, through, prints) /\ BucketOK(bucket, through, prints)
      /\ crashes < MaxCrashes => /\ BookOK(saved.book, saved.through, prints)
                                 /\ BucketOK(saved.bucket, saved.through, prints)
    BY DEF IInv, Sound
<1>a. feed' = feed /\ feed = "live"
    <2>1. ASSUME NEW p \in Pairs, Push(p) PROVE feed' = feed
        BY <2>1 DEF Push
    <2>2. ASSUME NEW p \in Pairs, Trade(p) PROVE feed' = feed
        BY <2>2 DEF Trade
    <2>3. Tick \/ Save \/ Restart \/ UNCHANGED vars => feed' = feed
        BY DEF Tick, Save, Restart, vars
    <2> QED
        BY <2>1, <2>2, <2>3 DEF Next
<1>b. /\ LiveOK(book, bucket, through, prints, dips, clock)
      /\ Printed(through, prints, clock)
      /\ crashes < MaxCrashes =>
            /\ LiveOK(saved.book, saved.bucket, saved.through, prints, saved.dips, clock)
            /\ Printed(saved.through, prints, clock)
    BY <1>a DEF LiveInv
<1>c. bucket \in Buckets /\ clock \in Nat
      /\ prints \in [Pairs -> SUBSET (0..MaxClock)]
    BY <1>0, Numbers DEF BucketOK, TimesOK
<1>d. \A s : s = Snapshot => /\ s.book = book /\ s.bucket = bucket
                             /\ s.through = through /\ s.dips = dips
    BY DEF Snapshot
<1>1. CASE Tick
    <2>1. /\ clock' = clock + 1 /\ prints' = prints /\ through' = through /\ book' = book
          /\ bucket' = bucket /\ crashes' = crashes /\ dips' = dips
          /\ saved' = IF crashes < MaxCrashes THEN Snapshot ELSE saved
          /\ \A p \in Pairs : clock - 1 \in prints[p] => through[p] = clock - 1
        BY <1>1, <1>a DEF Tick
    <2>2. LiveOK(book, bucket, through, prints, dips, clock + 1)
        BY <1>b, <1>c, LaterLive
    <2>4. Printed(through, prints, clock + 1)
        <3> SUFFICES ASSUME NEW q \in Pairs, NEW t \in prints[q]
                     PROVE  PrintOK(t, through[q], clock + 1)
            BY DEF Printed
        <3>1. PrintOK(t, through[q], clock)
            BY <1>b DEF Printed
        <3>2. t \in Nat /\ through[q] \in Nat
            <4>1. prints[q] \in SUBSET (0..MaxClock) /\ through[q] \in 0..MaxClock
                BY <1>0 DEF TimesOK, ThroughOK
            <4> QED
                BY <4>1, Numbers
        <3>3. t = clock - 1 => through[q] = clock - 1
            BY <2>1
        <3> QED
            BY <1>c, <3>1, <3>2, <3>3 DEF PrintOK
    <2>5. CASE crashes < MaxCrashes
        <3>1. /\ saved'.book = book /\ saved'.bucket = bucket
              /\ saved'.through = through /\ saved'.dips = dips
            BY <1>d, <2>1, <2>5
        <3> QED
            BY <2>1, <2>2, <2>4, <3>1 DEF LiveInv
    <2>6. CASE ~(crashes < MaxCrashes)
        BY <2>1, <2>2, <2>4, <2>6 DEF LiveInv
    <2> QED
        BY <2>5, <2>6
<1>2. CASE Save
    <2>1. /\ prints' = prints /\ through' = through /\ book' = book /\ bucket' = bucket
          /\ crashes' = crashes /\ clock' = clock /\ dips' = dips /\ saved' = Snapshot
        BY <1>2 DEF Save
    <2>2. /\ saved'.book = book /\ saved'.bucket = bucket
          /\ saved'.through = through /\ saved'.dips = dips
        BY <1>d, <2>1
    <2> QED
        BY <1>b, <2>1, <2>2 DEF LiveInv
<1>3. CASE Restart
    <2>1. /\ crashes < MaxCrashes /\ book' = saved.book /\ bucket' = saved.bucket
          /\ through' = saved.through /\ dips' = saved.dips
          /\ clock' = clock /\ prints' = prints /\ (crashes' < MaxCrashes => saved' = saved)
        BY <1>3 DEF Restart, Restored
    <2> QED
        BY <1>b, <2>1 DEF LiveInv
<1>4. ASSUME NEW p \in Pairs, Push(p) PROVE LiveInv'
    <2>1. clock' = clock /\ prints' = prints /\ saved' = saved /\ crashes' = crashes
        BY <1>4 DEF Push
    <2>2. LiveOK(book', bucket', through', prints, dips', clock) /\ Printed(through', prints, clock)
        BY <1>4, <1>a, PushedLive
    <2> QED
        BY <1>b, <2>1, <2>2 DEF LiveInv
<1>5. ASSUME NEW p \in Pairs, Trade(p) PROVE LiveInv'
    <2>1. /\ prints' = [prints EXCEPT ![p] = @ \cup {clock}] /\ IsDayCloseBar(clock - 1)
          /\ clock' = clock /\ through' = through /\ book' = book /\ dips' = dips
          /\ bucket' = bucket /\ saved' = saved /\ crashes' = crashes
        BY <1>5, <1>a DEF Trade
    <2>2. LiveOK(book, bucket, through, prints', dips, clock)
        BY <1>0, <1>b, <1>c, <2>1, TradedLive
    <2>3. crashes < MaxCrashes =>
            LiveOK(saved.book, saved.bucket, saved.through, prints', saved.dips, clock)
        BY <1>0, <1>b, <1>c, <2>1, TradedLive
    <2>4. ASSUME NEW thr, Printed(thr, prints, clock) PROVE Printed(thr, prints', clock)
        <3> SUFFICES ASSUME NEW q \in Pairs, NEW t \in prints'[q]
                     PROVE  PrintOK(t, thr[q], clock)
            BY DEF Printed
        <3>1. t \in prints[q] \/ t = clock
            BY <1>c, <2>1
        <3>2. clock % DayBars = 0
            <4>1. (clock - 1) + 1 = clock
                BY <1>c
            <4> QED
                BY <2>1, <4>1 DEF IsDayCloseBar
        <3>3. CASE t \in prints[q]
            BY <2>4, <3>3 DEF Printed
        <3>4. CASE t = clock
            BY <1>c, <3>2, <3>4 DEF PrintOK
        <3> QED
            BY <3>1, <3>3, <3>4
    <2>5. /\ Printed(through, prints', clock)
          /\ crashes < MaxCrashes => Printed(saved.through, prints', clock)
        BY <1>b, <2>4
    <2> QED
        BY <2>1, <2>2, <2>3, <2>5 DEF LiveInv
<1>6. CASE UNCHANGED vars
    BY <1>6 DEF vars, LiveInv
<1> QED
    BY <1>1, <1>2, <1>3, <1>4, <1>5, <1>6 DEF Next

(* What the feed that is never behind keeps of the book, of its image and of    *)
(* what is saved (classAFillCapped and classARestore in class-a-paper.ts).      *)
THEOREM LiveInvariance == Spec => []LiveInv
<1>1. Init => LiveInv
    BY InitLive
<1>2. IInv /\ LiveInv /\ [Next]_vars => LiveInv'
    BY NextLive
<1> QED
    BY <1>1, <1>2, Invariance, PTL DEF Spec

(* With every bar in before the prints of the next, what one bucket fills and    *)
(* what it refuses for want of a slot go by rank, in whatever order its bars     *)
(* arrived, however often it was replayed, and wherever a restart fell.         *)
THEOREM FillsAlwaysGoByRank == Spec => []FillsGoByRank
<1>1. LiveInv => FillsGoByRank
    <2> SUFFICES ASSUME LiveInv, feed = "live" PROVE FillsGoByRank
        BY DEF FillsGoByRank
    <2>1. RanksOf(book.rows)
        BY DEF LiveInv, LiveOK, BookLive
    <2> QED
        BY <2>1 DEF RanksOf, FillsGoByRank
<1> QED
    BY <1>1, LiveInvariance, PTL

(* Under the same feed no bar ever sees more positions than there are slots:     *)
(* neither a replay nor a restart fills an order into a bar that is full.        *)
THEOREM LiveSlotsAlwaysHold == Spec => []LiveSlotsHold
<1>1. LiveInv => LiveSlotsHold
    <2> SUFFICES ASSUME LiveInv, feed = "live" PROVE LiveSlotsHold
        BY DEF LiveSlotsHold
    <2>1. SlotsOf(book.rows)
        BY DEF LiveInv, LiveOK, BookLive
    <2> QED
        BY <2>1 DEF SlotsOf, Occupies, SlotsHold, LiveSlotsHold
<1> QED
    BY <1>1, LiveInvariance, PTL

(* An order whose window is longer than one bar (the code's is of 16), of a pair  *)
(* with a known tick size, is given up only when no print and no bar of its      *)
(* window went through its limit.  (Without a tick size the check itself records *)
(* a nofill, with why = "noTick" in the model: EveryNofillIsTrue is not claimed.) *)
THEOREM NofillIsAlwaysTrue ==
    ASSUME Window > 1
    PROVE  Spec => []NofillIsTrue
<1>1. LiveInv => NofillIsTrue
    <2> SUFFICES ASSUME LiveInv, feed = "live" PROVE NofillIsTrue
        BY DEF NofillIsTrue
    <2>1. TrueNofills(book.rows, prints, dips)
        BY DEF LiveInv, LiveOK, BookLive
    <2> QED
        BY <2>1 DEF TrueNofills, TrueNofill, NofillIsTrue, NoTrade
<1> QED
    BY <1>1, LiveInvariance, PTL
=============================================================================
