---------------------------- MODULE MCPoolEngine ----------------------------
(* Model checking of PoolEngine.  Pair 1 has a smaller clip than the others.  *)
EXTENDS PoolEngine

MCClip == [p \in Pairs |-> IF p = 1 THEN 1 ELSE 2]

(* Every pair has broken out.                                              *)
Breaking == {s \in [Pairs -> Snaps] : \A p \in Pairs : s[p].candidate}

Level == {s \in Breaking : \A p \in Pairs : s[p].rank = 0}

MCTrials == {
    \* three pairs for two slots, where the last may rotate another out
    [book |-> "pooled", pairs |-> {1, 2, 3}, slots |-> 2, cash |-> 5, cap |-> 10, moves |-> 1,
     starts |-> {s \in Breaking : s[1].rank = 0 /\ s[2].rank = 0 /\ s[3].rank = 1}],
    \* the cash, or the gross cap, binds before the slots do
    [book |-> "pooled", pairs |-> {1, 2, 3}, slots |-> 2, cash |-> 3, cap |-> 8, moves |-> 0,
     starts |-> {s \in Breaking : s[1].rank = 0}],
    [book |-> "pooled", pairs |-> {1, 2}, slots |-> 2, cash |-> 3, cap |-> 2, moves |-> 2,
     starts |-> Level],
    \* the cap has room for a long each, not for an entry that it counts twice
    [book |-> "pooled", pairs |-> {1, 2, 3}, slots |-> 2, cash |-> 5, cap |-> 7, moves |-> 0,
     starts |-> {s \in Breaking : s[1].rank = 0 /\ s[3].rank = 1}],
    \* two pairs for one slot, and more that can go wrong
    [book |-> "pooled", pairs |-> {1, 2}, slots |-> 1, cash |-> 3, cap |-> 10, moves |-> 2,
     starts |-> Level],
    \* the split book
    [book |-> "breakout", pairs |-> {1, 2}, slots |-> 1, cash |-> 3, cap |-> 3, moves |-> 2,
     starts |-> Level]}

(* The shipped cap, slots and cash, and four of the shipped clips, in $100:    *)
(* BCH, NEAR, UNI and ZEC have all broken out, and NEAR ranks last.           *)
ShippedClip == <<5, 3, 6, 5>>

ShippedTrials == {
    [book |-> "pooled", pairs |-> 1 .. 4, slots |-> 3, cash |-> 120, cap |-> 30, moves |-> 0,
     starts |-> {[p \in 1 .. 4 |->
                    [rank |-> IF p = 2 THEN 0 ELSE 1, candidate |-> TRUE]]}]}
=============================================================================
