---------------------------- MODULE MCClassABook ----------------------------
(* Model checking of ClassABook: two pairs, of which the second trades more.  *)
EXTENDS ClassABook

MCVolume == [p \in Pairs |-> p]

(* Bars as they close with one crash, and bars late without.                 *)
MCTrials == {[feed |-> "live", ticks |-> Pairs, crashes |-> 0],
             [feed |-> "live", ticks |-> {2}, crashes |-> 1],
             [feed |-> "catchUp", ticks |-> Pairs, crashes |-> 1]}

(* Prints of the bar now open arrive before the last bar.                    *)
MCAhead == {[feed |-> "ahead", ticks |-> Pairs, crashes |-> 1]}

(* Bars as they close, and a pair without a tick size.                       *)
MCNoTick == {[feed |-> "live", ticks |-> {2}, crashes |-> 1]}

(* Bars as they close.                                                      *)
MCLive == {[feed |-> "live", ticks |-> Pairs, crashes |-> 1]}
=============================================================================
