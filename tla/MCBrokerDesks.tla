--------------------------- MODULE MCBrokerDesks ---------------------------
(* Model checking of PaperBroker on several desks: brokers that differ in     *)
(* their sizes and in what the market and the store do to them.  The desk is  *)
(* drawn once, in the initial state; names and the bound on the order rows    *)
(* are those of the .cfg file.                                               *)
EXTENDS PaperBroker

CONSTANTS btc, sol

MCSpent == {[intents |-> 0, faults |-> {}]}

(* Two intents, or one and one fault (no fault is left after a counted one).   *)
SpotSpent == {[intents |-> 0, faults |-> {"crash"}], [intents |-> 1, faults |-> {}]}

VARIABLE desk

(* A broker of split clips.                                                  *)
Spot == INSTANCE PaperBroker WITH
    Enabled <- {"exit", "feed", "stop", "crash", "fail"}, Spent <- SpotSpent

(* A pooled broker whose exit intents flatten beside the stop of the tick.   *)
Pool == INSTANCE PaperBroker WITH Pooled <- TRUE, Enabled <- {"exit", "stop"}

(* Slipped entries, one-sided books, hasty decisions, and a failed call.     *)
Rough == INSTANCE PaperBroker WITH
    Enabled <- {"fail", "slip", "thin", "exit", "hasty"},
    Lot <- 3, PrintSize <- 2, MAX_GROSS <- 6, BANKROLL <- 6

(* A crash between any two store calls, and the restore.                     *)
Crashing == INSTANCE PaperBroker WITH
    Enabled <- {"crash", "exit", "stop"}, PrintSize <- 2

(* Two pairs share the cash and the cap: room for one entry.                 *)
Shared == INSTANCE PaperBroker WITH
    Pairs <- {btc, sol}, Pooled <- TRUE, Lot <- 1, MAX_GROSS <- 1, BANKROLL <- 2,
    MaxIntents <- 1, Enabled <- {"stop"}

MCInit ==
    \/ desk = "spot" /\ Spot!Init
    \/ desk = "pool" /\ Pool!Init
    \/ desk = "rough" /\ Rough!Init
    \/ desk = "crashing" /\ Crashing!Init
    \/ desk = "shared" /\ Shared!Init

MCNext ==
    \/ desk = "spot" /\ Spot!Next /\ UNCHANGED desk
    \/ desk = "pool" /\ Pool!Next /\ UNCHANGED desk
    \/ desk = "rough" /\ Rough!Next /\ UNCHANGED desk
    \/ desk = "crashing" /\ Crashing!Next /\ UNCHANGED desk
    \/ desk = "shared" /\ Shared!Next /\ UNCHANGED desk

(* PaperBroker's Fairness, on the spot desk only.                            *)
OnSpot(A) == desk = "spot" /\ A /\ UNCHANGED desk

MCSpec ==
    /\ MCInit /\ [][MCNext]_<<vars, desk>>
    /\ \A p \in Pairs :
        /\ WF_vars(OnSpot(Spot!Ticks(p)))
        /\ \A t \in Threads : WF_vars(OnSpot(Spot!Answers(p, t)))
        /\ WF_vars(OnSpot(Spot!Ages(p))) /\ WF_vars(OnSpot(Spot!HorizonExpires(p)))

-----------------------------------------------------------------------------
(* PaperBroker's properties, of the desks they are claimed of.               *)

(* Every row, order, chain and flag of each desk is one the code can write.   *)
RecordsAreWellFormed == IF desk = "shared" THEN Shared!TypeOK ELSE TypeOK

(* A long at rest has its way out, after a restart and on a pooled broker too. *)
RestartsKeepTheWayOut == desk \in {"spot", "pool", "crashing"} => LongsHaveAWayOut

(* The pool's cash is what the fill rows moved, of two flattens at one time   *)
(* and of two pairs on one pool.                                            *)
PoolCashFollowsTheRows ==
    CASE desk = "pool" -> Pool!CashFollowsTheRows
      [] desk = "shared" -> Shared!CashFollowsTheRows
      [] OTHER -> TRUE

(* Two pairs that share the pool stay under the gross cap together.          *)
SharedGrossWithinCap == desk = "shared" => Shared!GrossWithinCap

(* The spot broker closes a long whose horizon is over, unless a call fails.   *)
SpotLongsAreClosed == desk = "spot" => LongsAreClosed

(* It closes a long below its stop, crashes and failed calls included, unless  *)
(* the mid comes back.                                                      *)
SpotStopFlattens == desk = "spot" => StopFlattens
=============================================================================
