----------------------------- MODULE MCJevQueue -----------------------------
EXTENDS JevQueue

CONSTANTS a, b, eth

(* One bar of two pairs and every fault, and two bars whose order, handover   *)
(* and size limit matter.                                                   *)
MCScenarios ==
    {[bars |-> {0}, pairs |-> {Btc}, prices |-> {1, 3}, faults |-> {"kill", "lapse", "lostReply"},
      maxClock |-> 2, maxLosses |-> 1, maxSheds |-> 0],
     [bars |-> {0}, pairs |-> {Btc, eth}, prices |-> {3}, faults |-> {"noCaller", "lostReply"},
      maxClock |-> 2, maxLosses |-> 0, maxSheds |-> 0],
     [bars |-> {0, 1}, pairs |-> {Btc}, prices |-> {}, faults |-> {"shed"},
      maxClock |-> 2, maxLosses |-> 0, maxSheds |-> 1]}
=============================================================================
