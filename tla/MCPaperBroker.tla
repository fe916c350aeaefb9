--------------------------- MODULE MCPaperBroker ---------------------------
(* Model checking of PaperBroker: pairs, slots and what is enabled are given *)
(* in the .cfg files.                                                       *)
EXTENDS PaperBroker

MCSpent == {[intents |-> 0, faults |-> {}]}
=============================================================================
