---------------------------- MODULE MCRelayLease ----------------------------
(* Instances of RelayLease for TLC.                                         *)
EXTENDS RelayLease, TLC

(* The invocations differ only in name.                                      *)
Symmetry == Permutations(Invocations)

=============================================================================
