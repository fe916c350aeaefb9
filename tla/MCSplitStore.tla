---------------------------- MODULE MCSplitStore ----------------------------
EXTENDS SplitStore, TLC

CONSTANTS last, ring

Symmetry == Permutations(Procs)
=============================================================================
