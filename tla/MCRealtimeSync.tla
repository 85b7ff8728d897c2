---------------------------- MODULE MCRealtimeSync ----------------------------
(* RealtimeSync on small instances: interchangeable items and mutation slots.  *)
EXTENDS RealtimeSync, TLC

Symmetry == Permutations(Items) \cup Permutations(Mutations)
=============================================================================
