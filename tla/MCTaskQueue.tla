---------------------------- MODULE MCTaskQueue ----------------------------
(* Instances of TaskQueue for TLC. *)
EXTENDS TaskQueue, TLC

\* Claims and handlers are interchangeable.
Symmetry == Permutations(Claimers) \cup Permutations(Handlers)
=============================================================================
