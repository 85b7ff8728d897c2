---------------------------- MODULE MCEmptyClaim ----------------------------
(* Instances of EmptyClaim for TLC. *)
EXTENDS EmptyClaim, TLC

\* Claims are interchangeable, and so are rows.
Symmetry == Permutations(Claimers) \cup Permutations(Rows)
=============================================================================
