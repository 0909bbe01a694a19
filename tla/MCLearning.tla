----------------------------- MODULE MCLearning -----------------------------
(***************************************************************************)
(* Instances of Learning for TLC: every set is of interchangeable model    *)
(* values.                                                                 *)
(***************************************************************************)
EXTENDS Learning, TLC

Symmetry ==
  Permutations(Corrections) \cup Permutations(Promotions)
    \cup Permutations(Cases) \cup Permutations(Patterns) \cup Permutations(Actions)
=============================================================================
