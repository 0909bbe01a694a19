------------------------------ MODULE MCDecisions ------------------------------
(***************************************************************************)
(* Instances of Decisions for TLC, with interchangeable cases, replays and *)
(* promotions.                                                             *)
(***************************************************************************)
EXTENDS Decisions

Symmetry == Permutations(Cases) \cup Permutations(Replays) \cup Permutations(Promotions)
=============================================================================
