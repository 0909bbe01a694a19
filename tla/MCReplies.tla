------------------------------ MODULE MCReplies ------------------------------
(***************************************************************************)
(* Instances of Replies for TLC, with interchangeable messages and         *)
(* deliveries.                                                             *)
(***************************************************************************)
EXTENDS Replies, TLC

Symmetry == Permutations(Messages) \cup Permutations(Deliveries)
=============================================================================
