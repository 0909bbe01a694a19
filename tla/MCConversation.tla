---------------------------- MODULE MCConversation ----------------------------
(***************************************************************************)
(* Instances of Conversation for TLC, with interchangeable people and API  *)
(* calls.                                                                  *)
(***************************************************************************)
EXTENDS Conversation, TLC

Symmetry == Permutations(People) \cup Permutations(Requests)
=============================================================================
