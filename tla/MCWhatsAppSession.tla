-------------------------- MODULE MCWhatsAppSession --------------------------
(***************************************************************************)
(* Instances of WhatsAppSession for TLC, with interchangeable clients and  *)
(* requests.                                                               *)
(***************************************************************************)
EXTENDS WhatsAppSession, TLC

Symmetry == Permutations(Clients) \cup Permutations(Calls)
=============================================================================
