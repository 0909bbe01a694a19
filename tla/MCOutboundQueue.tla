-------------------------- MODULE MCOutboundQueue --------------------------
(***************************************************************************)
(* Instances of OutboundQueue for TLC.  Packets and drainers are model     *)
(* values and interchangeable in the safety runs.                          *)
(***************************************************************************)
EXTENDS OutboundQueue, TLC

Symmetry == Permutations(Packets) \cup Permutations(Drainers)
=============================================================================
