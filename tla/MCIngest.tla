------------------------------ MODULE MCIngest ------------------------------
(***************************************************************************)
(* Instances of Ingest for TLC, with interchangeable deliveries.           *)
(***************************************************************************)
EXTENDS Ingest, TLC

Symmetry == Permutations(Deliveries)
=============================================================================
