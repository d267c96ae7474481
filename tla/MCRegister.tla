------------------------------ MODULE MCRegister ------------------------------
(* Instances of MoltenRegister for TLC. *)
EXTENDS MoltenRegister
=============================================================================
