-------------------------------- MODULE MCShm --------------------------------
(* Instances of MoltenShm for TLC. *)
EXTENDS MoltenShm
=============================================================================
