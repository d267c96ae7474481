-------------------------------- MODULE MCLog --------------------------------
(* Instances of MoltenLog for TLC. *)
EXTENDS MoltenLog, TLC

Symmetry == Permutations(Worker) \cup Permutations(Inode)
=============================================================================
