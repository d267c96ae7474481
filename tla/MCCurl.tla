------------------------------- MODULE MCCurl -------------------------------
(* Instances of MoltenCurl for TLC. *)
EXTENDS MoltenCurl, TLC

Symmetry == Permutations(Handle)

(* Two arrays with nothing in common, one of them of two lines. *)
Arrays == {<<Line("user", 1)>>, <<Line("user", 2), Line("user", 3)>>}
Objects == {<<Line("user", 4)>>}
=============================================================================
