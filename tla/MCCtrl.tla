------------------------------- MODULE MCCtrl -------------------------------
(* Instances of MoltenCtrl for TLC. *)
EXTENDS MoltenCtrl, TLC

Symmetry == Permutations(Worker)

(* No POST at all. *)
NoPosts == {}

(* One body of each kind; in a byte 257 is RATE and 258 is REQUEST. *)
RateBody == [samplingType |-> 257, samplingRate |-> 1]
RequestBody == [samplingType |-> 258, samplingRequest |-> 1]
LowerBody == [samplingRequest |-> 0]
EnableBody == [enable |-> 7, samplingType |-> 1, samplingRate |-> 2]
DisableBody == [enable |-> 0]

MixedPosts == {RateBody, RequestBody, LowerBody, EnableBody, DisableBody}
=============================================================================
