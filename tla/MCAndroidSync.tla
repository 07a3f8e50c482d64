---- MODULE MCAndroidSync ----
(* AndroidSync with two notes, its phone and another device. *)
EXTENDS AndroidSync, TLC
AnyText == SUBSET Edit
BothDevices == {Phone, Other}
Symmetry == Permutations(Note)
=============================================================================
