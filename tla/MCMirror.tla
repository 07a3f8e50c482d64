------------------------------ MODULE MCMirror ------------------------------
(* Mirror with two records; the values are in MCMirror.cfg. *)
EXTENDS Mirror, TLC
MCSymmetry == Permutations(Entity)
=============================================================================
