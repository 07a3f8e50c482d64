---- MODULE MCChangeFeed ----
(* ChangeFeed with two notes, one following device and a bounded log.  One
   account may have two notes of one unit, two accounts one each. *)
EXTENDS ChangeFeed, TLC
Symmetry == Permutations(Note)
OneUnit == [c \in Content |-> 1]
=============================================================================
