---- MODULE MCNoteSync ----
(* NoteSync with two devices; the values are in the .cfg files. *)
EXTENDS NoteSync, TLC
AnyText == SUBSET Edit
Symmetry == Permutations(Device) \union Permutations(Note)
=============================================================================
