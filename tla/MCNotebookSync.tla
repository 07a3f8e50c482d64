--------------------------- MODULE MCNotebookSync ---------------------------
(* NotebookSync with two devices; the values are in the .cfg files. *)
EXTENDS NotebookSync, TLC
MCSymmetry == Permutations(Notebook) \union Permutations(Device)
=============================================================================
