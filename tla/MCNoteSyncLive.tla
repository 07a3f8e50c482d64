---- MODULE MCNoteSyncLive ----
(* NoteSyncLive with one note, two devices and a bounded number of edits;
   no symmetry, the property is a liveness property. *)
EXTENDS NoteSyncLive
AnyText == SUBSET Edit
=============================================================================
