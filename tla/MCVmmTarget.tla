---------------------------- MODULE MCVmmTarget ----------------------------
(* Repeats enough for a slow predecessor to meet two successors. *)
EXTENDS VmmTarget
=============================================================================
