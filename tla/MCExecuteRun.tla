---------------------------- MODULE MCExecuteRun ----------------------------
(* ExecuteRun instantiated for TLC; the bounds are in the .cfg files. *)
EXTENDS ExecuteRun
=============================================================================
