----------------------------- MODULE MCNetAttrib -----------------------------
(* NetAttrib instantiated for TLC: more interfaces than the map has room     *)
(* for, and a second owner after the first.  The run checks liveness too, so *)
(* interfaces are not declared symmetric.                                    *)
EXTENDS NetAttrib, TLC
=============================================================================
