--------------------------- MODULE MCKvmCapture ---------------------------
(* Model values for KvmCapture: two CPUs racing on a hists map with room for *)
(* fewer keys than the guests and reasons produce.                           *)
EXTENDS KvmCapture, TLC

CONSTANTS t1, t2, g1, g2, r1

MCTids == {t1, t2}
MCGuests == {g1, g2}
MCReasons == {r1}

\* Thread ids, guests and reasons are interchangeable.
KvmSymmetry == Permutations(MCTids) \cup Permutations(MCGuests)
=============================================================================
