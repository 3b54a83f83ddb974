--------------------------- MODULE MCBlockCapture ---------------------------
(* Two requests, the first a flush without data, over two sectors of one     *)
(* device; two CPUs; an in-flight map with room for one and stats with room  *)
(* for one direction.                                                        *)
EXTENDS BlockCapture, TLC

CONSTANTS c1, c2, e1, e2, e3

MCBytes == [r \in Reqs |-> r - 1]
MCCPUs == {c1, c2}
MCElements == {e1, e2, e3}

\* CPUs and elements are interchangeable.
BlockSymmetry == Permutations(MCCPUs) \cup Permutations(MCElements)
=============================================================================
