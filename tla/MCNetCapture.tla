----------------------------- MODULE MCNetCapture -----------------------------
(* Two invocations over two interfaces, of which one may go: both interfaces   *)
(* with --tx, or that one alone without; stats has room for one interface.     *)
EXTENDS NetCapture, TLC

CONSTANTS c1, c2, p1, p2

MCArgs == {[ifaces |-> <<2, 1>>, tx |-> TRUE], [ifaces |-> <<1>>, tx |-> FALSE]}
MCCPUs == {c1, c2}
MCProcs == {p1, p2}

\* CPUs and invocations are interchangeable.
NetSymmetry == Permutations(MCCPUs) \cup Permutations(MCProcs)
=============================================================================
