--------------------------- MODULE AttribRegistry ---------------------------
(***************************************************************************)
(* What a run's network attribution promises, without processes, sockets   *)
(* or timeouts: VMs are given handles from a counter, the map owner        *)
(* accepts a handle for one VM at most once, and the provenance table      *)
(* records only what was accepted and never revises a row.                 *)
(***************************************************************************)
EXTENDS Naturals

CONSTANT Ids   \* what a handle stands for: the VMs' interface indexes

VARIABLES
    issued,    \* handles issued so far: 0 .. issued - 1
    added,     \* the <<handle, id>> pairs the owner accepted
    table      \* the provenance table, handle -> id

regVars == <<issued, added, table>>

Init ==
    /\ issued = 0
    /\ added = {}
    /\ table = [h \in {} |-> 0]

\* A new run starts from an empty registry.
NewRun ==
    /\ issued' = 0
    /\ added' = {}
    /\ table' = [h \in {} |-> 0]

Issue ==
    /\ issued' = issued + 1
    /\ UNCHANGED <<added, table>>

Accept(h, id) ==
    /\ h < issued
    /\ \A p \in added : p[1] /= h
    /\ added' = added \cup {<<h, id>>}
    /\ UNCHANGED <<issued, table>>

Record(h, id) ==
    /\ <<h, id>> \in added
    /\ h \notin DOMAIN table
    /\ table' = [g \in DOMAIN table \cup {h} |-> IF g = h THEN id ELSE table[g]]
    /\ UNCHANGED <<issued, added>>

Next ==
    \/ NewRun
    \/ Issue
    \/ \E h \in 0 .. issued, id \in Ids : Accept(h, id) \/ Record(h, id)

Spec == Init /\ [][Next]_regVars
=============================================================================
