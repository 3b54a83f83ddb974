-------------------------- MODULE MCSchedCapture --------------------------
(* Two CPUs; two tasks of one watched cgroup and one of another; the idle    *)
(* task outside the allow-list.                                              *)
EXTENDS SchedCapture, TLC

CONSTANTS c1, c2, a1, a2, b1, ga, gb, gu

MCCpus == {c1, c2}
MCTasks == {a1, a2, b1}
MCCgroups == {ga, gb, gu}
MCCgroupOf == a1 :> ga @@ a2 :> ga @@ b1 :> gb @@ Idle :> gu
MCWatched == {ga, gb}

\* CPUs, and the two tasks of one cgroup, are interchangeable.
SchedSymmetry == Permutations(MCCpus) \cup Permutations({a1, a2})
=============================================================================
