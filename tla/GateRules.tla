----------------------------- MODULE GateRules -----------------------------
(***************************************************************************)
(* The decision rules: how the gate turns two groups of runs into a        *)
(* verdict (crates/gate/src/gate.rs, reduce.rs, main.rs).                  *)
(*                                                                         *)
(* Sample values are abstracted to what the rules read of them: `signal`   *)
(* says of each metric whether the change between the groups is            *)
(* significant, strong and not noisy, and which way it goes.  A group is a *)
(* sequence of runs; a run is                                              *)
(*    [grade, tenancy, series, over, overflow]                             *)
(* with its number of samples per metric, the probe ids over budget and    *)
(* the metrics whose series carry the overflow flag.                       *)
(***************************************************************************)
EXTENDS Contract, Naturals, Sequences, FiniteSets, Functions

CONSTANTS
    Metrics,      \* metric ids
    Polarity,     \* metric -> "lower", "higher" (is better) or "unknown"
    Source,       \* metric -> the probe id its series names as its source
    Probes        \* probe ids

ASSUME RulesAssumption ==
    /\ Polarity \in [Metrics -> {"lower", "higher", "unknown"}]
    /\ DOMAIN Source = Metrics

Modes  == {"ab_permutation", "longitudinal_drift", "subsystem_triad"}
Signal == [Metrics -> {"none", "up", "down"}]

\* What a run contributes to each metric: its samples, all of them contaminated
\* when the source is over budget or the series overflowed.
reduce(run) ==
    [m \in Metrics |->
        [samples |-> run.series[m],
         contaminated |-> /\ run.series[m] > 0
                          /\ Source[m] \in run.over \/ m \in run.overflow]]

Plus(x, y) == x + y
Samples(group, m) == FoldFunction(Plus, 0, [i \in DOMAIN group |-> reduce(group[i])[m].samples])

\* Mutant: every run's sample has to be contaminated.
ContaminatedAll(group, m) ==
    group /= <<>> /\ \A i \in DOMAIN group : reduce(group[i])[m].contaminated

\* collect: one contaminated sample contaminates the metric in its group.
Contaminated(group, m) == \E i \in DOMAIN group : reduce(group[i])[m].contaminated

Comparable(a, b) == {m \in Metrics : Samples(a, m) >= 2 /\ Samples(b, m) >= 2}

\* Mutant: only an increase is ever bad.
bad_increase(m, way) == Polarity[m] = "lower" /\ way = "up"

bad_direction(m, way) ==
    \/ Polarity[m] = "lower" /\ way = "up"
    \/ Polarity[m] = "higher" /\ way = "down"

RunsOf(a, b) == {a[i] : i \in DOMAIN a} \cup {b[i] : i \in DOMAIN b}

\* validate: every run reproducible unless told otherwise, one tenancy class.
Admitted(a, b, cfg) ==
    /\ cfg.allow_ungraded \/ \A r \in RunsOf(a, b) : r.grade = "reproducible"
    /\ \A r, s \in RunsOf(a, b) : r.tenancy = s.tenancy

Status(m, a, b, cfg, signal) ==
    CASE m \in cfg.ignore -> "ignored"
      [] m \notin cfg.ignore /\ (Contaminated(a, m) \/ Contaminated(b, m)) -> "contaminated"
      [] OTHER -> IF signal[m] = "none" THEN "stable"
                  ELSE IF bad_direction(m, signal[m]) THEN "regressed"
                  ELSE IF Polarity[m] = "unknown" THEN "changed" ELSE "improved"

\* The statuses of the compared metrics, ignored ones included.
Statuses(a, b, cfg, signal) == {Status(m, a, b, cfg, signal) : m \in Comparable(a, b)}

\* Mutant: contaminated metrics are left out of the verdict.
ab_skips_dirty(a, b, cfg, signal) ==
    LET found == Statuses(a, b, cfg, signal)
    IN CASE ~Admitted(a, b, cfg) \/ found = {} -> "error"
         [] OTHER -> IF "regressed" \in found THEN "fail" ELSE "pass"

ab(a, b, cfg, signal) ==
    LET found == Statuses(a, b, cfg, signal)
    IN CASE ~Admitted(a, b, cfg) \/ found = {} -> "error"
         [] Admitted(a, b, cfg) /\ "contaminated" \in found -> "contaminated"
         [] OTHER -> IF "regressed" \in found THEN "fail" ELSE "pass"

\* No admission check and no contamination; here an ignored metric is not
\* compared at all.
drift(base, cand, cfg, signal) ==
    LET compared == Comparable(base, cand) \ cfg.ignore
    IN CASE compared = {} -> "error"
         [] \E m \in compared : bad_direction(m, signal[m]) -> "fail"
         [] OTHER -> "pass"

\* An over-budget probe in group B fails what ab did not find contaminated.
triad(a, b, cfg, signal) ==
    LET base == ab(a, b, cfg, signal)
    IN IF base \in {"pass", "fail"} /\ \E i \in DOMAIN b : b[i].over /= {}
       THEN "fail" ELSE base

judge(mode, a, b, cfg, signal) ==
    IF a = <<>> \/ b = <<>> THEN "error"
    ELSE CASE mode = "ab_permutation"     -> ab(a, b, cfg, signal)
           [] mode = "longitudinal_drift" -> drift(a, b, cfg, signal)
           [] mode = "subsystem_triad"    -> triad(a, b, cfg, signal)

Verdicts == {"pass", "fail", "contaminated", "error"}

exit_code(verdict) ==
    CASE verdict = "pass" -> 0
      [] verdict = "error" -> 1
      [] verdict = "fail" -> 2
      [] verdict = "contaminated" -> 3
=============================================================================
