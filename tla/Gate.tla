-------------------------------- MODULE Gate --------------------------------
(***************************************************************************)
(* The assayist-gate process on every input of a bounded family: it loads  *)
(* two groups of runs, judges them in the mode it was given and exits with *)
(* the verdict's code.                                                     *)
(***************************************************************************)
EXTENDS GateRules

CONSTANTS
    MaxGroup,    \* bound: runs per group
    RunShapes    \* the runs a group may hold

\* What the gate reads of a run.
Runs == [grade : Grades, tenancy : STRING, series : [Metrics -> Nat],
         over : SUBSET Probes, overflow : SUBSET Metrics]

ASSUME GateAssumption == MaxGroup \in Nat /\ RunShapes \subseteq Runs

VARIABLES
    mode, groupA, groupB, cfg, signal,   \* the inputs
    verdict,                             \* "none" until the gate has judged
    exit

gateVars == <<mode, groupA, groupB, cfg, signal, verdict, exit>>
inputs == <<mode, groupA, groupB, cfg, signal>>

RunGroups == UNION {[1 .. n -> RunShapes] : n \in 0 .. MaxGroup}
Configs == [allow_ungraded : BOOLEAN, ignore : SUBSET Metrics]

GateInit ==
    /\ mode \in Modes
    /\ groupA \in RunGroups
    /\ groupB \in RunGroups
    /\ cfg \in Configs
    /\ signal \in Signal
    /\ verdict = "none"
    /\ exit = 0

Judge ==
    /\ verdict = "none"
    /\ verdict' = judge(mode, groupA, groupB, cfg, signal)
    /\ exit' = exit_code(verdict')
    /\ UNCHANGED inputs

GateNext == Judge

GateSpec == GateInit /\ [][GateNext]_gateVars
-----------------------------------------------------------------------------
\* The verdict is one of the gate's four and its exit code says which.
GateTypeOK ==
    /\ verdict \in Verdicts \cup {"none"}
    /\ exit \in 0 .. 3

Judged == verdict /= "none"
CountsRuns == mode /= "longitudinal_drift"
Dirty(group, i, p) == [group EXCEPT ![i].over = @ \cup {p}]

\* More observer effect never launders a result: charging one more probe over
\* budget, in any run of either group, cannot turn a verdict into a pass.
DirtNeverPasses ==
    Judged /\ verdict /= "pass" =>
        \A p \in Probes :
            /\ \A i \in DOMAIN groupA : judge(mode, Dirty(groupA, i, p), groupB, cfg, signal) /= "pass"
            /\ \A i \in DOMAIN groupB : judge(mode, groupA, Dirty(groupB, i, p), cfg, signal) /= "pass"

Flip(s) == [m \in Metrics |-> CASE s[m] = "up" -> "down"
                                [] s[m] = "down" -> "up"
                                [] OTHER -> "none"]

\* The comparison is a mirror: with the groups exchanged and every change
\* reversed, a regression becomes an improvement and nothing else moves, so a
\* change of known polarity that is not ignored or contaminated fails the gate
\* in exactly one of the two orders.  It speaks of the rules for a given signal:
\* the size thresholds that make a change strong are relative to group A.
MirrorImage ==
    Judged /\ mode = "ab_permutation" =>
        LET other == judge(mode, groupB, groupA, cfg, Flip(signal))
            swapped(m) == Status(m, groupB, groupA, cfg, Flip(signal))
        IN /\ verdict = "error" <=> other = "error"
           /\ verdict = "contaminated" <=> other = "contaminated"
           /\ \A m \in Comparable(groupA, groupB) :
                 /\ Status(m, groupA, groupB, cfg, signal) = "regressed" <=> swapped(m) = "improved"
                 /\ Status(m, groupA, groupB, cfg, signal) = "improved" <=> swapped(m) = "regressed"

\* What a pass certifies about its inputs: something was compared, nothing that
\* was compared and not ignored is contaminated or regressed, no probe of B is
\* over budget in a triad, and ungraded runs were let in only on request.
PassCertifies ==
    verdict = "pass" =>
        /\ Comparable(groupA, groupB) /= {}
        /\ \A m \in Comparable(groupA, groupB) \ cfg.ignore : ~bad_direction(m, signal[m])
        /\ CountsRuns => /\ \A m \in Comparable(groupA, groupB) \ cfg.ignore :
                               ~Contaminated(groupA, m) /\ ~Contaminated(groupB, m)
                         /\ \A r, s \in RunsOf(groupA, groupB) : r.tenancy = s.tenancy
                         /\ ~cfg.allow_ungraded =>
                               \A r \in RunsOf(groupA, groupB) : r.grade = "reproducible"
        /\ mode = "subsystem_triad" => \A i \in DOMAIN groupB : groupB[i].over = {}
-----------------------------------------------------------------------------
(* Statements of the repository that the code does not live up to. *)

\* gate.rs, ab: "A comparison that tested nothing must not read as a pass."
NothingTestedIsNoPass ==
    verdict = "pass" => \E m \in Comparable(groupA, groupB) : m \notin cfg.ignore

\* contract lib.rs, AssayRun::workload_report: "Provenance only: it does not
\* affect grading or gating."
Inert(s) == [m \in Metrics |-> IF Source[m] = "workload" THEN "none" ELSE s[m]]
WorkloadReportIsInert ==
    Judged => verdict = judge(mode, groupA, groupB, cfg, Inert(signal))
=============================================================================
