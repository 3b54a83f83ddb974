------------------------------ MODULE Pipeline ------------------------------
(***************************************************************************)
(* `assayist run`: load the definition, prepare or observe the host,       *)
(* execute and record every run of group A and then of group B, hand the   *)
(* files to the gate and exit with its verdict; and its shorter relatives  *)
(* `assayist capture` and `assayist inspect` (crates/orchestrate/src       *)
(* main.rs, run.rs, hostprep.rs, gate.rs; crates/contract/src/lib.rs).     *)
(*                                                                         *)
(* The host is a set of tunables; host[k] says whether k has the value the *)
(* definition requests.  The CPU governor is one tunable per CPU, and only *)
(* FirstCpu's is ever read back.  Something else on the host may move a    *)
(* tunable at any time.  What one execute_run does inside is module        *)
(* ExecuteRun; here it fails or yields a fragment.                         *)
(***************************************************************************)
EXTENDS GateRules, BenchmarkDef, Integers

CONSTANTS
    Cpus, FirstCpu,   \* CPUs with a cpufreq governor; cpu0
    Options,          \* the command lines considered, each with its definition
    Fragments, NoFragment,   \* what a run's gadgets may report, merged
    MaxDrifts,        \* bound: external changes of a tunable
    Producers         \* metric -> the probes that produce it

ASSUME PipelineAssumption ==
    /\ FirstCpu \in Cpus
    /\ \A o \in Options : /\ o.command \in {"run", "capture", "inspect"}
                          /\ o.repeat \in Nat \ {0}
                          /\ IsDef(o.def)
    /\ MaxDrifts \in Nat

VARIABLES
    opts,      \* [command, def, repeat, apply_prep, allow_ungraded]
    host,      \* tunable -> does it have the requested value
    pc,
    towrite,   \* tunables apply_tuning has not written yet
    fp,        \* capture: the tunables as read before the gadgets ran
    frag,      \* the fragment of the run in progress
    files,     \* [a, b, out]: the records written, in order
    outcome,   \* outcome.json: "none", "old" (of an earlier invocation), "null" or a verdict
    code,      \* exit code, -1 while running
    drifts,    \* history: how often the host moved
    truth      \* history: per group what each record came from; a killed gate

vars == <<opts, host, pc, towrite, fp, frag, files, outcome, code, drifts, truth>>
history == <<drifts, truth>>

Tunables == Cpus \cup {"smt", "thp"}
Knob(k) == IF k \in Cpus THEN "cpu_governor" ELSE k
Wanted(def) == {k \in Tunables : Knob(k) \in def.knobs}
Readback == {FirstCpu, "smt", "thp"}
Reading == [k \in Readback |-> host[k]]
Plan(g) == plan(opts.def, g, opts.repeat)
GateConfig == [allow_ungraded |-> opts.allow_ungraded, ignore |-> opts.def.ignore]

Running == code = -1
Exit(c) == code' = c /\ pc' = "exited"

Init ==
    /\ opts \in Options
    /\ host \in [Tunables -> BOOLEAN]
    /\ pc = "load"
    /\ towrite = IF opts.apply_prep THEN Wanted(opts.def) ELSE {}
    /\ fp = [k \in Readback |-> FALSE]
    /\ frag = NoFragment
    /\ files = [a |-> <<>>, b |-> <<>>, out |-> <<>>]
    /\ outcome \in {"none", "old"}
    /\ code = -1
    /\ drifts = 0
    /\ truth = [a |-> <<>>, b |-> <<>>, gate |-> "none"]
-----------------------------------------------------------------------------
(* Loading: nothing is touched before the definition is accepted. *)

\* inspect prints what it would do; not being able to observe the host is no error.
Load ==
    /\ pc = "load"
    /\ validate(opts.def)
    /\ IF opts.command = "inspect" THEN Exit(0) ELSE pc' = "prep" /\ UNCHANGED code
    /\ UNCHANGED <<opts, host, towrite, fp, frag, files, outcome, history>>

\* The file cannot be read or parsed, or validate rejects it.
LoadFails ==
    /\ pc = "load"
    /\ Exit(1)
    /\ UNCHANGED <<opts, host, towrite, fp, frag, files, outcome, history>>
-----------------------------------------------------------------------------
(* Host preparation *)

\* Something outside the harness moves a tunable.
HostDrifts ==
    /\ Running
    /\ drifts < MaxDrifts
    /\ \E k \in Tunables :
          host' = [host EXCEPT ![k] = ~@]
    /\ drifts' = drifts + 1
    /\ UNCHANGED <<opts, pc, towrite, fp, frag, files, outcome, code, truth>>

\* Governors in directory order, then SMT, then THP.
MayWrite(k) ==
    CASE k \in Cpus -> TRUE
      [] k = "smt" -> towrite \subseteq {"smt", "thp"}
      [] k = "thp" -> towrite = {"thp"}

\* One sysfs write of apply_tuning.  It may be accepted and still not take.
WriteTunable ==
    /\ pc = "prep"
    /\ \E k \in towrite :
          /\ MayWrite(k)
          /\ towrite' = towrite \ {k}
          /\ host' \in {host, [host EXCEPT ![k] = TRUE]}
    /\ UNCHANGED <<opts, pc, fp, frag, files, outcome, code, history>>

\* A failing write or an unreadable host abandons the command; what was written
\* stays.
PrepFails ==
    /\ pc = "prep"
    /\ Exit(1)
    /\ UNCHANGED <<opts, host, towrite, fp, frag, files, outcome, history>>

tuning_consistent(def, reading) == \A k \in Wanted(def) \cap Readback : reading[k]

\* Mutant: what was read back is not compared.
PreparedUnchecked ==
    /\ pc = "prep"
    /\ opts.command = "run"
    /\ towrite = {}
    /\ pc' = "loop"
    /\ UNCHANGED <<opts, host, towrite, fp, frag, files, outcome, code, history>>

\* Build the fingerprint.  Prep that did not take refuses the command; without
\* --apply-prep the host is only observed.
Prepared ==
    /\ pc = "prep"
    /\ opts.command = "run"
    /\ towrite = {}
    /\ IF opts.apply_prep => tuning_consistent(opts.def, Reading)
       THEN pc' = "loop" /\ UNCHANGED code ELSE Exit(1)
    /\ UNCHANGED <<opts, host, towrite, fp, frag, files, outcome, history>>
-----------------------------------------------------------------------------
(* The run loop: group A's plan, then group B's *)

Group == IF Len(files.a) < Len(Plan("a")) THEN "a" ELSE "b"
Finished == \A g \in Groups : Len(files[g]) = Len(Plan(g))

ExecuteRun ==
    /\ pc = "loop"
    /\ ~Finished
    /\ plannable(opts.def)
    /\ frag' \in Fragments
    /\ pc' = "observe"
    /\ UNCHANGED <<opts, host, towrite, fp, files, outcome, code, history>>

\* plan_gadgets, execute_run, the re-read of the fingerprint or a file operation
\* fails, or the gadgets of a capture do.
RunFails ==
    /\ \/ pc = "loop" /\ ~Finished
       \/ pc \in {"observe", "capture"}
    /\ Exit(1)
    /\ UNCHANGED <<opts, host, towrite, fp, frag, files, outcome, history>>

\* The extended fingerprint is complete on this host once threads are pinned.
\* A probe ran: the definitions considered name one, and a run adds the host
\* memory fragment in any case.
\* A fragment's capture_meta, with its overflow flag, stays out of the record.
Assemble(def, params, reading, pinned, f) ==
    [params   |-> params,
     readback |-> reading,
     grade    |-> compute_grade("captured", tuning_consistent(def, reading), pinned, TRUE, f.costs),
     tenancy  |-> def.tenancy,
     series   |-> f.series,
     over     |-> f.over,
     overflow |-> {}]

\* Re-read the fingerprint, assemble the record and write its file.
Record ==
    /\ pc = "observe"
    /\ files' = [files EXCEPT ![Group] =
                    Append(@, Assemble(opts.def, Plan(Group)[Len(@) + 1], Reading,
                                       opts.def.pin_threads, frag))]
    /\ truth' = [truth EXCEPT ![Group] = Append(@, [frag |-> frag, host |-> host])]
    /\ frag' = NoFragment
    /\ pc' = "loop"
    /\ UNCHANGED <<opts, host, towrite, fp, outcome, code, drifts>>
-----------------------------------------------------------------------------
(* assayist capture *)

ObserveHost ==
    /\ pc = "prep"
    /\ opts.command = "capture"
    /\ fp' = Reading
    /\ pc' = "capture"
    /\ UNCHANGED <<opts, host, towrite, frag, files, outcome, code, history>>

\* The first cell, or no parameters; no target is up, so there is no pinning layout.
Capture ==
    /\ pc = "capture"
    /\ plannable(opts.def)
    /\ \E f \in Fragments :
          LET cells == expand_cells(opts.def)
              params == IF cells = <<>> THEN [d \in {} |-> 0] ELSE cells[1]
          IN files' = [files EXCEPT !.out = <<Assemble(opts.def, params, fp, FALSE, f)>>]
    /\ Exit(0)
    /\ UNCHANGED <<opts, host, towrite, fp, frag, outcome, history>>
-----------------------------------------------------------------------------
(* The gate *)

\* run_cmd passes --a and --b in every mode; the drift mode reads --baseline
\* and --candidate, so it finds no runs.
GateJudges(signal) ==
    IF opts.def.mode = "longitudinal_drift"
    THEN judge(opts.def.mode, <<>>, <<>>, GateConfig, signal)
    ELSE judge(opts.def.mode, files.a, files.b, GateConfig, signal)

\* A gate error ends the command before outcome.json; failing to write that file
\* is only a warning.
RunGate ==
    /\ pc = "loop"
    /\ Finished
    /\ \E signal \in Signal :
          LET verdict == GateJudges(signal)
          IN /\ Exit(exit_code(verdict))
             /\ outcome' \in IF verdict = "error" THEN {outcome} ELSE {outcome, verdict}
    /\ truth' = [truth EXCEPT !.gate = "ran"]
    /\ UNCHANGED <<opts, host, towrite, fp, frag, files, drifts>>

GateMissing ==
    /\ pc = "loop"
    /\ Finished
    /\ Exit(1)
    /\ UNCHANGED <<opts, host, towrite, fp, frag, files, outcome, history>>

\* Killed by a signal, before or after it has printed its outcome: no exit code,
\* read as -1 and clamped to 0.
GateKilled ==
    /\ pc = "loop"
    /\ Finished
    /\ Exit(0)
    /\ \E signal \in Signal :
          outcome' \in {outcome, "null", GateJudges(signal)} \ {"error"}
    /\ truth' = [truth EXCEPT !.gate = "killed"]
    /\ UNCHANGED <<opts, host, towrite, fp, frag, files, drifts>>

Next ==
    \/ Load \/ LoadFails
    \/ HostDrifts
    \/ WriteTunable \/ PrepFails \/ Prepared
    \/ ExecuteRun \/ RunFails \/ Record
    \/ ObserveHost \/ Capture
    \/ RunGate \/ GateMissing \/ GateKilled

Spec == Init /\ [][Next]_vars
-----------------------------------------------------------------------------
Records(params) ==
    [params : {params}, readback : [Readback -> BOOLEAN], grade : Grades,
     tenancy : Tenancies, series : [Metrics -> Nat], over : SUBSET Probes,
     overflow : SUBSET Metrics]

\* Records and exit codes are of the kind the code writes, each record carries
\* the parameters its place in the plan calls for, and group B starts only when
\* group A's plan is complete.
TypeOK ==
    /\ opts \in Options
    /\ host \in [Tunables -> BOOLEAN]
    /\ pc \in {"load", "prep", "loop", "observe", "capture", "exited"}
    /\ towrite \subseteq Tunables
    /\ fp \in [Readback -> BOOLEAN]
    /\ frag \in Fragments \cup {NoFragment}
    /\ \A g \in Groups : files[g] /= <<>> =>
          /\ Len(files[g]) <= Len(Plan(g))
          /\ \A i \in DOMAIN files[g] : files[g][i] \in Records(Plan(g)[i])
    /\ files.b /= <<>> => Len(files.a) = Len(Plan("a"))
    /\ Len(files.out) <= 1
    /\ outcome \in Verdicts \cup {"none", "old", "null"}
    /\ code \in -1 .. 3

RunIds == UNION {{<<g, i>> : i \in DOMAIN files[g]} : g \in Groups}
FileOf(r) == files[r[1]][r[2]]
TruthOf(r) == truth[r[1]][r[2]]
GateRan == code /= 1 /\ truth.gate = "ran"

\* The combinations the matrix asks for, as the set of choices of one value per
\* dimension: the reference the cells of def.rs are checked against.
Matrix ==
    LET axes == {opts.def.parameterise[i] : i \in DOMAIN opts.def.parameterise}
        dims == {axis.name : axis \in axes}
    IN {c \in [dims -> UNION {{axis.values[i] : i \in DOMAIN axis.values} : axis \in axes}] :
            \A axis \in axes : \E i \in DOMAIN axis.values : c[axis.name] = axis.values[i]}

Repeats(axis) == \E i, j \in DOMAIN axis.values : i /= j /\ axis.values[i] = axis.values[j]

\* The i-th runs of A and B have the same value in every dimension but the compared
\* one, of which each has its own, and so differ there if its two values do.
PairedRuns ==
    \A i \in DOMAIN files.b :
        LET a == files.a[i].params
            b == files.b[i].params
        IN /\ DOMAIN a = DOMAIN b
           /\ {d \in DOMAIN a : a[d] /= b[d]}
              = {d \in opts.def.compare : \A axis \in Axis(opts.def, d) : ~Repeats(axis)}
           /\ \A dim \in opts.def.compare : \A axis \in Axis(opts.def, dim) :
                 <<a[dim], b[dim]>> = axis.values

\* When the gate has run, every combination of a matrix without repeated values was
\* recorded `repeat` times in each group it belongs to.
MatrixRecorded ==
    truth.gate = "ran"
    /\ (\A i \in DOMAIN opts.def.parameterise : ~Repeats(opts.def.parameterise[i])) =>
        \A c \in Matrix :
           LET runs(g) == Cardinality({i \in DOMAIN files[g] : files[g][i].params = c})
           IN IF opts.def.compare = {} THEN \A g \in Groups : runs(g) = opts.repeat
              ELSE {runs(g) : g \in Groups} = {0, opts.repeat}

\* The parameters of the two groups' runs differ in nothing but the compared
\* dimension, run by run, and leave nothing of the matrix out (expand_cells, the
\* selection in run_cmd, and the loop over it).  Each group has its own SUT on top
\* of that, with `compare` too; it is not a parameter and not in the model.
GroupsLikeForLike == PairedRuns /\ MatrixRecorded

\* Exit 0 from a gate that ran to its end certifies the whole experiment: every
\* planned run was recorded and, unless ungraded runs were asked for, each ended
\* on a host whose read-back tunables had the requested values, with its threads
\* pinned and its observer cost recorded (run_cmd, assemble, validate).
PassCertifiesRuns ==
    GateRan /\ code = 0 =>
        /\ \A g \in Groups : Len(files[g]) = Len(Plan(g)) /\ files[g] /= <<>>
        /\ ~opts.allow_ungraded =>
              /\ opts.def.pin_threads
              /\ \A r \in RunIds : /\ TruthOf(r).frag.costs
                                   /\ \A k \in Wanted(opts.def) \cap Readback : TruthOf(r).host[k]

\* With --apply-prep and a host nobody else touches, prep either refuses the
\* command before its first run or holds for all of them: no run is invalid.
AppliedPrepHolds ==
    opts.apply_prep /\ drifts = 0 =>
        \A r \in RunIds : FileOf(r).grade /= "invalid"

\* A probe over budget during any run of a finished comparison keeps the exit
\* code from 0 when it is the source of a compared metric, or in the triad mode
\* when it ran in group B.
OverBudgetNeverPasses ==
    GateRan /\ code = 0 =>
        \A r \in RunIds :
            /\ \A m \in Comparable(files.a, files.b) \ opts.def.ignore :
                  TruthOf(r).frag.series[m] > 0 => Source[m] \notin TruthOf(r).frag.over
            /\ opts.def.mode = "subsystem_triad" /\ r[1] = "b" => TruthOf(r).frag.over = {}
-----------------------------------------------------------------------------
(* What makes PassCertifiesRuns, AppliedPrepHolds, OverBudgetNeverPasses and   *)
(* GroupsLikeForLike inductive.                                                *)

\* Every record is the one assemble makes of the fragment and the host its run
\* ended with, with the parameters of its place in the plan.
RecordsInv ==
    /\ DOMAIN files = {"a", "b", "out"}
    /\ DOMAIN truth = {"a", "b", "gate"}
    /\ \A g \in Groups :
          /\ IsSeq(files[g])
          /\ IsSeq(truth[g])
          /\ Len(files[g]) = Len(truth[g])
          /\ \A i \in 1 .. Len(files[g]) :
                files[g][i] = Assemble(opts.def, Plan(g)[i], [k \in Readback |-> truth[g][i].host[k]],
                                       opts.def.pin_threads, truth[g][i].frag)

\* A command past "load" has a valid definition; the gate and the exit come last.
StageInv ==
    /\ pc \in {"load", "prep", "loop", "observe", "capture", "exited"}
    /\ pc /= "exited" => code = -1 /\ truth.gate = "none"
    /\ pc \notin {"load", "exited"} => validate(opts.def)
    /\ drifts \in Nat

\* What prep applied and checked holds until something else moves it.
PrepInv ==
    opts.apply_prep /\ drifts = 0 /\ pc \in {"loop", "observe"} => tuning_consistent(opts.def, Reading)

\* Group A's plan before group B's, each up to its end, and only then the gate.
ProgressInv ==
    /\ opts \in Options
    /\ \A g \in Groups : Len(files[g]) <= Len(Plan(g))
    /\ files.b /= <<>> => Len(files.a) = Len(Plan("a"))
    /\ pc = "observe" => ~Finished
    /\ truth.gate = "ran" => Finished
    /\ (\E g \in Groups : files[g] /= <<>>) \/ truth.gate = "ran" => validate(opts.def)

IInv ==
    RecordsInv /\ StageInv /\ PrepInv /\ ProgressInv
        /\ PassCertifiesRuns /\ AppliedPrepHolds /\ OverBudgetNeverPasses
-----------------------------------------------------------------------------
(* Statements of the repository that the code does not live up to. *)

\* docs/contract-v0.md: "An overflowed series marks the run `outcome:
\* contaminated` for that metric."
OverflowContaminates ==
    GateRan /\ (\E r \in RunIds : TruthOf(r).frag.overflow) => code = 3

\* docs/contract-v0.md: with over_budget "any metric it produced in the current
\* run is marked contaminated".
OverBudgetContaminates ==
    GateRan /\ (\E m \in Comparable(files.a, files.b) \ opts.def.ignore, r \in RunIds :
                    Producers[m] \cap FileOf(r).over /= {}) => code = 3

\* orchestrate gate.rs: "Its exit code carries the verdict for CI (0 pass, ...)".
KilledGateIsNoPass == truth.gate = "killed" => code /= 0

\* README: the gate has "Three modes"; an admissible, comparable experiment in
\* any of them gets a verdict.
EveryModeJudges ==
    /\ truth.gate = "ran"
    /\ Admitted(files.a, files.b, GateConfig)
    /\ Comparable(files.a, files.b) \ opts.def.ignore /= {}
    => code /= 1

\* run_cmd: "A host that drifts between the A and B builds then shows up in that
\* run's own fingerprint".
DriftShowsUp ==
    \A r, s \in RunIds :
        r[1] = "a" /\ s[1] = "b" /\ TruthOf(r).host /= TruthOf(s).host =>
            FileOf(r).readback /= FileOf(s).readback
=============================================================================
