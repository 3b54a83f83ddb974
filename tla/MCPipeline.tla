----------------------------- MODULE MCPipeline -----------------------------
(* One latency metric that two KVM probes produce and one workload number;   *)
(* two CPUs; definitions that request every knob or none.                    *)
EXTENDS Pipeline, TLC

MCMetrics == {"exit_latency", "iops"}
MCPolarity == "exit_latency" :> "lower" @@ "iops" :> "higher"
MCSource == "exit_latency" :> "kvm_exit" @@ "iops" :> "workload"
MCProbes == {"kvm_exit", "kvm_entry"}
MCProducers == "exit_latency" :> {"kvm_exit", "kvm_entry"} @@ "iops" :> {}

Clean == [series |-> [m \in MCMetrics |-> 2], over |-> {}, overflow |-> FALSE, costs |-> TRUE]

\* Clean; the exit probe over budget; the map overflowed and no gadget reported
\* its cost.
MCFragments ==
    {Clean,
     [Clean EXCEPT !.over = {"kvm_exit"}],
     [Clean EXCEPT !.overflow = TRUE, !.costs = FALSE]}

\* The entry probe over budget, or an overflow next to full cost records.
EntryFragments ==
    {Clean,
     [Clean EXCEPT !.over = {"kvm_entry"}],
     [Clean EXCEPT !.overflow = TRUE]}

AllKnobs == {"cpu_governor", "smt", "thp"}
Entry == [class |-> "bounded", key_source |-> {"guest"}, max_keys |-> {8},
          attach |-> {"tracepoint"}, hot_path |-> TRUE, gadget |-> TRUE]
Def(mode) ==
    [mode |-> mode, tenancy |-> "single_tenant", parameterise |-> <<>>, compare |-> {},
     capture |-> <<Entry>>, knobs |-> AllKnobs, pin_threads |-> TRUE, ignore |-> {}]
Cmd(command, def) ==
    [command |-> command, def |-> def, repeat |-> 1, apply_prep |-> FALSE, allow_ungraded |-> FALSE]
Run(def) == [Cmd("run", def) EXCEPT !.repeat = 2]

AB == Def("ab_permutation")
Unprepared == [AB EXCEPT !.knobs = {}]
Vcpu(values) == [name |-> "vcpu", values |-> values]
Backend == [name |-> "backend", values |-> <<"io_uring", "sync">>]

\* Two runs of one cell in every mode and with every flag; two axes of which the
\* second in name order is compared; a compared axis that says one value twice; an
\* axis without values, which leaves nothing to run; definitions validate rejects;
\* an entry no gadget can be launched for; and the two short commands.
MCOptions ==
    {[Run(AB) EXCEPT !.apply_prep = TRUE],
     Run(Def("subsystem_triad")),
     [Cmd("run", [Def("longitudinal_drift") EXCEPT !.knobs = {}]) EXCEPT !.allow_ungraded = TRUE],
     Cmd("run", [Unprepared EXCEPT !.pin_threads = FALSE]),
     [Run([AB EXCEPT !.ignore = {"iops"}]) EXCEPT !.allow_ungraded = TRUE],
     Cmd("run", [Unprepared EXCEPT !.parameterise = <<Backend, Vcpu(<<"1", "4">>)>>,
                                   !.compare = {"vcpu"}]),
     Run([AB EXCEPT !.parameterise = <<Backend, Vcpu(<<>>)>>]),
     Run([AB EXCEPT !.parameterise = <<Vcpu(<<"1", "2", "4">>)>>, !.compare = {"vcpu"}]),
     Cmd("run", [Unprepared EXCEPT !.parameterise = <<Vcpu(<<"1", "1">>)>>, !.compare = {"vcpu"}]),
     Run([AB EXCEPT !.compare = {"backend"}]),
     Run([AB EXCEPT !.capture = <<[Entry EXCEPT !.max_keys = {0}]>>]),
     Run([AB EXCEPT !.capture = <<[Entry EXCEPT !.attach = {"uprobe"}]>>]),
     Run([Unprepared EXCEPT !.capture = <<Entry, [Entry EXCEPT !.gadget = FALSE]>>]),
     Cmd("capture", [AB EXCEPT !.parameterise = <<Backend, Vcpu(<<"1", "4">>)>>]),
     Cmd("capture", [AB EXCEPT !.parameterise = <<Backend, Vcpu(<<>>)>>]),
     Cmd("inspect", AB)}
=============================================================================
