------------------------------- MODULE MCGate -------------------------------
(* Two metrics: a latency series of the KVM gadget and a number of the       *)
(* workload report; runs that differ in grade, tenancy and observer cost.    *)
EXTENDS Gate, TLC

MCMetrics == {"exit_latency", "iops"}
MCPolarity == "exit_latency" :> "lower" @@ "iops" :> "higher"
MCSource == "exit_latency" :> "kvm_exit" @@ "iops" :> "workload"
MCProbes == {"kvm_exit", "kvm_entry"}

Clean == [grade |-> "reproducible", tenancy |-> "single_tenant",
          series |-> [m \in MCMetrics |-> 1], over |-> {}, overflow |-> {}]

MCRunShapes ==
    {Clean,
     [Clean EXCEPT !.over = {"kvm_exit"}],
     [Clean EXCEPT !.over = {"kvm_entry"}, !.grade = "valid"],
     [Clean EXCEPT !.overflow = {"exit_latency"}],
     [Clean EXCEPT !.tenancy = "density"],
     [Clean EXCEPT !.series = [m \in MCMetrics |-> IF m = "iops" THEN 0 ELSE 2]]}
=============================================================================
