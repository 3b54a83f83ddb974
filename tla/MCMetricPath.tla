---------------------------- MODULE MCMetricPath ----------------------------
(* Up to three observations among both sides of every kind of boundary: zero, *)
(* powers of two, sub-buckets, the clamped octave, packet size bounds and the *)
(* 16-bit step of log2_u64.  Records with labelled series, some with a word   *)
(* of polarity_of in a label, with and without sum and count; spans that      *)
(* share a name or name a parent that is not there; a probe over budget.      *)
EXTENDS MetricPath

MCValues == {0, 1, 2, 6, 7, 8, 27, 28, 32, 64, 65, 9001, 65535, 65536}

MCWords == [n \in {"block.io_latency", "kvm.exit_handling_latency", "net.tap_rx_packet_size",
                   "net.flow_packets", "hostmem.rss_bytes", "iops", "net.softirq_ns",
                   "kvm.exit_latency", "instance0", "vm_id", "backend", "vm-a",
                   "throughput-b", "9", "rss-pool"} |->
              CASE n = "net.flow_packets" -> {"packets"}
                [] n = "hostmem.rss_bytes" -> {"rss", "bytes"}
                [] n = "iops" -> {"iops"}
                [] n = "throughput-b" -> {"throughput"}
                [] n = "rss-pool" -> {"rss"}
                [] OTHER -> {}]

MCTable == "1" :> "vm-a" @@ "2" :> "throughput-b"

Flow(handle) ==
    [name |-> "net.flow_packets", unit |-> "1", kind |-> "counter", source |-> "flow",
     key |-> Absent, labels |-> [vm_id |-> handle], overflow |-> FALSE, data |-> 5]
Pooled == [Flow("1") EXCEPT !.labels = "backend" :> "rss-pool"]
Softirq(handle) == [Flow(handle) EXCEPT !.name = "net.softirq_ns", !.unit = "ns"]
Exits(count, sum) ==
    [name |-> "kvm.exit_latency", unit |-> "ns", kind |-> "histogram", source |-> "kvm_exit",
     key |-> Absent, labels |-> NoLabels, overflow |-> FALSE,
     data |-> [layout |-> "log2", buckets |-> 0 :> 3 @@ 1 :> 9, count |-> count, sum |-> sum]]
Rss == [name |-> "hostmem.rss_bytes", unit |-> "KiBy", kind |-> "gauge", source |-> "hostmem",
        key |-> "instance0", labels |-> NoLabels, overflow |-> TRUE, data |-> 3]

Span(name, parent) == [name |-> name, parent |-> parent, start |-> 2, end |-> 9]
Twins == <<Span("boot", "run"), Span("run", Absent), Span("boot", "run"), Span("steady", "boot"),
           Span("stop", "gone")>>

MCCaptures ==
    {[hires |-> FALSE, spans |-> <<>>, extra |-> <<>>, over |-> TRUE, grade |-> "reproducible"],
     [hires |-> TRUE, spans |-> Twins,
      extra |-> <<Flow("1"), Flow("2"), Rss, Softirq("2"), Exits(12, 42), Pooled>>,
      over |-> FALSE, grade |-> "reproducible"],
     [hires |-> FALSE, spans |-> Twins,
      extra |-> <<Flow("9"), Softirq("1"), Exits(Absent, 42), Exits(12, Absent)>>,
      over |-> TRUE, grade |-> "invalid"]}
=============================================================================
