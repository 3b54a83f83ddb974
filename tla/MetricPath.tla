----------------------------- MODULE MetricPath -----------------------------
(***************************************************************************)
(* The way of a measurement: observed in the kernel, read out by a loader, *)
(* assembled into a record, exported to OTLP, imported again, possibly     *)
(* several times, and at any point reduced by the gate to scalars.         *)
(*                                                                         *)
(* The block, kvm and net gadgets are shown the same values, so that their *)
(* histograms can be compared with each other and with the values.         *)
(***************************************************************************)
EXTENDS Otlp

CONSTANTS
    Values,       \* what may be observed: a latency, or the length of a packet
    MaxSamples,   \* bound: observations
    Captures,     \* [hires, spans, extra, over, grade]: the rest of a capture
    Table,        \* the session's handle table: handle -> vm_id
    MaxTrips      \* bound: exports and imports of one record

IsList(s) == Len(s) \in Nat /\ s = [i \in 1 .. Len(s) |-> s[i]]

\* A span of a target, and a series of a gadget: neither is named like the export's
\* own metrics, and a span's id is never mistaken for an absent one.
IsSpan(s, i) == /\ s = [name |-> s.name, parent |-> s.parent, start |-> s.start, end |-> s.end]
                /\ span_id("run", s.name, i) /= Absent
IsSeries(s) ==
    /\ s = [name |-> s.name, unit |-> s.unit, kind |-> s.kind, source |-> s.source,
            key |-> s.key, labels |-> s.labels, overflow |-> s.overflow, data |-> s.data]
    /\ ~IsProbe(s.name)
    /\ s.kind \in {"histogram", "counter", "gauge"}
    /\ s.kind = "histogram" => s.data.layout \in {"log2", "explicit"}

ASSUME PathAssumption ==
    /\ Values \subseteq Nat /\ MaxSamples \in Nat /\ MaxTrips \in Nat
    /\ \A c \in Captures : /\ c.hires \in BOOLEAN /\ c.over \in BOOLEAN
                           /\ c.grade \in {"invalid", "valid", "reproducible"}
                           /\ IsList(c.spans) /\ IsList(c.extra)
                           /\ \A i \in DOMAIN c.spans : IsSpan(c.spans[i], i)
                           /\ \A i \in DOMAIN c.extra : IsSeries(c.extra[i])

VARIABLES
    slots,    \* blk_stat.slots of the block gadget
    plain,    \* hist.slots of the kvm gadget
    sizes,    \* if_stat.rx_size of the net gadget
    record,   \* the run record on disk, or None
    doc,      \* the OTLP document on disk, or None
    \* history
    seen,     \* value -> times observed
    orig,     \* the captured record
    signals   \* the --signal of each export so far

kernelVars == <<slots, plain, sizes, seen>>
pathVars == <<kernelVars, record, doc, orig, signals>>

PathInit ==
    /\ slots = [s \in 0 .. MaxSlots - 1 |-> 0]
    /\ plain = [s \in 0 .. MaxOctaves - 1 |-> 0]
    /\ sizes = [s \in 0 .. Len(SizeBounds) |-> 0]
    /\ seen = [v \in Values |-> 0]
    /\ record = None
    /\ doc = None
    /\ orig = None
    /\ signals = <<>>
-----------------------------------------------------------------------------
Observe(v) ==
    /\ record = None
    /\ Total(seen) < MaxSamples
    /\ slots' = [slots EXCEPT ![log_linear_slot(v)] = @ + 1]
    /\ plain' = [plain EXCEPT ![log2_slot(v)] = @ + 1]
    /\ sizes' = [sizes EXCEPT ![size_bucket(v)] = @ + 1]
    /\ seen' = [seen EXCEPT ![v] = @ + 1]
    /\ UNCHANGED <<record, doc, orig, signals>>

Series(name, unit, source, data) ==
    [name |-> name, unit |-> unit, kind |-> "histogram", source |-> source, key |-> Absent,
     labels |-> NoLabels, overflow |-> FALSE, data |-> data]

\* The loaders write a count and no sum.
Log2(buckets) ==
    [layout |-> "log2", buckets |-> buckets, count |-> Total(seen), sum |-> Absent]
Explicit(buckets, bounds) ==
    [layout |-> "explicit", buckets |-> buckets, bounds |-> bounds,
     count |-> Total(seen), sum |-> Absent]

\* The loaders' histogram series; a key without observations has none.
GadgetSeries(hires) ==
    IF Total(seen) = 0 THEN <<>>
    ELSE <<Series("block.io_latency", "ns", "block_rq_complete",
                  IF hires THEN Explicit(slots, log_linear_bounds)
                  ELSE Log2(collapse_to_log2(slots))),
           Series("kvm.exit_handling_latency", "ns", "kvm_exit", Log2(plain)),
           Series("net.tap_rx_packet_size", "By", "tap_rx", Explicit(sizes, size_bounds))>>

\* A handle the session issued becomes the VM's id; any other label stays.
rewrite_vm_id_labels(series) ==
    [i \in DOMAIN series |->
        [series[i] EXCEPT !.labels = [l \in DOMAIN @ |->
            IF l = "vm_id" /\ @[l] \in DOMAIN Table THEN Table[@[l]] ELSE @[l]]]]

WriteRecord(c) ==
    LET run == [run_id |-> "run", source |-> "captured", grade |-> c.grade,
                tenancy |-> "single_tenant", params_hash |-> "cell", spans |-> c.spans,
                series |-> rewrite_vm_id_labels(GadgetSeries(c.hires) \o c.extra),
                costs |-> <<[probe_id |-> "block_rq_issue", over |-> FALSE],
                            [probe_id |-> "block_rq_complete", over |-> c.over]>>,
                report |-> <<[name |-> "iops", unit |-> "", value |-> 7]>>]
    IN /\ record = None
       /\ record' = run
       /\ orig' = run
       /\ UNCHANGED <<kernelVars, doc, signals>>

Export(signal) ==
    /\ record /= None
    /\ doc = None
    /\ Len(signals) < MaxTrips
    /\ doc' = export(record, signal)
    /\ signals' = Append(signals, signal)
    /\ UNCHANGED <<kernelVars, record, orig>>

Import ==
    /\ doc /= None
    /\ record' = import(doc)
    /\ doc' = None
    /\ UNCHANGED <<kernelVars, orig, signals>>

PathNext ==
    \/ \E v \in Values : Observe(v)
    \/ \E c \in Captures : WriteRecord(c)
    \/ \E signal \in Signals : Export(signal)
    \/ Import

PathSpec == PathInit /\ [][PathNext]_pathVars
-----------------------------------------------------------------------------
\* Histograms hold every observation, clamped or not, in one bucket each.
PathTypeOK ==
    /\ slots \in [0 .. MaxSlots - 1 -> Nat] /\ plain \in [0 .. MaxOctaves - 1 -> Nat]
    /\ sizes \in [0 .. Len(SizeBounds) -> Nat]
    /\ {Total(slots), Total(plain), Total(sizes)} = {Total(seen)}
    /\ record /= None => /\ record.source \in {"captured", "imported"}
                         /\ record.grade \in {"invalid", "valid", "reproducible"}

\* The true order statistic the percentile stands for.
OrderStatistic(q) ==
    LET reached(v) == 100 * SumFunctionOnSet(seen, {w \in Values : w <= v}) >= q * Total(seen)
    IN CHOOSE v \in Values : reached(v) /\ \A w \in Values : w < v => ~reached(w)

\* A percentile estimate is the middle of a bucket that holds the true order
\* statistic: the kernel's slots, the bounds the loaders write and the gate's
\* walk agree about every boundary, which in the block gadget's layout belongs to
\* the bucket above it and in the packet sizes' to the bucket below.  Except at
\* values beyond a layout's last bound, and for a value of 0, which the kernel
\* counts in bucket 0 of a log2 histogram although that bucket stands for [1, 2)
\* (log2_u64, log_linear_bounds, size_bucket, log2_percentile, explicit_percentile).
PercentileInBucket ==
    record = None /\ Total(seen) > 0 =>
        \A q \in {50, 99} :
            LET v == OrderStatistic(q)
                scaled == v * SubSlots
                fine == explicit_percentile(slots, log_linear_bounds, q)
                size == explicit_percentile(sizes, size_bounds, q)
            IN /\ \/ v >= 2^MaxOctaves
                  \/ \E i \in DOMAIN plain :
                        /\ log2_percentile(plain, q) = 2^i * 3 * SubSlots
                        /\ 2^i <= v \/ i = 0
                        /\ v < 2^(i + 1)
               /\ \/ scaled >= log_linear_bounds[MaxSlots - 2]
                  \/ \E s \in DOMAIN log_linear_bounds :
                        /\ fine = Midpoint(log_linear_bounds, s)
                        /\ Lower(log_linear_bounds, s) <= scaled
                        /\ scaled < Upper(log_linear_bounds, s)
               /\ \/ scaled > size_bounds[Len(SizeBounds) - 1]
                  \/ \E s \in DOMAIN size_bounds :
                        /\ size = Midpoint(size_bounds, s)
                        /\ Lower(size_bounds, s) < scaled \/ s = 0
                        /\ scaled <= Upper(size_bounds, s)

\* The default output of the block gadget has the counts a plain log2 gadget
\* would have, and --hires moves no percentile out of the octave the default
\* puts it in, the open bucket at the end excepted (collapse_to_log2, --hires).
LayoutsAgree ==
    record = None =>
    /\ collapse_to_log2(slots) = plain
    /\ Total(seen) > 0 =>
          \A q \in {50, 99} :
              LET octave == Bucket(collapse_to_log2(slots), q)
                  fine == explicit_percentile(slots, log_linear_bounds, q)
              IN \/ Bucket(slots, q) = MaxSlots - 1
                 \/ octave = 0 /\ fine < 4 * SubSlots
                 \/ 2^octave * 2 * SubSlots <= fine /\ fine < 2^(octave + 1) * 2 * SubSlots

Imported == record /= None /\ record /= orig
SeriesMetrics(run) ==
    FlattenSeq([i \in DOMAIN run.series |-> reduce_series(run, run.series[i])])
Plain(m) == [id |-> <<m.id[1], m.id[2], m.id[4]>>, value |-> m.value]
KnownParent(run, p) == IF \E i \in DOMAIN run.spans : run.spans[i].name = p THEN p ELSE Absent
MetricIds(run) == LET ms == SeriesMetrics(run) IN {ms[i].id : i \in DOMAIN ms}
Trips == {signals[i] : i \in DOMAIN signals}

\* However often a record goes through OTLP, the gate reads the same values from its
\* series under the same names and keys, and the same directions where the labels
\* that are lost said nothing of the direction; and the same spans under the same
\* parents even when several spans share a name; the run id survives with the spans
\* (export, import, reduce).
RoundTripKeeps ==
    Imported =>
        /\ "traces" \notin Trips =>
              LET before == SeriesMetrics(orig)
                  after == SeriesMetrics(record)
              IN /\ DOMAIN after = DOMAIN before
                 /\ \A i \in DOMAIN before :
                       /\ Plain(after[i]) = Plain(before[i])
                       /\ LabelWords(before[i].id[3]) = {} => after[i].polarity = before[i].polarity
        /\ "metrics" \notin Trips =>
              /\ record.spans = [i \in DOMAIN orig.spans |->
                                    [orig.spans[i] EXCEPT !.parent = KnownParent(orig, @)]]
              /\ orig.spans /= <<>> => record.run_id = orig.run_id

\* The gate reads a direction from the whole id, and export drops the labels in it.
\* That can turn a metric's direction round, but only one way: no trip makes more
\* of a metric look better that was not, so a rise the gate would have failed as a
\* regression never comes back as an improvement.  The order of the rules decides
\* this: throughput words first (polarity_of, labels_suffix, series_to_metric).
NoTripMakesMoreBetter ==
    Imported /\ "traces" \notin Trips =>
        LET before == SeriesMetrics(orig)
            after == SeriesMetrics(record)
        IN \A i \in DOMAIN before :
              after[i].polarity = "higher" => before[i].polarity = "higher"
-----------------------------------------------------------------------------
(* The inductive invariant. *)

\* A series, and the spans of a run, after one trip; a second trip changes neither.
Through(s) == metric_to_series(series_to_metric(s))
ThroughAll(run) == [i \in DOMAIN run.series |-> Through(run.series[i])]
Rooted(run) == [i \in DOMAIN run.spans |->
                    [run.spans[i] EXCEPT !.parent = KnownParent(run, @)]]

SeriesInv(run) == IsList(run.series) /\ \A i \in DOMAIN run.series : IsSeries(run.series[i])
SpansInv(run) == /\ IsList(run.spans) /\ \A i \in DOMAIN run.spans : IsSpan(run.spans[i], i)
                 /\ run.spans /= <<>> => run.run_id = "run"

\* What is left of run in r after trips with these signals.
KeptBy(r, run, trips) ==
    /\ r.costs = <<>>
    /\ "traces" \notin trips => r.series = ThroughAll(run)
    /\ "metrics" \notin trips => /\ r.spans = Rooted(run)
                                 /\ run.spans /= <<>> => r.run_id = run.run_id

PathInv ==
    /\ signals \in Seq(Signals)
    /\ record /= None => /\ SeriesInv(orig) /\ SpansInv(orig) /\ IsList(orig.costs)
                         /\ record = orig \/ KeptBy(record, orig, Trips)
    /\ doc /= None => record /= None /\ \E s \in Trips : doc = export(record, s)
-----------------------------------------------------------------------------
(* Statements of the repository that the code does not live up to. *)

\* docs/contract-v0.md: the gate groups series "like-for-like by the full label
\* set".  Two series that differ in their labels only are still two metrics after
\* a round trip.
LabelsSurvive ==
    Imported /\ "traces" \notin Trips =>
        Cardinality(MetricIds(record)) = Cardinality(MetricIds(orig))

\* reduce.rs: memory consumption is "deliberately ahead of the throughput/bytes
\* rule", so a consumption metric is lower-better whatever else its name says.
MemoryIsLowerBetter ==
    record /= None =>
        \A i \in DOMAIN record.series :
            LET s == record.series[i]
            IN "rss" \in Words[s.name] =>
                   polarity_of(NameWords(s) \cup LabelWords(s.labels), s.unit) = "lower"

\* docs/contract-v0.md: the gate "ignores label keys it does not recognise".  A label
\* has no say in the direction of a metric.
LabelsHaveNoDirection ==
    record /= None =>
        \A i \in DOMAIN record.series :
            LET s == record.series[i]
            IN polarity_of(NameWords(s) \cup LabelWords(s.labels), s.unit)
                   = polarity_of(NameWords(s), s.unit)
=============================================================================
