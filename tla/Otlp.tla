-------------------------------- MODULE Otlp --------------------------------
(***************************************************************************)
(* The OTLP transforms, crates/otlp/src/lib.rs, as operators on records,   *)
(* and what the gate makes of a record, crates/gate/src/reduce.rs.         *)
(*                                                                         *)
(* A record is [run_id, source, grade, tenancy, params_hash, spans, series, *)
(* costs, report].  A document is [attrs, spans, metrics, hasSpans,        *)
(* hasMetrics]: --signal leaves one of the two parts out.  Strings are     *)
(* values; a metric id is the tuple its parts are joined from, and a part  *)
(* is known by the words polarity_of looks for in it.  The separators are  *)
(* in none of the words, so a word of an id is a word of one of its parts. *)
(***************************************************************************)
EXTENDS Histograms, Contract

CONSTANTS
    Words,        \* part of an id -> the words of polarity_of it contains
    None

\* An absent optional field.
Absent == None

NoLabels == [l \in {} |-> None]
-----------------------------------------------------------------------------
(* Export *)

grade_str(g) == g

resource_attributes(run) ==
    [tenancy |-> run.tenancy, params_hash |-> run.params_hash, grade |-> grade_str(run.grade)]

\* A hash of the three, taken to be injective.
span_id(run_id, name, index) == <<run_id, name, index>>

\* Mutant: the parent is taken to be the first span of the run.
ParentIdZero(run, parent) ==
    IF \E i \in DOMAIN run.spans : run.spans[i].name = parent
    THEN span_id(run.run_id, parent, 1) ELSE Absent

\* `parent` is a name; the first span of that name is meant.
ParentId(run, parent) ==
    LET named == {i \in DOMAIN run.spans : run.spans[i].name = parent}
    IN IF named = {} THEN Absent
       ELSE LET first == CHOOSE i \in named : \A j \in named : i <= j
            IN span_id(run.run_id, parent, first)

spans(run) ==
    [i \in DOMAIN run.spans |->
        [traceId |-> run.run_id, spanId |-> span_id(run.run_id, run.spans[i].name, i),
         parentSpanId |-> ParentId(run, run.spans[i].parent),
         name |-> run.spans[i].name, start |-> run.spans[i].start, end |-> run.spans[i].end]]

\* A missing count is written as 0, a missing sum is not written.
u64_str(n) == IF n = Absent THEN 0 ELSE n

histogram_body(data) ==
    IF data.layout = "log2"
    THEN [type |-> "exponentialHistogram", offset |-> 0, bucketCounts |-> data.buckets,
          count |-> u64_str(data.count), sum |-> data.sum]
    ELSE [type |-> "histogram", explicitBounds |-> data.bounds, bucketCounts |-> data.buckets,
          count |-> u64_str(data.count), sum |-> data.sum]

\* Labels, cardinality and the overflow flag have no place in the metric.
series_to_metric(s) ==
    [name |-> s.name, unit |-> s.unit, source |-> s.source, key |-> s.key,
     body |-> CASE s.kind = "histogram" -> histogram_body(s.data)
                [] s.kind = "counter" -> [type |-> "sum", value |-> s.data]
                [] s.kind = "gauge" -> [type |-> "gauge", value |-> s.data]]

\* Two metrics for each ProbeCost.
probe_metrics(run) ==
    LET metric(name, cost) == [name |-> name, unit |-> "1", source |-> Absent, key |-> Absent,
                               body |-> [type |-> "gauge", value |-> cost]]
    IN FlattenSeq([i \in DOMAIN run.costs |->
          <<metric("assayist.probe.steady_cpu_fraction", run.costs[i]),
            metric("assayist.probe.run_time_ns", run.costs[i])>>])

IsProbe(name) == name \in {"assayist.probe.steady_cpu_fraction", "assayist.probe.run_time_ns"}

Signals == {"both", "traces", "metrics"}

export(run, signal) ==
    [attrs |-> resource_attributes(run),
     hasSpans |-> signal /= "metrics", hasMetrics |-> signal /= "traces",
     spans |-> IF signal = "metrics" THEN <<>> ELSE spans(run),
     metrics |-> IF signal = "traces" THEN <<>>
                 ELSE [i \in DOMAIN run.series |-> series_to_metric(run.series[i])]
                      \o probe_metrics(run)]
-----------------------------------------------------------------------------
(* Import *)

import_spans(doc) ==
    LET named(id) == {i \in DOMAIN doc.spans : doc.spans[i].spanId = id}
        name_by_id(id) == IF named(id) = {} THEN Absent
                          ELSE doc.spans[CHOOSE i \in named(id) : TRUE].name
    IN [i \in DOMAIN doc.spans |->
          [name |-> doc.spans[i].name, parent |-> name_by_id(doc.spans[i].parentSpanId),
           start |-> doc.spans[i].start, end |-> doc.spans[i].end]]

metric_to_series(m) ==
    LET type == m.body.type
    IN [name |-> m.name, unit |-> m.unit, source |-> m.source, key |-> m.key,
        labels |-> NoLabels, overflow |-> FALSE,
        kind |-> CASE type \in {"exponentialHistogram", "histogram"} -> "histogram"
                   [] type = "sum" -> "counter"
                   [] type = "gauge" -> "gauge",
        data |-> CASE type = "exponentialHistogram" ->
                        [layout |-> "log2", buckets |-> m.body.bucketCounts,
                         count |-> m.body.count, sum |-> m.body.sum]
                   [] type = "histogram" ->
                        [layout |-> "explicit", buckets |-> m.body.bucketCounts,
                         bounds |-> m.body.explicitBounds,
                         count |-> m.body.count, sum |-> m.body.sum]
                   [] OTHER -> m.body.value]

\* Probe costs are not series: nothing is pushed for them.
import_series(doc) ==
    FlattenSeq([i \in DOMAIN doc.metrics |->
        IF IsProbe(doc.metrics[i].name) THEN <<>> ELSE <<metric_to_series(doc.metrics[i])>>])

\* The run id is the trace id of the first span, if there is one.  The tuning record
\* is empty, hence consistent; the extended fingerprint and the probe costs are gone.
import(doc) ==
    [run_id |-> IF doc.spans = <<>> THEN "" ELSE doc.spans[1].traceId,
     source |-> "imported", grade |-> compute_grade("imported", TRUE, FALSE, FALSE, FALSE),
     tenancy |-> doc.attrs.tenancy, params_hash |-> doc.attrs.params_hash,
     spans |-> import_spans(doc), series |-> import_series(doc),
     costs |-> <<>>, report |-> <<>>]
-----------------------------------------------------------------------------
(* Reduction *)

\* Mutant: memory consumption before throughput, the order the code's comment gives.
memory_first(words, unit) ==
    IF words \cap {"mem_consumed", "memory_consumed", "rss"} /= {} THEN "lower"
    ELSE IF words \cap {"bytes", "packets", "throughput", "iops"} /= {} \/ unit = "By" THEN "higher"
    ELSE IF words \cap {"on_cpu", "utilis", "cpu_ns"} /= {} THEN "unknown"
    ELSE IF unit \in {"ns", "us", "ms", "s"} THEN "lower" ELSE "unknown"

\* The rules in the order of the code: the first that applies decides.
polarity_of(words, unit) ==
    IF words \cap {"bytes", "packets", "throughput", "iops"} /= {} \/ unit = "By" THEN "higher"
    ELSE IF words \cap {"mem_consumed", "memory_consumed", "rss"} /= {} THEN "lower"
    ELSE IF words \cap {"on_cpu", "utilis", "cpu_ns"} /= {} THEN "unknown"
    ELSE IF unit \in {"ns", "us", "ms", "s"} THEN "lower" ELSE "unknown"

overbudget_sources(run) == {run.costs[i].probe_id : i \in {j \in DOMAIN run.costs : run.costs[j].over}}

\* The percentiles come from the buckets; so does the mean, unless a log2 histogram
\* has a sum and a count.
Estimates(data) ==
    IF data.layout = "explicit"
    THEN <<explicit_mean(data.buckets, data.bounds),
           explicit_percentile(data.buckets, data.bounds, 50),
           explicit_percentile(data.buckets, data.bounds, 99)>>
    ELSE <<IF data.sum /= Absent /\ data.count /= Absent /\ data.count > 0
             THEN exact_mean(data.sum, data.count) ELSE log2_mean(data.buckets),
           log2_percentile(data.buckets, 50), log2_percentile(data.buckets, 99)>>

LabelWords(labels) == UNION {Words[l] \cup Words[labels[l]] : l \in DOMAIN labels}
NameWords(s) == Words[s.name] \cup (IF s.key = Absent THEN {} ELSE Words[s.key])

\* The id is name, key and sorted labels with the statistic, and the direction is read
\* from all of it.  An assembled record has no capture_meta, so no counter has a rate.
reduce_series(run, s) ==
    LET metric(stat, v) ==
            [id |-> <<s.name, s.key, s.labels, stat>>, value |-> v,
             contaminated |-> s.source \in overbudget_sources(run) \/ s.overflow,
             polarity |-> polarity_of(NameWords(s) \cup LabelWords(s.labels), s.unit)]
    IN IF s.kind = "histogram"
       THEN LET e == Estimates(s.data)
            IN <<metric("mean", e[1]), metric("p50", e[2]), metric("p99", e[3])>>
       ELSE <<metric("value", s.data)>>

\* Series, then every number of the workload report, then span durations.
reduce_run(run) ==
    FlattenSeq([i \in DOMAIN run.series |-> reduce_series(run, run.series[i])])
    \o [i \in DOMAIN run.report |->
          [id |-> <<"workload", run.report[i].name>>, value |-> run.report[i].value,
           contaminated |-> FALSE,
           polarity |-> polarity_of(Words[run.report[i].name], run.report[i].unit)]]
    \o [i \in DOMAIN run.spans |->
          [id |-> <<"span", run.spans[i].name>>, value |-> run.spans[i].end - run.spans[i].start,
           contaminated |-> FALSE, polarity |-> "lower"]]
=============================================================================
