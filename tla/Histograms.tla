----------------------------- MODULE Histograms -----------------------------
(***************************************************************************)
(* How a measured value becomes a bucket in the kernel, what the loaders   *)
(* say the buckets mean, and how the gate estimates percentiles and means  *)
(* from them: log2_u64 and the slot rules of capture/*/src/bpf, the        *)
(* readout of capture/block/src/main.rs, and crates/gate/src/stats.rs.     *)
(*                                                                         *)
(* Everything is an integer: bounds are in units of 1/SubSlots, estimates  *)
(* in units of 1/(2 * SubSlots), which makes the code's halves and         *)
(* quarters exact; a mean is a [num, den] pair and a quantile is given in  *)
(* percent.  Bucket arrays are functions on 0 .. n-1.                      *)
(***************************************************************************)
EXTENDS Naturals, Sequences, SequencesExt

CONSTANTS
    SubSlots,     \* SUBSLOTS, linear sub-buckets of an octave
    MaxOctaves    \* MAX_OCTAVES of block.h, MAX_SLOTS of kvm.h and ctrlplane.h

ASSUME HistAssumption == SubSlots \in Nat \ {0} /\ MaxOctaves \in Nat \ {0}

MaxSlots == MaxOctaves * SubSlots

AtMost(n, cap) == IF n > cap THEN cap ELSE n
Shr(v, s) == (v \div 2^(s \div 2)) \div 2^(s - s \div 2)

\* The shift cascade: v > 2^s - 1 tested on halves, for a value of any width.
log2_u64(v) ==
    LET shift(acc, s) == IF Shr(acc.v, s \div 2) >= 2^(s \div 2)
                         THEN [v |-> Shr(acc.v, s), r |-> acc.r + s] ELSE acc
        last == FoldLeft(shift, [v |-> v, r |-> 0], <<32, 16, 8, 4, 2>>)
    IN last.r + Shr(last.v, 1)

\* The slot of the kvm and ctrlplane gadgets.
log2_slot(v) == AtMost(log2_u64(v), MaxOctaves - 1)

\* handle_complete of the block gadget: the octave, then a linear sub-bucket.
log_linear_slot(delta) ==
    LET octave == AtMost(log2_u64(delta), MaxOctaves - 1)
        base == 2^octave
        rem == IF delta > base THEN delta - base ELSE 0
    IN octave * SubSlots + AtMost((rem * SubSlots) \div base, SubSlots - 1)

SizeBounds == <<64, 128, 256, 512, 1024, 1500, 9000>>

\* The ladder of the net gadget: the first bound that is not below the length.
size_bucket(len) == Cardinality({n \in DOMAIN SizeBounds : len > SizeBounds[n]})
-----------------------------------------------------------------------------
(* The block loader *)

\* Mutant: the octave is the slot modulo the number of octaves.
collapse_modulo(slots) ==
    [o \in 0 .. MaxOctaves - 1 |->
        SumFunctionOnSet(slots, {s \in DOMAIN slots : s % MaxOctaves = o})]

collapse_to_log2(slots) ==
    [o \in 0 .. MaxOctaves - 1 |-> SumFunctionOnSet(slots, o * SubSlots .. o * SubSlots + SubSlots - 1)]

\* Mutant: the lower edge of each bucket.
lower_bounds == [s \in 0 .. MaxSlots - 2 |-> 2^(s \div SubSlots) * (SubSlots + (s % SubSlots))]

\* Upper edges; the last bucket has none.
log_linear_bounds ==
    [s \in 0 .. MaxSlots - 2 |-> 2^(s \div SubSlots) * (SubSlots + (s % SubSlots) + 1)]

size_bounds == [n \in 0 .. Len(SizeBounds) - 1 |-> SizeBounds[n + 1] * SubSlots]
-----------------------------------------------------------------------------
(* The gate *)

Total(buckets) == SumFunctionOnSet(buckets, DOMAIN buckets)

\* The first bucket at which the running count reaches q of the total.
Bucket(buckets, q) ==
    LET reached(i) == 100 * SumFunctionOnSet(buckets, 0 .. i) >= q * Total(buckets)
    IN CHOOSE i \in DOMAIN buckets : reached(i) /\ \A j \in 0 .. i - 1 : ~reached(j)

log2_percentile(buckets, q) ==
    IF Total(buckets) = 0 THEN 0 ELSE 3 * SubSlots * 2^Bucket(buckets, q)

log2_mean(buckets) ==
    IF Total(buckets) = 0 THEN [num |-> 0, den |-> 1]
    ELSE [num |-> SumFunctionOnSet([i \in DOMAIN buckets |-> buckets[i] * 3 * SubSlots * 2^i], DOMAIN buckets),
          den |-> Total(buckets)]

exact_mean(sum, count) == [num |-> sum * 2 * SubSlots, den |-> count]

\* The overflow bucket reaches from the last bound to twice the last bound.
Lower(bounds, i) == IF i = 0 THEN 0 ELSE bounds[i - 1]
Upper(bounds, i) == IF i \in DOMAIN bounds THEN bounds[i] ELSE 2 * Lower(bounds, i)
Midpoint(bounds, i) == Lower(bounds, i) + Upper(bounds, i)

explicit_percentile(buckets, bounds, q) ==
    IF Total(buckets) = 0 THEN 0 ELSE Midpoint(bounds, Bucket(buckets, q))

explicit_mean(buckets, bounds) ==
    IF Total(buckets) = 0 THEN [num |-> 0, den |-> 1]
    ELSE [num |-> SumFunctionOnSet([i \in DOMAIN buckets |-> buckets[i] * Midpoint(bounds, i)], DOMAIN buckets),
          den |-> Total(buckets)]
=============================================================================
