---------------------------- MODULE BenchmarkDef ----------------------------
(***************************************************************************)
(* The benchmark definition, crates/orchestrate/src/def.rs: what validate  *)
(* rejects at load, the cells parameterise expands to, and the two groups  *)
(* run_cmd selects from them.                                              *)
(*                                                                         *)
(* A definition is a record; an optional field is a set with at most one   *)
(* element.  `parameterise` is the sequence of its [name, values] axes in  *)
(* the order of their names, which is the order a BTreeMap iterates in.    *)
(* A cell is a function from dimension names to values: two cells are      *)
(* equal exactly when their canonical JSON, and so their hash, is.         *)
(***************************************************************************)
EXTENDS Naturals, SequencesExt

IsSeq(s) == Len(s) \in Nat /\ s = [i \in 1 .. Len(s) |-> s[i]]

\* What deserializing gives: axes of a map have distinct names, an Option at most
\* one value.
IsDef(def) ==
    /\ IsSeq(def.parameterise)
    /\ \A i \in DOMAIN def.parameterise : IsSeq(def.parameterise[i].values)
    /\ \A i, j \in DOMAIN def.parameterise :
          def.parameterise[i].name = def.parameterise[j].name => i = j
    /\ \A d, e \in def.compare : d = e

GateModes == {"ab_permutation", "longitudinal_drift", "subsystem_triad"}
Tenancies == {"single_tenant", "density"}
CardClasses == {"singleton", "bounded"}
AttachKinds == {"tp_btf", "tracepoint", "fentry", "fexit", "kprobe", "kretprobe",
                "uprobe", "xdp", "tc"}

Axis(def, dim) == {def.parameterise[i] : i \in {j \in DOMAIN def.parameterise :
                                                    def.parameterise[j].name = dim}}

CompareOk(def) ==
    \A dim \in def.compare : \E axis \in Axis(def, dim) : Len(axis.values) = 2

\* class, key_source, max_keys of the cardinality declaration; attach, hot_path.
CaptureOk(c) ==
    /\ c.class \in CardClasses
    /\ c.class = "bounded" => c.key_source /= {} /\ c.max_keys /= {} /\ c.max_keys /= {0}
    /\ c.attach \subseteq AttachKinds
    /\ ~(c.attach = {"uprobe"} /\ c.hot_path)

\* Every problem is reported, so the order of the rules does not matter.
validate(def) ==
    /\ def.mode \in GateModes
    /\ def.tenancy \in Tenancies
    /\ CompareOk(def)
    /\ \A i \in DOMAIN def.capture : CaptureOk(def.capture[i])

\* A cell with one more dimension, and all cells with the values of one more axis.
with_value(cell, axis, v) ==
    [d \in DOMAIN cell \cup {axis.name} |-> IF d = axis.name THEN v ELSE cell[d]]
extend(cells, axis) ==
    FlattenSeq([i \in DOMAIN cells |->
        [j \in DOMAIN axis.values |-> with_value(cells[i], axis, axis.values[j])]])

\* One axis after the other; the values of the last axis vary fastest.
expand_cells(def) ==
    LET combos[k \in 0 .. Len(def.parameterise)] ==
            IF k = 0 THEN <<[d \in {} |-> 0]>> ELSE extend(combos[k - 1], def.parameterise[k])
    IN combos[Len(def.parameterise)]

Groups == {"a", "b"}
CompareValue(axis, group) == axis.values[IF group = "a" THEN 1 ELSE 2]

\* Mutant: each group takes its half of the cells.
half_of_cells(def, group) ==
    LET cells == expand_cells(def)
        half == Len(cells) \div 2
    IN IF def.compare = {} THEN cells
       ELSE IF group = "a" THEN SubSeq(cells, 1, half) ELSE SubSeq(cells, half + 1, 2 * half)

\* Without `compare` both groups run every cell; with it, the cells that have the
\* group's value in that dimension.  The SUT that goes with a group is left out.
group_cells(def, group) ==
    LET cells == expand_cells(def)
        selected(cell) == \A dim \in def.compare : \A axis \in Axis(def, dim) :
                              cell[dim] = CompareValue(axis, group)
    IN FlattenSeq([i \in DOMAIN cells |-> IF selected(cells[i]) THEN <<cells[i]>> ELSE <<>>])

\* The runs of a group, in order: `repeat` of each cell.
plan(def, group, repeat) ==
    LET cells == group_cells(def, group)
    IN [n \in 1 .. Len(cells) * repeat |-> cells[(n - 1) \div repeat + 1]]

\* plan_gadgets: an entry that names no gadget binary fails every run.
plannable(def) == \A i \in DOMAIN def.capture : def.capture[i].gadget
=============================================================================
