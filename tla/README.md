# A TLA+ development for assayist

assayist measures microVM hosts: it prepares the host, brings sandboxes up,
attaches eBPF capture gadgets around a workload, records every run with a host
fingerprint, and lets a statistical gate judge two groups of runs. This
directory holds a model of the parts of it whose correctness depends on order,
concurrency and failure, the TLC runs that check them, and TLAPS proofs that
remove the bounds from nearly all of their safety properties.

Paths are relative to the repository root unless they name a module. The exact
lines each definition stands for are in `PROJECT.json` under `map`.

## 1. Inventory

| Component | State | Operations | Interacts with |
|---|---|---|---|
| Attribution owner, `capture/netattrib/src/main.rs` | pinned BPF map `vm_by_ifindex`, `Stats`, pin file, control socket | `create_and_pin`, `serve`/`apply` (add, state, remove), close the window, be killed | request/reply lines on a unix socket |
| Attribution session, `crates/orchestrate/src/netattrib.rs` | `poisoned`, `HandleTable` (counter and provenance) | `connect`, `register`, `set_state`, `deregister` | the owner; called by the run driver |
| Run driver, `crates/orchestrate/src/adapter.rs`, `capture.rs` | position in `execute_run`, instances, gadget children, registered handles | provision, start, reach_steady, attribute, spawn, workload, wait, spans, deregister, teardown | targets, gadget processes, session |
| Native targets, `crates/orchestrate/src/native.rs` | VMM, uffd and stream processes, pid files, api socket lock, tap, mount | launch, load/configure, tap, start, pin, snapshot, teardown | host processes and the next repeat of the same target |
| KVM gadget, `capture/kvm/` | maps `exit_start`, `hists`; overflow flag | two tracepoint programs on every CPU, attach, window, read-out | vCPU threads; fragment read by the driver |
| Scheduler gadget, `capture/ctrlplane/` | maps `wakeup_ts`, `runq`, `oncpu_ns`, per-CPU `oncpu_cur` | `record_wakeup`, `on_switch` on every CPU, window, read-out | the kernel scheduler; fragment read by the driver |
| Block gadget, `capture/block/` | maps `inflight` (by device and sector), `stats` | `handle_issue`, `handle_complete` on every CPU, attach, window, read-out | the block layer; fragment read by the driver |
| Net gadget, `capture/net/` | map `stats` (by ifindex), XDP links, tc filters | `tap_rx`, `tap_tx` on every CPU, attach per interface, window, read-out | tap devices, other invocations on the same interface |
| Benchmark definition, `crates/orchestrate/src/def.rs` | none (a parsed file) | `load`, `validate`, `expand_cells`, selection of compare groups | read by run, capture and inspect |
| Host preparation, `hostprep.rs` | sysfs tunables | write, read back, fingerprint | anything else on the host |
| Run command, `main.rs`, `run.rs`, orchestrate `gate.rs` | run files of groups A and B, `outcome.json`, exit code | prepare/observe, run loop, record, run the gate | all of the above |
| Contract, `crates/contract/src/lib.rs` | a run record and its grade | `assemble`, `compute_grade` | written by the pipeline, read by the gate |
| Gate, `crates/gate/src/` | two groups of records, a configuration | reduce, validate, `ab`, `drift`, `triad`, exit code | subprocess of the run command |
| Capture and inspect commands, `main.rs` | one record file | load, observe, fire the gadgets, write; load and print | definition, gadgets, contract |
| Workload drivers, `native.rs` | the workload process | start (command: returns at once; fio, wrk, vsock: run to their end), stop | called by the run driver |
| OTLP transforms, `crates/otlp/src/lib.rs`, export and import commands | a record file, an OTLP document | `export`, `import` per signal | records go to and come from other tools; the gate reads imported ones |
| Resident gadget, scripts, CI, documentation | | | not modelled, section 7 |

What is hard here:

* **Concurrency.** The owner and the driver run side by side; a slow owner may
  answer after the client gave up. eBPF programs interleave on every CPU between
  two map operations. VMM processes of one repeat outlive its teardown.
* **Failure.** Every call of `execute_run` may fail, each with its own early
  return. A VMM may die inside the window. The owner may be SIGKILLed and leave
  its pin. A gate may be killed. A sysfs write may be accepted and not take.
* **Limits.** The attribution map, the histogram map and the per-cgroup maps
  have fixed capacities; what is dropped must be flagged.
* **Staleness.** ifindexes, tids and map elements are recycled; a request changes
  its sector while its start time is filed under the old one; fragment files and
  `outcome.json` of an earlier invocation are still there; host tuning is read
  after a run and stands for the whole of it.
* **Boundaries.** A value passes through slot rules in C, bounds in the loader
  and an estimate in the gate, three places that have to agree on every edge.

What makes each part correct is stated as the properties of section 4; the list
of hazards with their source lines is `PROJECT.json`, `hazards`.

## 2. Modules

| Module | Models | Notes |
|---|---|---|
| `AttribRegistry` | what attribution promises: handles are issued once, accepted at most once, recorded only when accepted | abstract specification |
| `NetAttrib` | owner, socket and session | refines `AttribRegistry` |
| `ExecuteRun` | `execute_run` with a fanout | composes `NetAttrib` through `INSTANCE`: the driver calls `Register`, `SetState`, `Deregister`, and the owner's actions interleave |
| `VmmTarget` | the four native targets over consecutive repeats | |
| `KvmCapture` | KVM programs and loader | one action per map operation |
| `SchedCapture` | scheduler programs and loader | one action per map operation |
| `BlockCapture` | block programs and loader | one action per map operation or read of a map element |
| `NetCapture` | net programs and loaders, overlapping invocations | one action per map operation or atomic add |
| `Histograms` | slot functions, bounds, percentile and mean estimates | operators only |
| `Otlp` | export, import and the gate's reduction of a record | operators only, on `Histograms` and `Contract` |
| `MetricPath` | a measurement from the kernel through records and OTLP trips to the gate's scalars | composes `Histograms` and `Otlp` |
| `Contract` | `compute_grade` of a record | operators only, shared by `GateRules` and `Otlp` |
| `GateRules` | verdict rules | operators only, on `Contract`, shared by `Gate` and `Pipeline` |
| `Gate` | one invocation of the gate on arbitrary groups | |
| `BenchmarkDef` | `validate`, cells, compare groups, the plan of a group | operators only |
| `Pipeline` | `assayist run`, `capture` and `inspect` from the definition to the exit code | uses `BenchmarkDef` for the plan, `Contract` for grading and `GateRules` for the verdict |
| `NetAttribProofs`, `ExecuteRunProofs`, `VmmTargetProofs`, `KvmCaptureProofs`, `SchedCaptureProofs`, `BlockCaptureProofs`, `NetCaptureProofs`, `PipelineProofs` | theorems about the module of that name | section 5; `ExecuteRunProofs` builds on `NetAttribProofs` through `INSTANCE`; `PipelineProofs` extends `Gate` and `MetricPath` too and is about all three, which is why the names of these modules are distinct (`GateSpec`, `PathSpec`) |
| `MC*` | values of the constants for TLC | |

How state and actions correspond to the code:

* **`NetAttrib`.** `reqs` and `replies` are the two directions of the socket;
  `call` is the command whose `read_line` is pending. A command is split where
  the other process can act: `Send` (the code up to the write) and one of
  `ReadReply`, `ReadFails` (timeout or reset: poisons) and `ReadEof` (an empty
  line: an unexpected reply that does *not* poison). `Kill` leaves the pin and
  therefore the map; `CloseWindow` and `BindFails` remove it. `applied` is a
  history variable. ULIDs, MACs and `netns_inum` decide nothing and are left out.
* **`ExecuteRun`.** `pc` is the call about to be made, `k` the loop index.
  Failing calls are actions of their own and go where the code's `?` or cleanup
  block goes. `target` separates targets with a tap, without one and shell
  command targets (whose `spans` may fail). `assayist run` passes no session
  today (`main.rs:708-710`); the model covers both cases, as the code does.
  `file` maps each fragment path to who wrote it last: this run's gadget, an
  earlier invocation (`EarlierRun`) or a gadget that failed while writing
  (`Garbled`); `sharing` is two capture entries whose probes sanitize to one
  path, and `leftover` a gadget that a failed earlier invocation left running and
  that writes late. `blocking` workloads (fio, wrk, vsock) end inside `start`.
  `InstanceDies` is a VMM crash, which nothing looks at before teardown. `labels`
  are the handles in the fragments, compared with the provenance table.
* **`VmmTarget`.** A process is identified by its role and repeat; `pidfile`,
  `lock`, `mounted` and `tap` are the files and devices repeats share. A process
  that was sent SIGTERM ("signalled") goes on executing; one that was sent SIGKILL
  ("killed") executes no more but is still there, with its files open, because
  teardown does not wait after SIGKILL either. `Ends` is a process going, after a
  signal or by itself, at any time.
* **`KvmCapture`, `SchedCapture`.** A map is a function on the keys it holds;
  a new key in a full map is refused. Atomic adds and single map operations are
  atomic, everything between two of them is not. A histogram is its number of
  samples. In `SchedCapture` the loader attaches the programs one after the other,
  `on_switch` last, while tasks are woken and switched (`Attach`, `SwitchUntraced`);
  a task is woken asleep, preempted on its way to sleep, or on its CPU. Time
  advances with every switch and every wakeup on a CPU, and `ran`, `charged`,
  `since`, `woken`, `stray` and `lost` are history variables computed from what
  the scheduler did, not from the maps. The loader reads the maps key by key
  with the programs attached: it meets every key present when the iteration
  began, and any newer one or not. A wakeup time only selects a slot, so
  `wakeup_ts` is the set of tasks that have one.
* **`BlockCapture`.** A request is identified by number and moves between
  (device, sector) keys: `Issue`, `Reissue` (a requeue, possibly merged onto
  another sector), `Complete`. `inflight` maps a key to a preallocated element and
  `elem` says whose start the element holds, so that a handler that still has a
  pointer reads whatever the element was reused for. `collided`, `strayed` and
  `wrong` are history: they say when matching by sector cannot be exact, and when
  a sample really took its data from another request.
* **`NetCapture`.** `xdp[i]` and `tc[i]` are the programs on an interface: one XDP
  link at a time, released when its process ends; one egress filter, replaced
  without asking and never removed. `Vanish` takes an interface away with its
  VMM. Bytes are counted in packets, which is what the counters are compared by.
* **`Histograms`, `Otlp`, `MetricPath`.** Numbers are integers in units of
  1/`SubSlots` (bounds) or half of that (midpoints), so nothing is rounded. The
  three gadgets are shown the same values, which makes their layouts comparable.
  A record keeps labels, spans with parents, costs and the overflow flag, and a
  histogram its `sum` and `count`, from which the gate takes the mean when they are
  there. The gate reads a metric's direction from words in the whole id: `Words`
  gives those of each part, labels included. An imported record is graded by
  `compute_grade` like any other. `Export`/`Import` repeat, each with its own `--signal`.
* **`BenchmarkDef`.** A cell is a function from dimension names to values, so
  equal cells are those with equal canonical hashes. `parameterise` is in the
  order of its names, as the `BTreeMap` is. `IsDef` is what deserializing
  guarantees: distinct axis names and at most one compared dimension. The loops of
  `expand_cells` and of the selection are flat-maps over sequences. The
  model is about the parameters of the runs; the SUT a group also has is left out
  (section 6).
* **`GateRules`.** Sample values are abstracted to `signal`: for each metric,
  whether the change is significant, strong and not noisy, and its direction.
  Everything the rules read besides (sample counts, sources over budget,
  overflow flags, grades, tenancy, ignore list) is concrete.
* **`Pipeline`.** `opts` is the command line with its definition; `files` holds
  the records of both groups and of a capture; `outcome` is `outcome.json`,
  possibly left by an earlier invocation ("old"). `host[k]` says whether tunable `k` has its requested value,
  one governor per CPU of which only cpu0's is read back. `truth` is history:
  the fragment and the host each record came from.

## 3. Runs

A passing run checks safety invariants and, where listed, liveness and
refinement. The type invariant is part of `net_attrib`, where the proofs build on
it; the other modules keep theirs as the definition `TypeOK` (`GateTypeOK`, `PathTypeOK`),
which holds on the run's instance and says nothing a property does not need. `CHECK_DEADLOCK FALSE`
is set everywhere: every model ends (a run returns, a command exits, a window
closes) or reaches a bound.

| Run | Bounds | What it shows |
|---|---|---|
| `net_attrib` | 3 interfaces, capacity 2, 3 handles, 5 commands per window, 2 owners | replies are never mismatched; provenance, map and occupancy are sound through timeouts, kills and stale pins; commands return; `AttribRegistry` is refined |
| `execute_run` | up to 3 instances, 2 gadgets that may share a file, 1 gadget left by an earlier invocation, capacity 2 | every instance is attributed throughout the window; no entry outlives its tap on a healthy channel; an Ok run leaves nothing and has its labels resolved; the fragments collected are the run's own; the driver returns |
| `vmm_target` | 3 repeats, every target and configuration | teardown reaches every process; the window opens on a running, pinned guest; the attributed ifindex is the run's own; a cloud-hypervisor is launched on a socket no predecessor executes behind, without a lock |
| `kvm_capture` | 2 threads at a time, 3 in all, 2 guests, 4 exits, room for 1 histogram | no sample is lost or doubled; drops in the window are flagged |
| `sched_capture` | 2 CPUs, 3 tasks and idle, 2 watched cgroups, 5 events, room for 1 cgroup | on-CPU time is never overstated; losses are bounded by the CPUs; a wakeup dates one wait at most, whenever the programs were attached, and no wait goes undated; a fragment read under running programs covers the window |
| `block_capture` | 2 requests (one without data), 2 sectors, 2 requeues, 2 CPUs, room for 1 in flight and 1 direction | matching by sector is exact unless requests collide; the in-flight map does not leak; the fragment covers the window |
| `net_capture` | 2 invocations, 2 interfaces of which 1 may vanish, 2 CPUs, 2 packets, room for 1 interface | counters of an entry agree; no packet of a window is missed although filters are replaced; the fragment covers the window |
| `metric_path` | up to 3 observations of 14 values on both sides of each kind of edge, 5 octaves of 4 sub-buckets, 3 captures, 2 trips | estimates fall in the bucket of the true order statistic; the layouts agree; OTLP keeps the values the gate reads, and makes more of nothing look better |
| `gate` | all groups of up to 2 runs of 6 shapes, 2 metrics, all modes, configurations and signals | more observer effect never produces a pass; A/B is a mirror image |
| `pipeline` | 16 option sets: every mode and flag, two axes of which the second is compared, a compared axis that says one value twice, an empty axis, rejected definitions, an entry without a gadget, capture, inspect; 2 CPUs, 1 external change of the host, 3 fragments | what exit code 0 certifies about every run; the parameters of the groups differ in the compared dimension only and cover the matrix; applied prep holds; over-budget sources never pass |
| `pipeline_overflow`, `pipeline_killed_gate` | as `pipeline` | counterexamples, section 6 |

Why the bounds are enough for the questions asked: two owners are needed for a
stale pin, three registrations for a map at capacity with an overwrite and a
refusal; three instances put a failure before, between and after successes;
three repeats let a process outlive the repeat after its own; two CPUs and one
free slot are the smallest setting in which an insertion race and a full map
both occur; three elements for two requests let an element be reused under a
handler that holds it; two invocations on one interface are what the tc filter
can confuse; two axes with the second compared are the smallest matrix in which a
group is not a contiguous half of the cells; two trips show what only the second
import would lose; two runs per group are the smallest comparable group. For the
safety properties section 5 lists, the proofs remove the bounds.

### Fairness

`FairSpec` of `NetAttrib` assumes weak fairness of the client's pending read
only: `connect` sets a 5 s read timeout, so `read_line` returns whatever the
owner does. Nothing is assumed of the owner. `FairSpec` of `ExecuteRun` assumes
that the driver takes its next step (each call it makes into the shell or the
workload returns: shell commands and the stream of a vsock guest are taken to end,
for which the code has no timeout of its own), that its pending read of a reply returns as above, and that a
gadget ends, since its window has a fixed duration. No other run assumes fairness.

## 4. Properties

* `ReplyMatches`, `ProvenanceSound`, `HandleUnique`, `NoStaleEntries`,
  `OccupancyReported`, `CommandReturns`, `ImplementsRegistry` (`NetAttrib`): the
  reasons the code gives for poisoning the channel, for consuming a handle on
  failure, for recording provenance after the acknowledgement and for refusing
  an existing pin, as properties of the two processes together.
* `EntryHasTap`, `AttributedInWindow`, `OkLeavesNothing`, `TornDownOnceSteady`,
  `CollectedIsOwn`, `RunReturns` (`ExecuteRun`): cleanup order and completeness on
  all paths, and that files of an earlier run are never taken for this one's.
* `NothingLeftUnsignalled`, `WindowOpensSteady`, `AttributesOwnTap`,
  `SocketHandedOver` (`VmmTarget`): what one repeat may assume of the previous.
* `SamplesConserved`, `DropsAreFlagged` (`KvmCapture`) and
  `OnCpuNeverOverstated`, `LossBoundedByCpus`, `WakeupDatesOneWait`,
  `FragmentCoversWindow` (`SchedCapture`): the lookup/insert/lookup idiom under races
  and full maps, and the pairing of wakeups with switches around the attach.
* `ExactWithoutCollision`, `EntriesAreOutstanding`, `FragmentCovers`
  (`BlockCapture`): how far the approximation of block.h is exact, with requeues,
  merges, reused elements and half-attached programs.
* `CountersAgree`, `WindowPacketsCounted`, `FragmentCovers` (`NetCapture`): XDP
  links exclude each other and come first, which is the only reason why an
  invocation's egress filter is not taken from it inside its window.
* `PercentileInBucket`, `LayoutsAgree`, `RoundTripKeeps`,
  `NoTripMakesMoreBetter` (`MetricPath`): agreement of C, loader and gate on
  every boundary, against the order statistic of the values themselves; and what
  the gate makes of a record that went through OTLP. A boundary belongs to the
  bucket above it in the block gadget's layout and to the one below in the packet
  sizes'; a value of 0 is in bucket 0 of a log2 histogram, which stands for [1, 2).
  Directions are kept where the lost labels say nothing of them; elsewhere a
  direction can turn round, but never so that a rise becomes an improvement.
* `DirtNeverPasses`, `MirrorImage` (`Gate`): monotonicity and symmetry of the
  verdict rules. `MirrorImage` is about the rules
  for a given signal; the threshold for a strong change is relative to group A
  and is not symmetric itself.
* `PassCertifiesRuns`, `AppliedPrepHolds`, `GroupsLikeForLike`,
  `OverBudgetNeverPasses` (`Pipeline`): from the exit code back to the runs it
  stands for, and from the runs to the matrix of the definition (`Matrix` is the
  reference for `expand_cells`). `GroupsLikeForLike` has two parts: `PairedRuns`,
  the i-th runs of the groups have equal parameters but for the compared
  dimension, where they have its first and its second value; and `MatrixRecorded`,
  once the gate ran every combination was run `repeat` times in each group it
  belongs to, and never in the other. `validate` does not ask that the values of an
  axis differ: a compared axis with one value twice gives equal groups, which
  `PairedRuns` allows for and `MatrixRecorded` excludes.

Every property has a mutant of the modelled code in `PROJECT.json` that breaks
it (the operators commented "Mutant").

## 5. Proofs

Eight modules prove, for every value of the constants, what the runs of section 3
check on small instances. A theorem is `Spec => []P` for a property `P` of the
run unless said otherwise; for `Gate` and `MetricPath` the specification is
`GateSpec` and `PathSpec`.

| Module | Theorems | For every |
|---|---|---|
| `NetAttribProofs` | `TypeCorrect`, `RepliesMatch`, `ProvenanceIsSound`, `HandlesAreUnique`, `NoStaleMap`, `OccupancyIsReported`; `Refinement`: `Spec => Registry!Spec` | finite set of interfaces, capacity |
| `ExecuteRunProofs` | `EntriesHaveTaps`, `WindowIsAttributed`, `OkIsClean`, `TeardownIsReached`, `FragmentsAreOwn` | fanout, number of gadgets, capacity |
| `VmmTargetProofs` | `TeardownSignalsAll`, `WindowIsSteady`, `TapIsOwn`, `SocketIsHandedOver` | number of repeats |
| `KvmCaptureProofs` | `SamplesAreConserved`, `EveryDropIsFlagged` | CPUs, threads, guests, map sizes |
| `SchedCaptureProofs` | `OnCpuIsNeverOverstated`, `LossIsBounded`, `WakeupsDateOneWait`, `FragmentCoversTheWindow` | finite set of CPUs, tasks, cgroups, allow-list, map size |
| `BlockCaptureProofs` | `TypeCorrect` (`TypeOK`), `ExactUnlessCollided`, `EntriesStayOutstanding`, `FragmentIsComplete` | requests, devices, sectors, finite set of CPUs, map sizes |
| `NetCaptureProofs` | `CountersAlwaysAgree`, `WindowIsCounted`, `FragmentIsComplete` | invocations, interfaces, finite set of CPUs, map size |
| `PipelineProofs`, `Pipeline` | `PassIsCertified`, `AppliedPrepIsHeld`, `OverBudgetIsCaught`, `GroupsAreLikeForLike` | definitions with any axes and values, repeats, options, tunables |
| `PipelineProofs`, `Gate` | `DirtCannotPass`, `ComparisonIsAMirror`, and `GatePassIsCertified` (`PassCertifies`, which has no run) | group sizes, metrics, probes, signals |
| `PipelineProofs`, `MetricPath` | `RoundTrip`, `TripsMakeNothingBetter` | captures, observations, number of trips |

**Assumptions.** The named `ASSUME` of each module and nothing else; TLC evaluates
them in the run of that module. They say that bounds are numbers (positive where
the code has at least one of something), that the sets of interfaces and CPUs that
are counted are finite, that an allow-list is a set of cgroups
(`SchedAssumption`), that `None` is no invocation (`NetAssumption`) and no key
(`BlockAssumption`), and that a command is one of the three, with `--repeat` at
least 1 as `run_cmd` insists and a definition as deserializing gives it
(`PipelineAssumption`, `IsDef`). `GateAssumption` says that the gate's runs are
runs, `PathAssumption` what a captured record looks like: series and spans are
sequences, a series has one of the three kinds and is not named like the metrics
export makes of probe costs, and the id export derives for a span is not the
absent one.

**Layout.** Each module has an inductive invariant `IInv` (`PathInv` of `MetricPath`),
in the section "What makes ... inductive" or "The inductive invariant" of the module
it is about (`Gate`'s, `GateIInv`, is short and in `PipelineProofs`), one lemma per
action (or per group of actions that do the same to it), and joins them in `NextIInv`
and `Invariance` (`PathInvariance`, `GateInvariance`). TLC has checked each of them
but `GateIInv` on the instance of its run. What the
invariants add to the properties, and why the properties are not inductive alone:

* **`NetAttrib`.** `ChannelInv`: while the channel is not poisoned the socket holds
  nothing but the pending command or its answer. A late reply would break this,
  and without it `ReplyMatches` says nothing about the next read. `FreshInv`: a
  handle is applied for one interface at most, one on its way to the owner has
  not been applied, and an acknowledged add has; `ProvenanceSound` needs the last
  part, `HandleUnique` the first two. `OccupancyInv` extends `OccupancyReported`
  to an owner that is pinned and does not serve yet.
* **`ExecuteRun`.** `NA!IInv` is carried along: the session's lemmas of
  `NetAttribProofs` are used through a second instance, and lemmas `Same...`
  say that the two instances agree. `DriverInv`, `InstanceInv` and `TapInv` tie
  `pc` and `k` to the state of each instance and tap; `HandleInv` and `CallInv`
  tie `attributed` and the pending command to the loop position; `EntryInv` and
  `MapInv` say which interfaces may have an entry at each `pc`, the pending add
  and the pending removal included. `EntryHasTap` rests on the order "register
  after the tap, deregister before teardown" on every path, and an entry that a
  timed-out add leaves behind is only excluded by the poisoned channel.
* **`VmmTarget`.** `ProcInv`: whatever is alive belongs to this repeat and is named
  by its pid file, which makes signalling the pid file sufficient. `BringUpInv`
  gives the spans and the guest's state at each step, `TapInv` the holder of the
  tap, `LockInv` that a cloud-hypervisor which executes is the current repeat's and named by
  the pid file, so that the last kill of teardown reaches it.
* **`KvmCapture`.** `HandlerInv`: the exit record a handler found stays its own, a
  histogram once looked up stays in the map, and an insertion that left the key
  missing met a full map; the set of handlers with a sample in hand then changes by
  one element at a time. `ReadoutInv` carries a drop in the window to the readout.
* **`SchedCapture`.** `ran` and `charged` hold instants, `<<CPU, time>>`, rather than
  lengths: the counter is the cardinality of what was charged (`AccountInv`), the
  slice of a CPU is disjoint from every other because it carries the CPU and starts
  after the last (`SliceInv`), and sums become unions of disjoint finite sets.
  `LossInv` counts losses together with the CPUs that have already missed the
  counter: the bound is not inductive without those. `PlaceInv` and `WakeInv`
  say that a task being switched in is nobody else's and has lost its wakeup
  time before the switch ends, and that a woken task is not asleep again before it
  ran; `LoaderInv` that nothing is tracked before `on_switch` is attached.
* **`BlockCapture`.** `MatchInv` is what "exact without a collision" rests on: a key
  stands for one request from its issue to the end of its handler, the entry of the
  key holds that request's start, and the handler's pointer is that entry's element.
  It needs `ElementInv` (no two keys share an element, so a write behind one key
  does not show behind another) and `HostInv` (a request is completed by one
  handler). The counts do not depend on collisions: each sample is counted, dropped
  at a full map or in the hand of one handler. `ReadInv`: counters only grow, so
  what the loader reads late covers the end of the window.
* **`NetCapture`.** `LinkInv`: an XDP link has one owner, and tc filters are replaced
  only by the owner of the interface's link. `WindowInv` counts only the
  handlers of packets that crossed in the window, which is what a packet handled
  outside it could otherwise stand in for; `HandlerInv` keeps the entry a handler
  found; `ReadInv` says that what was read, and what is half read, covers the
  counters at the window's end.
* **`MetricPath`.** `KeptBy` says what is left of a captured record after any
  number of trips: the series as one trip leaves them, the spans with unknown parents
  cut. A second trip changes neither, which makes it inductive. That the gate reads the same
  from a series before and after a trip is a lemma per kind of series; a record is
  reduced by flattening, and equal parts give equal flattenings (by induction on
  the number of parts). For the directions, the words of an id after a trip are
  among those before (`MoreWords`), and more words can only add to "higher".
* **`Gate`, `Pipeline`.** The rules are unfolded once (`AbPasses`, `StatusRegressed`
  and others) and the theorems argue from those. `Pipeline`'s `RecordsInv` relates each
  record to the fragment and host it came from, `StageInv` says that a command
  past loading has a valid definition, `PrepInv` that tunables once applied stay
  applied while nobody interferes, `ProgressInv` that group A is complete before B
  starts and both before the gate runs.
* **The two groups** (`GroupsAreLikeForLike`). `expand_cells` extends every cell by
  one axis after the other and `run_cmd` selects at the end. In `PipelineProofs` a
  loop over a sequence is `Bind`, which is associative (`BindBind`), so that
  selecting at the end is selecting after every axis (`SelectStep`, `GroupCells`).
  From there the two groups are compared axis by axis (`OwnRowsAlike`,
  `SelectionsAlike`): an axis that is not compared extends both in the same way, the
  compared one keeps its first value in A and its second in B, and the groups stay
  of one length with matching cells at every place (`GroupsAlike`, `PlansMatch`).
  For `MatrixRecorded`, the cells of a matrix without repeated values are the
  choices of one value per axis, each once (`CellsAreCombos`), and the plan gives
  each cell of a group an interval of `repeat` runs (`RunsOfCell`, `PlanCounts`).

**Only model-checked.**

* Liveness (`CommandReturns`, `RunReturns`): fairness and ENABLED are beyond the prover.
* `PercentileInBucket` and `LayoutsAgree` of `MetricPath`: they relate slot
  functions built on powers of two and cumulative counts over folds to order
  statistics; the installed provers treat `^` as an unknown function, and the folds
  come with no laws they could use.

Induction over data is possible to a degree, and the proofs above use it: the
library's induction theorems take an operator and cannot be instantiated, but
`NatMin`, `SetInduction` and `SeqInduction` of `PipelineProofs` state induction for
the *set* of numbers or lengths with a property, and that a recursive function on
`0 .. n` satisfies its equation is proved from such a set (`Expansion`).

## 6. Divergences

Where a document, comment or test says something the code does not do, the
statement is a definition in the section "Statements of the repository that the
code does not live up to" of its module. Two have a run of their own
(`PROJECT.json`, `findings`):

* `OverflowContaminates`: `cardinality_overflow` is in `capture_meta`, which
  `assemble` drops, so the gate never sees it.
* `KilledGateIsNoPass`: a gate killed by a signal makes the command exit 0.

The others are stated and are refuted when named under `INVARIANTS` of the
module's configuration:

* `TeardownAttempted` (`ExecuteRun`): a failing provision, start, reach_steady or
  spans returns without teardown.
* `NoGadgetLeftRunning` (`ExecuteRun`): `execute_run` does not kill the gadgets it
  spawned when a later step fails.
* `NoHoleGraded` (`ExecuteRun`): capture.rs says it is "better to refuse than to
  grade a hole", but two entries that sanitize to one path collect one fragment
  twice, and the other is missing. `CollectedIsOwn` is the part that holds.
* `EntryNeverOutlivesTap` (`ExecuteRun`): once a command timed out, the removal is
  refused on the poisoned channel and the tap goes first. `EntryHasTap` is the
  part that holds.
* `PredecessorIsDead` (`VmmTarget`): native.rs says "we must wait for it to actually
  die", but the wait gives up and the SIGKILL that follows is not waited for.
  `SocketHandedOver` is the part that holds.
* `SamplesDisambiguated` (`KvmCapture`): the record of a dead thread is paired with
  the next thread of its tid. `MaxKeysFlagged` (with `MaxHists = 3`): `--max-keys`
  never reaches the map.
* `EverySliceAttributed` (`SchedCapture`): the loser of the first insertion drops
  its slice. `LossBoundedByCpus` is the part that holds. `WaitStartsAtWakeup`: a
  wakeup recorded before `on_switch` is attached, or while its task is on the CPU,
  outlives the time the task ran and dates a later wait. `WakeupDatesOneWait` is the
  part that holds.
* `CollisionsOnlyCollapse` (`BlockCapture`): when two requests share a
  sector, a completion may take the start, bytes or direction of the other one, or
  of a third through an element that was reused.
* `EveryProgramReportsCost` (`NetCapture`): the tc hook is never detached, so the
  filter of a finished invocation runs on in the window of the next, and nobody
  reports its cost.
* `LabelsSurvive` (`MetricPath`): export drops labels, so series that differ only
  in them become one metric. `MemoryIsLowerBetter`: polarity rules are tried in
  order, and a name with both "rss" and "bytes" is higher-better.
  `LabelsHaveNoDirection`: contract-v0.md says that the gate "ignores label keys it
  does not recognise", but a word in a label, a VM's name say, is read as a
  direction. `NoTripMakesMoreBetter` bounds what losing it can do.
* `NothingTestedIsNoPass` (`Gate`): with every comparable metric ignored the gate
  passes. `WorkloadReportIsInert`: the workload report is compared like any series.
* `OverBudgetContaminates` (`Pipeline`, with `Fragments <- EntryFragments`): the KVM
  series names `kvm_exit` alone, so an over-budget `kvm_entry` contaminates nothing.
  `DriftShowsUp`: a governor that moves on another CPU than cpu0 is in no fingerprint.
  `EveryModeJudges`: `longitudinal_drift` always ends in a gate error, because the
  runs are handed over as `--a` and `--b`.

Observed while modelling, with no statement in the repository to hold it against:
a record without spans loses its run id on import; the gate pools the samples
of all cells of a group, `params_hash` being used for a note only; qemu and the
unikernel runner are not waited for in teardown, so that two repeats of them may
overlap; and costs do not survive OTLP, so that an import of an over-budget record is
admitted by `--allow-ungraded` with nothing left to say that it was. With `compare`
the groups still have the SUTs of A and B (`main.rs:671`, `688`), where
docs/guides/comparing-configs.md speaks of one build: the model has no SUT, and
"differ in the compared dimension only" is a statement about parameters.

## 7. Not modelled, and the plan

Left out for good:

* byte layouts, JSON field spelling, YAML, log and error wording, CLI parsing,
  documentation, CI and scripts: data or text the control flow never reads;
* the resident gadget: a loop of `mincore` samples without a decision;
* the command lines and report parsers of the fio, wrk and vsock drivers (when
  they start and end is in `ExecuteRun`);
* the significance statistics of the gate (`permutation_p`, `within_cov`, the
  drift regression): floating point over a seeded random resampling. The rules are
  checked for every outcome of them. One consequence is worth knowing: with three
  runs per group a permutation test cannot get below about p = 0.1;
* recycling of host pids: teardown signals the pid in a file without asking whose
  it is (`PROJECT.json`, `hazards`).

Open, proofs: `LayoutsAgree` for any number of octaves, which needs a theory of
powers of two and of the folds that count slots, and then `PercentileInBucket`.
