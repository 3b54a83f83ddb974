----------------------------- MODULE NetCapture -----------------------------
(***************************************************************************)
(* The net gadget: capture/net/src/bpf/net.bpf.c and its loader            *)
(* capture/net/src/main.rs, as invocations that may overlap on one host.   *)
(*                                                                         *)
(* Each invocation loads its own tap_rx, tap_tx and stats map.  An XDP     *)
(* link belongs to the process and goes with it; a tc filter belongs to    *)
(* the interface, stays until somebody replaces it, and keeps its program  *)
(* and map alive.  Handlers run on the CPU that takes the packet, and      *)
(* interleave with each other and with the readout between map operations. *)
(* All packets have one length, the unit of the byte counters; which size  *)
(* bucket a length falls into is module MetricPath's.                      *)
(***************************************************************************)
EXTENDS Naturals, Sequences, FiniteSets

CONSTANTS
    Procs,        \* invocations of the gadget
    Ifaces,       \* interface indices: an interface created again has another
    Ephemeral,    \* the interfaces whose VMM may end
    Args,         \* [ifaces, tx]: an --iface list or what --iface-prefix matches, and --tx
    CPUs,
    MaxStats,     \* max_entries of stats
    MaxPackets,   \* bound: packets on all interfaces together
    None

ASSUME NetAssumption ==
    /\ Ephemeral \subseteq Ifaces /\ None \notin Procs
    /\ Args \subseteq [ifaces : Seq(Ifaces), tx : BOOLEAN]
    /\ IsFiniteSet(CPUs)
    /\ MaxStats \in Nat \ {0} /\ MaxPackets \in Nat

VARIABLES
    \* the host
    present,  \* interfaces there now
    xdp,      \* interface -> invocation whose tap_rx is linked there, or None
    tc,       \* interface -> invocation whose tap_tx is its egress filter 1, or None
    packets,  \* packets so far
    \* the programs
    stats,    \* invocation -> (interface -> if_stat)
    cpu,      \* what tap_rx or tap_tx is doing on each CPU
    \* the loaders
    proc,     \* invocation -> [pc, tx, ifaces, at]
    left,     \* invocation -> keys of the readout not read yet
    head,     \* invocation -> the packet and byte counters of the entry being copied
    series,   \* invocation -> (interface -> if_stat as reported)
    \* history
    passed,   \* invocation -> packets on its targets in its window, per interface and direction
    dropped,  \* samples dropped because stats was full, the same way
    atEnd     \* invocation -> its stats when the window closed

hostVars == <<present, xdp, tc, packets>>
progVars == <<stats, cpu>>
loaderVars == <<proc, left, head, series>>
history == <<passed, dropped, atEnd>>
vars == <<hostVars, progVars, loaderVars, history>>

Dirs == {"rx", "tx"}
Idle == [pc |-> "idle"]
Empty == [x \in {} |-> None]
Put(m, k, v) == [j \in DOMAIN m \cup {k} |-> IF j = k THEN v ELSE m[j]]
Zero == [d \in Dirs |-> [packets |-> 0, bytes |-> 0, sizes |-> 0]]
NoTargets == [pc |-> "new", tx |-> FALSE, ifaces |-> <<>>, at |-> 1]
Targets(p) == {proc[p].ifaces[n] : n \in DOMAIN proc[p].ifaces}

Init ==
    /\ present = Ifaces
    /\ xdp = [i \in Ifaces |-> None]
    /\ tc = [i \in Ifaces |-> None]
    /\ packets = 0
    /\ stats = [p \in Procs |-> Empty]
    /\ cpu = [c \in CPUs |-> Idle]
    /\ proc = [p \in Procs |-> NoTargets]
    /\ left = [p \in Procs |-> {}]
    /\ head = [p \in Procs |-> Empty]
    /\ series = [p \in Procs |-> Empty]
    /\ passed = [p \in Procs |-> [i \in Ifaces |-> [d \in Dirs |-> 0]]]
    /\ dropped = passed
    /\ atEnd = stats
-----------------------------------------------------------------------------
(* The host *)

\* An interface goes with its VMM: links and filters on it too.
Vanish(i) ==
    /\ i \in present \cap Ephemeral
    /\ present' = present \ {i}
    /\ xdp' = [xdp EXCEPT ![i] = None]
    /\ tc' = [tc EXCEPT ![i] = None]
    /\ UNCHANGED <<packets, progVars, loaderVars, history>>

InWindow(p, i, d) ==
    /\ proc[p].pc = "window"
    /\ i \in Targets(p)
    /\ d = "rx" \/ proc[p].tx

\* A packet runs the program that is there, if any; those that meet neither a
\* program nor a window are left out.
Packet(c, i, d) ==
    LET prog == IF d = "rx" THEN xdp[i] ELSE tc[i]
    IN /\ i \in present
       /\ packets < MaxPackets
       /\ prog /= None \/ \E p \in Procs : InWindow(p, i, d)
       /\ cpu[c] = Idle
       /\ packets' = packets + 1
       /\ passed' = [p \in Procs |-> IF InWindow(p, i, d)
                                     THEN [passed[p] EXCEPT ![i][d] = @ + 1] ELSE passed[p]]
       /\ cpu' = IF prog = None THEN cpu
                 ELSE [cpu EXCEPT ![c] = [pc |-> "lookup", p |-> prog, i |-> i, d |-> d,
                                          win |-> InWindow(prog, i, d)]]
       /\ UNCHANGED <<present, xdp, tc, stats, loaderVars, dropped, atEnd>>
-----------------------------------------------------------------------------
(* tap_rx and tap_tx on CPU c, one step per map operation or atomic add *)

StatOf(c) == stats[cpu[c].p]
Goto(c, pc) == cpu' = [cpu EXCEPT ![c].pc = pc]

Lookup(c) ==
    /\ cpu[c].pc = "lookup"
    /\ Goto(c, IF cpu[c].i \in DOMAIN StatOf(c) THEN "packets" ELSE "insert")
    /\ UNCHANGED <<hostVars, stats, loaderVars, history>>

\* Mutant: BPF_ANY, which replaces the entry another CPU has just made.
InsertAny(c) ==
    /\ cpu[c].pc = "insert"
    /\ cpu[c].i \in DOMAIN StatOf(c) \/ Cardinality(DOMAIN StatOf(c)) < MaxStats
    /\ stats' = [stats EXCEPT ![cpu[c].p] = Put(@, cpu[c].i, Zero)]
    /\ Goto(c, "packets")
    /\ UNCHANGED <<hostVars, loaderVars, history>>

\* BPF_NOEXIST: the second of two CPUs finds the entry of the first.  Entries are
\* never deleted, so the lookup that follows finds what the update left.
Insert(c) ==
    /\ cpu[c].pc = "insert"
    /\ cpu[c].i \in DOMAIN StatOf(c) \/ Cardinality(DOMAIN StatOf(c)) < MaxStats
    /\ stats' = IF cpu[c].i \in DOMAIN StatOf(c) THEN stats
                ELSE [stats EXCEPT ![cpu[c].p] = Put(@, cpu[c].i, Zero)]
    /\ Goto(c, "packets")
    /\ UNCHANGED <<hostVars, loaderVars, history>>

DropSample(c) ==
    /\ cpu[c].pc = "insert"
    /\ cpu[c].i \notin DOMAIN StatOf(c) /\ Cardinality(DOMAIN StatOf(c)) = MaxStats
    /\ cpu' = [cpu EXCEPT ![c] = Idle]
    /\ dropped' = IF cpu[c].win THEN [dropped EXCEPT ![cpu[c].p][cpu[c].i][cpu[c].d] = @ + 1]
                  ELSE dropped
    /\ UNCHANGED <<hostVars, stats, loaderVars, passed, atEnd>>

Add(c, field) ==
    /\ cpu[c].pc = field
    /\ stats' = [stats EXCEPT ![cpu[c].p][cpu[c].i][cpu[c].d][field] = @ + 1]
    /\ UNCHANGED <<hostVars, loaderVars, history>>

AddPackets(c) == Add(c, "packets") /\ Goto(c, "bytes")
AddBytes(c) == Add(c, "bytes") /\ Goto(c, "sizes")
AddSize(c) == Add(c, "sizes") /\ cpu' = [cpu EXCEPT ![c] = Idle]
-----------------------------------------------------------------------------
(* The loader *)

Step(p, pc, at) == proc' = [proc EXCEPT ![p].pc = pc, ![p].at = at]
Iface(p) == proc[p].ifaces[proc[p].at]
Last(p) == proc[p].at = Len(proc[p].ifaces)

\* target_ifaces resolves every name, or the process ends there.
Launch(p, args) ==
    /\ proc[p].pc = "new"
    /\ args.ifaces /= <<>>
    /\ \A n \in DOMAIN args.ifaces : args.ifaces[n] \in present
    /\ proc' = [proc EXCEPT ![p] = [pc |-> "xdp", tx |-> args.tx, ifaces |-> args.ifaces, at |-> 1]]
    /\ UNCHANGED <<hostVars, progVars, left, head, series, history>>

RefuseTargets(p, args) ==
    /\ proc[p].pc = "new"
    /\ args.ifaces = <<>> \/ \E n \in DOMAIN args.ifaces : args.ifaces[n] \notin present
    /\ Step(p, "failed", 1)
    /\ UNCHANGED <<hostVars, progVars, left, head, series, history>>

\* Mutant: an attach error is ignored, as the one of hook.create() is.
AttachXdpIfFree(p) ==
    /\ proc[p].pc = "xdp"
    /\ xdp' = IF Iface(p) \in present /\ xdp[Iface(p)] = None
              THEN [xdp EXCEPT ![Iface(p)] = p] ELSE xdp
    /\ IF Last(p) THEN Step(p, IF proc[p].tx THEN "tc" ELSE "window", 1)
                  ELSE Step(p, "xdp", proc[p].at + 1)
    /\ UNCHANGED <<present, tc, packets, progVars, left, head, series, history>>

\* One program per interface: an interface that has a link refuses another.
AttachXdp(p) ==
    /\ proc[p].pc = "xdp"
    /\ Iface(p) \in present
    /\ xdp[Iface(p)] = None
    /\ xdp' = [xdp EXCEPT ![Iface(p)] = p]
    /\ IF Last(p) THEN Step(p, IF proc[p].tx THEN "tc" ELSE "window", 1)
                  ELSE Step(p, "xdp", proc[p].at + 1)
    /\ UNCHANGED <<present, tc, packets, progVars, left, head, series, history>>

\* replace(true) at handle 1, priority 1: whatever gadget filter is there goes.
AttachTc(p) ==
    /\ proc[p].pc = "tc"
    /\ Iface(p) \in present
    /\ tc' = [tc EXCEPT ![Iface(p)] = p]
    /\ IF Last(p) THEN Step(p, "window", 1) ELSE Step(p, "tc", proc[p].at + 1)
    /\ UNCHANGED <<present, xdp, packets, progVars, left, head, series, history>>

\* Leaving main drops the links; nothing detaches the hooks.
DropLinks(p) == xdp' = [i \in Ifaces |-> IF xdp[i] = p THEN None ELSE xdp[i]]

AttachFails(p) ==
    /\ \/ proc[p].pc = "xdp" /\ (Iface(p) \notin present \/ xdp[Iface(p)] /= None)
       \/ proc[p].pc = "tc" /\ Iface(p) \notin present
    /\ Step(p, "failed", 1)
    /\ DropLinks(p)
    /\ UNCHANGED <<present, tc, packets, progVars, left, head, series, history>>

\* The programs stay attached during the readout.
EndWindow(p) ==
    /\ proc[p].pc = "window"
    /\ Step(p, "read", 1)
    /\ left' = [left EXCEPT ![p] = DOMAIN stats[p]]
    /\ atEnd' = [atEnd EXCEPT ![p] = stats[p]]
    /\ UNCHANGED <<hostVars, progVars, head, series, passed, dropped>>

\* The lookup copies if_stat while the programs go on adding to it: the packet
\* and byte counters first, the size buckets behind them.
ReadHead(p, i) ==
    /\ proc[p].pc = "read"
    /\ i \in left[p] /\ head[p] = Empty
    /\ head' = [head EXCEPT ![p] = Put(@, i, stats[p][i])]
    /\ UNCHANGED <<hostVars, progVars, proc, left, series, history>>

\* push_dir: no series of a direction without packets, none for tx without --tx.
Reported(p, d, s) == s.packets > 0 /\ (d = "rx" \/ proc[p].tx)

\* Mutant: an interface without rx packets is skipped whole.
ReadSizesIfRx(p, i) ==
    LET copy == [d \in Dirs |-> [head[p][i][d] EXCEPT !.sizes = stats[p][i][d].sizes]]
    IN /\ proc[p].pc = "read"
       /\ i \in left[p] \cap DOMAIN head[p]
       /\ left' = [left EXCEPT ![p] = @ \ {i}]
       /\ series' = IF copy["rx"].packets = 0 THEN series
             ELSE [series EXCEPT ![p] =
                Put(@, i, [d \in {e \in Dirs : Reported(p, e, copy[e])} |-> copy[d]])]
       /\ head' = [head EXCEPT ![p] = Empty]
       /\ UNCHANGED <<hostVars, progVars, proc, history>>

ReadSizes(p, i) ==
    LET copy == [d \in Dirs |-> [head[p][i][d] EXCEPT !.sizes = stats[p][i][d].sizes]]
    IN /\ proc[p].pc = "read"
       /\ i \in left[p] \cap DOMAIN head[p]
       /\ left' = [left EXCEPT ![p] = @ \ {i}]
       /\ series' = [series EXCEPT ![p] =
             Put(@, i, [d \in {e \in Dirs : Reported(p, e, copy[e])} |-> copy[d]])]
       /\ head' = [head EXCEPT ![p] = Empty]
       /\ UNCHANGED <<hostVars, progVars, proc, history>>

WriteFragment(p) ==
    /\ proc[p].pc = "read"
    /\ left[p] = {}
    /\ Step(p, "done", 1)
    /\ DropLinks(p)
    /\ UNCHANGED <<present, tc, packets, progVars, left, head, series, history>>
-----------------------------------------------------------------------------
ProgNext(c) ==
    \/ Lookup(c) \/ Insert(c) \/ DropSample(c)
    \/ AddPackets(c) \/ AddBytes(c) \/ AddSize(c)

LoaderNext(p) ==
    \/ \E args \in Args : Launch(p, args) \/ RefuseTargets(p, args)
    \/ AttachXdp(p) \/ AttachTc(p) \/ AttachFails(p)
    \/ EndWindow(p) \/ WriteFragment(p)
    \/ \E i \in Ifaces : ReadHead(p, i) \/ ReadSizes(p, i)

Next ==
    \/ \E i \in Ifaces : Vanish(i)
    \/ \E c \in CPUs : ProgNext(c) \/ \E i \in Ifaces, d \in Dirs : Packet(c, i, d)
    \/ \E p \in Procs : LoaderNext(p)

Spec == Init /\ [][Next]_vars
-----------------------------------------------------------------------------
Counters == [packets : Nat, bytes : Nat, sizes : Nat]
Handlers == [pc : {"lookup", "insert", "packets", "bytes", "sizes"},
             p : Procs, i : Ifaces, d : Dirs, win : BOOLEAN]
Stages == {"new", "xdp", "tc", "window", "read", "done", "failed"}

\* m is a map keyed by interface with values in R.
IsMap(m, R) == DOMAIN m \subseteq Ifaces /\ m \in [DOMAIN m -> R]

\* Links, filters, maps, handlers and fragments keep their types.
TypeOK ==
    /\ present \subseteq Ifaces
    /\ xdp \in [Ifaces -> Procs \cup {None}] /\ tc \in [Ifaces -> Procs \cup {None}]
    /\ packets \in Nat
    /\ cpu \in [CPUs -> Handlers \cup {Idle}]
    /\ proc \in [Procs -> [pc : Stages, tx : BOOLEAN, ifaces : Seq(Ifaces), at : Nat]]
    /\ left \in [Procs -> SUBSET Ifaces]
    /\ passed \in [Procs -> [Ifaces -> [Dirs -> Nat]]]
    /\ dropped \in [Procs -> [Ifaces -> [Dirs -> Nat]]]
    /\ DOMAIN stats = Procs /\ DOMAIN head = Procs
    /\ DOMAIN series = Procs /\ DOMAIN atEnd = Procs
    /\ \A p \in Procs : /\ IsMap(stats[p], [Dirs -> Counters])
                        /\ IsMap(head[p], [Dirs -> Counters])
                        /\ IsMap(atEnd[p], [Dirs -> Counters])

Running(p, i, d, pcs) ==
    {c \in CPUs : cpu[c].pc \in pcs /\ cpu[c].p = p /\ cpu[c].i = i /\ cpu[c].d = d}

\* In every entry the size histogram and the byte counter trail the packet
\* counter by exactly the handlers between the adds, so no two CPUs that meet a
\* new interface lose each other's packets (stat_for, tap_rx, tap_tx).
CountersAgree ==
    \A p \in Procs : \A i \in DOMAIN stats[p], d \in Dirs :
        LET s == stats[p][i][d]
        IN /\ s.packets = s.sizes + Cardinality(Running(p, i, d, {"bytes", "sizes"}))
           /\ s.bytes = s.sizes + Cardinality(Running(p, i, d, {"sizes"}))

Counted(p, i, d) == IF i \in DOMAIN stats[p] THEN stats[p][i][d].packets ELSE 0

\* Every packet that crosses a target in the window of an invocation is counted
\* by that invocation, still in a handler, or dropped at a full map: no other
\* invocation takes over one of its hooks, though tap_tx filters are replaced
\* without asking, because the XDP links come first and exclude each other.
WindowPacketsCounted ==
    \A p \in Procs, i \in Ifaces, d \in Dirs :
        passed[p][i][d] <= Counted(p, i, d) + dropped[p][i][d]
            + Cardinality(Running(p, i, d, {"lookup", "insert", "packets"}))

\* Nothing counted in t is missing from s.
Covers(s, t) == s.packets >= t.packets /\ s.bytes >= t.bytes /\ s.sizes >= t.sizes

\* The fragment has at least the packets, bytes and sizes of the window's end for
\* every direction measured, and its size histogram lacks at most one packet per
\* CPU of its packet counter, although the copy is not atomic (main's loop).
FragmentCovers ==
    \A p \in Procs : proc[p].pc = "done" =>
        \A i \in DOMAIN atEnd[p], d \in Dirs :
            Reported(p, d, atEnd[p][i][d]) =>
                /\ i \in DOMAIN series[p] /\ d \in DOMAIN series[p][i]
                /\ Covers(series[p][i][d], atEnd[p][i][d])
                /\ series[p][i][d].packets <= series[p][i][d].sizes + Cardinality(CPUs)
-----------------------------------------------------------------------------
(* What makes the three properties above inductive. *)

\* p has attached its XDP link, or its tc filter, to its n-th interface.
Linked(p, n) == proc[p].pc \in {"tc", "window"} \/ (proc[p].pc = "xdp" /\ n < proc[p].at)
Filtered(p, n) == \/ proc[p].pc = "window" /\ proc[p].tx
                  \/ proc[p].pc = "tc" /\ n < proc[p].at

\* An invocation past an attach holds that interface's hook as long as the
\* interface is there: the XDP link excludes the others, and only who has the
\* link replaces the tc filter.
LinkInv ==
    \A p \in Procs :
        /\ proc[p].pc \in {"xdp", "tc"} => proc[p].at \in DOMAIN proc[p].ifaces
        /\ \A n \in DOMAIN proc[p].ifaces :
              LET i == proc[p].ifaces[n]
              IN i \in present => /\ Linked(p, n) => xdp[i] = p
                                  /\ Filtered(p, n) => tc[i] = p

\* An entry a handler has found stays in the map.
HandlerInv ==
    \A c \in CPUs : cpu[c].pc \in {"packets", "bytes", "sizes"} =>
                       cpu[c].i \in DOMAIN stats[cpu[c].p]

\* Handlers of packets that crossed a target in the window and are not yet counted.
Pending(p, i, d) ==
    {c \in Running(p, i, d, {"lookup", "insert", "packets"}) : cpu[c].win}

\* WindowPacketsCounted, with only the handlers of such packets on its right.
WindowInv ==
    \A p \in Procs, i \in Ifaces, d \in Dirs :
        passed[p][i][d] <= Counted(p, i, d) + dropped[p][i][d] + Cardinality(Pending(p, i, d))

\* What was read covers the window's end, and what is half read still does; the
\* packet counter of a copy was at most one handler per CPU ahead of its sizes.
ReadOf(p) ==
    /\ proc[p].pc \notin {"read", "done"} => atEnd[p] = Empty /\ head[p] = Empty
    /\ proc[p].pc = "done" => left[p] = {}
    /\ left[p] \subseteq DOMAIN atEnd[p] /\ DOMAIN atEnd[p] \subseteq DOMAIN stats[p]
    /\ DOMAIN head[p] \subseteq DOMAIN stats[p]
    /\ \A i \in DOMAIN atEnd[p], d \in Dirs :
          /\ Covers(stats[p][i][d], atEnd[p][i][d])
          /\ i \in DOMAIN head[p] => Covers(head[p][i][d], atEnd[p][i][d])
          /\ i \notin left[p] /\ Reported(p, d, atEnd[p][i][d]) =>
                /\ i \in DOMAIN series[p] /\ d \in DOMAIN series[p][i]
                /\ Covers(series[p][i][d], atEnd[p][i][d])
                /\ series[p][i][d].packets <= series[p][i][d].sizes + Cardinality(CPUs)
    /\ \A i \in DOMAIN head[p], d \in Dirs :
          head[p][i][d].packets <= stats[p][i][d].sizes + Cardinality(CPUs)

ReadInv == \A p \in Procs : ReadOf(p)

IInv == TypeOK /\ LinkInv /\ HandlerInv /\ CountersAgree /\ WindowInv /\ ReadInv
-----------------------------------------------------------------------------
(* Statements of the repository that the code does not live up to. *)

\* docs/contract-v0.md: every eBPF program reports its own cost.  In the window of
\* an invocation the gadget programs on its targets are those of the invocations
\* that are still there to report them.
EveryProgramReportsCost ==
    \A p \in Procs : proc[p].pc = "window" =>
        \A i \in Targets(p) : \A q \in {xdp[i], tc[i]} \ {None} :
            proc[q].pc \notin {"done", "failed"}
=============================================================================
