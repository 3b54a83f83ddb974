---------------------------- MODULE SchedCapture ----------------------------
(***************************************************************************)
(* The control-plane capture gadget's programs,                            *)
(* capture/ctrlplane/src/bpf/ctrlplane.bpf.c: on-CPU time and run-queue    *)
(* waits per cgroup, from sched_wakeup and sched_switch, and the loader,   *)
(* capture/ctrlplane/src/main.rs, which reads the maps under them.         *)
(*                                                                         *)
(* sched_switch runs on every CPU at once, so on_switch is one step per    *)
(* map operation; a wakeup is a single map update.  The programs are       *)
(* attached one after the other, the ones for wakeups first.  A run-queue  *)
(* histogram is the number of waits in it.  wakeup_ts, keyed by pid with   *)
(* 262144 entries, is taken never to fill.                                 *)
(***************************************************************************)
EXTENDS Naturals, FiniteSets

CONSTANTS
    Cpus,
    Tasks,
    Cgroups,
    CgroupOf,     \* task -> cgroup; the idle task has one too
    Allowed,      \* the allow-list; every cgroup when there is no filter
    Idle,         \* what a CPU runs when it runs no task
    MaxKeys,      \* max_entries of runq and of oncpu_ns
    MaxTime       \* bound: the clock, which every context switch, and every wakeup of a
                  \* task on its CPU, advances

ASSUME SchedAssumption ==
    /\ IsFiniteSet(Cpus)
    /\ Idle \notin Tasks
    /\ CgroupOf \in [Tasks \cup {Idle} -> Cgroups]
    /\ Allowed \subseteq Cgroups
    /\ MaxKeys \in Nat \ {0}
    /\ MaxTime \in Nat

VARIABLES
    clock,
    state,      \* task -> "sleeping", "runnable", "running"
    running,    \* CPU -> the task on it, or Idle
    \* the maps
    wakeup_ts,  \* tasks with a wakeup time; the time only selects a slot
    runq,       \* cgroup -> waits recorded
    oncpu_ns,   \* cgroup -> accumulated time
    oncpu_cur,  \* CPU -> [ts, cgroup]; ts 0 when no slice is tracked
    \* on_switch on each CPU
    pc, now, next,
    \* history
    since,      \* CPU -> when its task came on; 0 if that was before the capture
    ran,        \* cgroup -> the instants its tasks were on a CPU, as <<CPU, time>>, in
                \* slices that ended
    charged,    \* cgroup -> those of them that reached its counter
    lost,       \* cgroup -> slices whose time reached no counter
    woken,      \* tasks woken while off the CPU, by a traced wakeup, and not on it since
    stray,      \* tasks with a traced wakeup that did not end a sleep their next traced
                \* switch-in follows: woken on the CPU, or switched in before on_switch
    \* the loader
    loader,     \* what it did last, one of LoaderStates
    start,      \* keys of the map being read when its iteration began
    seen,       \* keys of it visited
    fragment,   \* the series read: cgroups with a histogram, and cgroup -> on-CPU time
    closed      \* history: the cgroups with on-CPU time when the window closed

switchVars == <<pc, now, next>>
loaderVars == <<loader, start, seen, fragment, closed>>
kernelVars == <<clock, state, running, wakeup_ts, runq, oncpu_ns, oncpu_cur,
                switchVars, since, ran, charged, lost, woken, stray>>
vars == <<kernelVars, loaderVars>>

\* skel.attach() goes through the programs in the order of the object file.
Attaching == {"loaded", "on_wakeup", "on_wakeup_new"}
LoaderStates == Attaching \cup {"capturing", "runq", "oncpu", "written"}
Attached(prog) ==
    CASE prog = "on_wakeup"     -> loader /= "loaded"
      [] prog = "on_wakeup_new" -> loader \notin {"loaded", "on_wakeup"}
      [] prog = "on_switch"     -> loader \notin Attaching

NoSlice == [ts |-> 0, cgroup |-> Idle]
allowed_cg(n) == CgroupOf[n] \in Allowed

Empty == [x \in {} |-> 0]
Put(m, k, v) == [j \in DOMAIN m \cup {k} |-> IF j = k THEN v ELSE m[j]]
Full(m) == Cardinality(DOMAIN m) >= MaxKeys

Init ==
    /\ clock = 1
    /\ running \in [Cpus -> Tasks \cup {Idle}]
    /\ \A c, d \in Cpus : c /= d /\ running[c] /= Idle => running[c] /= running[d]
    /\ state = [t \in Tasks |-> IF \E c \in Cpus : running[c] = t
                               THEN "running" ELSE "sleeping"]
    /\ wakeup_ts = {}
    /\ runq = Empty
    /\ oncpu_ns = Empty
    /\ oncpu_cur = [c \in Cpus |-> NoSlice]
    /\ pc = [c \in Cpus |-> "idle"]
    /\ now = [c \in Cpus |-> 0]
    /\ next = [c \in Cpus |-> Idle]
    /\ since = [c \in Cpus |-> 0]
    /\ ran = [g \in Cgroups |-> {}]
    /\ charged = [g \in Cgroups |-> {}]
    /\ lost = [g \in Cgroups |-> 0]
    /\ woken = {}
    /\ stray = {}
    /\ loader = "loaded"
    /\ start = {}
    /\ seen = {}
    /\ fragment = [runq |-> {}, oncpu |-> Empty]
    /\ closed = {}
-----------------------------------------------------------------------------
\* sched_wakeup and sched_wakeup_new: record_wakeup.  A task that is about to sleep,
\* on its CPU or preempted on the way, is woken without having slept.
Wakeup(t, prog) ==
    LET onCpu == state[t] = "running"
    IN /\ onCpu => \E c \in Cpus : running[c] = t /\ pc[c] = "idle"
       /\ prog = "on_wakeup_new" => state[t] = "sleeping"
       /\ onCpu => clock < MaxTime
       /\ clock' = IF onCpu THEN clock + 1 ELSE clock
       /\ state' = [state EXCEPT ![t] = IF onCpu THEN @ ELSE "runnable"]
       /\ IF Attached(prog)
          THEN /\ wakeup_ts' = IF allowed_cg(t) THEN wakeup_ts \cup {t} ELSE wakeup_ts
               /\ woken' = IF onCpu THEN woken ELSE woken \cup {t}
               /\ stray' = IF onCpu THEN stray \cup {t} ELSE stray \ {t}
          ELSE UNCHANGED <<wakeup_ts, woken, stray>>
       /\ UNCHANGED <<running, runq, oncpu_ns, oncpu_cur, switchVars, since, ran, charged, lost>>

\* Before on_switch is attached: prev was preempted or has gone to sleep.
SwitchUntraced(c, n) ==
    /\ ~Attached("on_switch")
    /\ n /= running[c]
    /\ clock < MaxTime
    /\ clock' = clock + 1
    /\ IF n = Idle THEN TRUE ELSE state[n] = "runnable"
    /\ \E left \in {"runnable", "sleeping"} :
          state' = [t \in Tasks |-> IF t = n THEN "running"
                                    ELSE IF t = running[c] THEN left ELSE state[t]]
    /\ running' = [running EXCEPT ![c] = n]
    /\ woken' = woken \ {n}
    /\ stray' = stray \cup (woken \cap {n})
    /\ UNCHANGED <<wakeup_ts, runq, oncpu_ns, oncpu_cur, switchVars, since, ran,
                   charged, lost>>

\* The instants of a slice on c.
Instants(c, from, to) == {c} \X (from .. to - 1)

\* sched_switch on c, with n coming on.  The scheduler holds the run queue
\* until the program returns: prev stays out of the other CPUs' reach.
Switch(c, n) ==
    /\ Attached("on_switch")
    /\ pc[c] = "idle"
    /\ n /= running[c]
    /\ clock < MaxTime
    /\ clock' = clock + 1
    /\ IF n = Idle THEN TRUE ELSE state[n] = "runnable"
    /\ state' = [t \in Tasks |-> IF t = n THEN "running" ELSE state[t]]
    /\ now' = [now EXCEPT ![c] = clock]
    /\ next' = [next EXCEPT ![c] = n]
    /\ ran' = IF since[c] = 0 THEN ran
              ELSE [ran EXCEPT ![CgroupOf[running[c]]] = @ \cup Instants(c, since[c], clock)]
    /\ since' = [since EXCEPT ![c] = clock]
    /\ pc' = [pc EXCEPT ![c] = IF oncpu_cur[c] = NoSlice THEN "wait" ELSE "slice"]
    /\ UNCHANGED <<running, wakeup_ts, runq, oncpu_ns, oncpu_cur, charged, lost, woken, stray>>

(* The slice that just ended. *)

Slice(c) == now[c] - oncpu_cur[c].ts

\* History: the slice reached the counter of its cgroup.
Charge(c) ==
    charged' = [charged EXCEPT ![oncpu_cur[c].cgroup] =
                   @ \cup Instants(c, oncpu_cur[c].ts, now[c])]

AddSlice(c) ==
    /\ pc[c] = "slice"
    /\ oncpu_cur[c].cgroup \in DOMAIN oncpu_ns
    /\ oncpu_ns' = [oncpu_ns EXCEPT ![oncpu_cur[c].cgroup] = @ + Slice(c)]
    /\ Charge(c)
    /\ pc' = [pc EXCEPT ![c] = "wait"]
    /\ UNCHANGED <<clock, state, running, wakeup_ts, runq, oncpu_cur, now, next, since, ran, lost, woken, stray>>

\* Mutant: the lookup's result is not used, so every slice takes the insertion.
MissAlways(c) ==
    /\ pc[c] = "slice"
    /\ pc' = [pc EXCEPT ![c] = "insert"]
    /\ UNCHANGED <<clock, state, running, wakeup_ts, runq, oncpu_ns, oncpu_cur, now, next,
                   since, ran, charged, lost, woken, stray>>

MissCounter(c) ==
    /\ pc[c] = "slice"
    /\ oncpu_cur[c].cgroup \notin DOMAIN oncpu_ns
    /\ pc' = [pc EXCEPT ![c] = "insert"]
    /\ UNCHANGED <<clock, state, running, wakeup_ts, runq, oncpu_ns, oncpu_cur, now, next,
                   since, ran, charged, lost, woken, stray>>

\* BPF_NOEXIST with the slice as the value: the update is refused, and its
\* result ignored, when another CPU inserted first or the map is full.
InsertSlice(c) ==
    /\ pc[c] = "insert"
    /\ LET g == oncpu_cur[c].cgroup
           refused == g \in DOMAIN oncpu_ns \/ Full(oncpu_ns)
       IN /\ oncpu_ns' = IF refused THEN oncpu_ns ELSE Put(oncpu_ns, g, Slice(c))
          /\ lost' = IF refused THEN [lost EXCEPT ![g] = @ + 1] ELSE lost
          /\ IF refused THEN UNCHANGED charged ELSE Charge(c)
    /\ pc' = [pc EXCEPT ![c] = "wait"]
    /\ UNCHANGED <<clock, state, running, wakeup_ts, runq, oncpu_cur, now, next, since, ran, woken, stray>>

(* The wait of the task coming on. *)

NoWait(c) ==
    /\ pc[c] = "wait"
    /\ ~(allowed_cg(next[c]) /\ next[c] \in wakeup_ts)
    /\ pc' = [pc EXCEPT ![c] = "set"]
    /\ UNCHANGED <<clock, state, running, wakeup_ts, runq, oncpu_ns, oncpu_cur, now, next,
                   since, ran, charged, lost, woken, stray>>

LookupRunq(c) ==
    /\ pc[c] = "wait"
    /\ allowed_cg(next[c])
    /\ next[c] \in wakeup_ts
    /\ pc' = [pc EXCEPT ![c] = IF CgroupOf[next[c]] \in DOMAIN runq THEN "count" ELSE "new"]
    /\ UNCHANGED <<clock, state, running, wakeup_ts, runq, oncpu_ns, oncpu_cur, now, next,
                   since, ran, charged, lost, woken, stray>>

InsertRunq(c) ==
    /\ pc[c] = "new"
    /\ LET g == CgroupOf[next[c]]
       IN /\ runq' = IF g \in DOMAIN runq \/ Full(runq) THEN runq ELSE Put(runq, g, 0)
          /\ pc' = [pc EXCEPT ![c] = IF g \in DOMAIN runq' THEN "count" ELSE "clear"]
    /\ UNCHANGED <<clock, state, running, wakeup_ts, oncpu_ns, oncpu_cur, now, next,
                   since, ran, charged, lost, woken, stray>>

CountWait(c) ==
    /\ pc[c] = "count"
    /\ runq' = [runq EXCEPT ![CgroupOf[next[c]]] = @ + 1]
    /\ pc' = [pc EXCEPT ![c] = "clear"]
    /\ UNCHANGED <<clock, state, running, wakeup_ts, oncpu_ns, oncpu_cur, now, next,
                   since, ran, charged, lost, woken, stray>>

\* Mutant: the wakeup is not deleted once it was answered.
ClearNothing(c) ==
    /\ pc[c] = "clear"
    /\ pc' = [pc EXCEPT ![c] = "set"]
    /\ UNCHANGED <<clock, state, running, wakeup_ts, runq, oncpu_ns, oncpu_cur, now, next,
                   since, ran, charged, lost, woken, stray>>

ClearWakeup(c) ==
    /\ pc[c] = "clear"
    /\ wakeup_ts' = wakeup_ts \ {next[c]}
    /\ pc' = [pc EXCEPT ![c] = "set"]
    /\ UNCHANGED <<clock, state, running, runq, oncpu_ns, oncpu_cur, now, next,
                   since, ran, charged, lost, woken, stray>>

\* Mutant: the record is not reset when an untracked task comes on.
SetCurrentKeeps(c) ==
    /\ pc[c] = "set"
    /\ oncpu_cur' = [oncpu_cur EXCEPT ![c] =
                        IF allowed_cg(next[c])
                        THEN [ts |-> now[c], cgroup |-> CgroupOf[next[c]]] ELSE @]
    /\ running' = [running EXCEPT ![c] = next[c]]
    /\ \E left \in {"runnable", "sleeping"} :
          state' = [t \in Tasks |-> IF t = running[c] THEN left ELSE state[t]]
    /\ woken' = woken \ {next[c]}
    /\ stray' = stray \ {next[c]}
    /\ pc' = [pc EXCEPT ![c] = "idle"]
    /\ UNCHANGED <<clock, wakeup_ts, runq, oncpu_ns, now, next, since, ran, charged, lost>>

\* The new on-CPU record; a task outside the allow-list is not tracked.  The
\* switch is over: prev was preempted or has gone to sleep.
SetCurrent(c) ==
    /\ pc[c] = "set"
    /\ oncpu_cur' = [oncpu_cur EXCEPT ![c] =
                        IF allowed_cg(next[c])
                        THEN [ts |-> now[c], cgroup |-> CgroupOf[next[c]]] ELSE NoSlice]
    /\ running' = [running EXCEPT ![c] = next[c]]
    /\ \E left \in {"runnable", "sleeping"} :
          state' = [t \in Tasks |-> IF t = running[c] THEN left ELSE state[t]]
    /\ woken' = woken \ {next[c]}
    /\ stray' = stray \ {next[c]}
    /\ pc' = [pc EXCEPT ![c] = "idle"]
    /\ UNCHANGED <<clock, wakeup_ts, runq, oncpu_ns, now, next, since, ran, charged, lost>>
-----------------------------------------------------------------------------
(* The loader.  Once attached, the programs stay attached until it exits, so   *)
(* they run on while it reads; nothing is ever deleted from the maps it        *)
(* iterates over, so it meets every key that was there at the start and maybe  *)
(* newer ones.                                                                 *)

\* One more program is attached; the window starts after the last.
Attach ==
    /\ loader \in Attaching
    /\ loader' = CASE loader = "loaded"        -> "on_wakeup"
                   [] loader = "on_wakeup"     -> "on_wakeup_new"
                   [] loader = "on_wakeup_new" -> "capturing"
    /\ UNCHANGED <<kernelVars, start, seen, fragment, closed>>

\* The duration is over, at any moment; run-queue histograms are read first.
EndWindow ==
    /\ loader = "capturing"
    /\ loader' = "runq"
    /\ start' = DOMAIN runq
    /\ closed' = DOMAIN oncpu_ns
    /\ UNCHANGED <<kernelVars, seen, fragment>>

\* An empty histogram, inserted and not yet counted in, is left out.
ReadRunq(g) ==
    /\ loader = "runq"
    /\ g \in DOMAIN runq \ seen
    /\ seen' = seen \cup {g}
    /\ fragment' = IF runq[g] = 0 THEN fragment
                   ELSE [fragment EXCEPT !.runq = @ \cup {g}]
    /\ UNCHANGED <<kernelVars, loader, start, closed>>

EndRunq ==
    /\ loader = "runq"
    /\ start \subseteq seen
    /\ loader' = "oncpu"
    /\ start' = DOMAIN oncpu_ns
    /\ seen' = {}
    /\ UNCHANGED <<kernelVars, fragment, closed>>

ReadOncpu(g) ==
    /\ loader = "oncpu"
    /\ g \in DOMAIN oncpu_ns \ seen
    /\ seen' = seen \cup {g}
    /\ fragment' = [fragment EXCEPT !.oncpu = Put(@, g, oncpu_ns[g])]
    /\ UNCHANGED <<kernelVars, loader, start, closed>>

\* Mutant: the fragment is written before the iteration is over.
WriteEarly ==
    /\ loader = "oncpu"
    /\ loader' = "written"
    /\ start' = {}
    /\ seen' = {}
    /\ UNCHANGED <<kernelVars, fragment, closed>>

\* No overflow flag: the loader never compares the maps with their capacity.
WriteFragment ==
    /\ loader = "oncpu"
    /\ start \subseteq seen
    /\ loader' = "written"
    /\ start' = {}
    /\ seen' = {}
    /\ UNCHANGED <<kernelVars, fragment, closed>>
-----------------------------------------------------------------------------
Kernel ==
    \/ \E t \in Tasks, prog \in {"on_wakeup", "on_wakeup_new"} : Wakeup(t, prog)
    \/ \E c \in Cpus :
          \/ \E n \in Tasks \cup {Idle} : SwitchUntraced(c, n) \/ Switch(c, n)
          \/ AddSlice(c) \/ MissCounter(c) \/ InsertSlice(c)
          \/ NoWait(c) \/ LookupRunq(c) \/ InsertRunq(c) \/ CountWait(c) \/ ClearWakeup(c)
          \/ SetCurrent(c)

Loader ==
    \/ Attach \/ EndWindow \/ EndRunq \/ WriteFragment
    \/ \E g \in Cgroups : ReadRunq(g) \/ ReadOncpu(g)

\* Once the fragment is written the maps are of no interest.
Next ==
    \/ loader /= "written" /\ Kernel /\ UNCHANGED loaderVars
    \/ Loader

Spec == Init /\ [][Next]_vars
-----------------------------------------------------------------------------
\* The clock, the maps and the programs' progress keep their types.
TypeOK ==
    /\ clock \in Nat \ {0}
    /\ state \in [Tasks -> {"sleeping", "runnable", "running"}]
    /\ running \in [Cpus -> Tasks \cup {Idle}]
    /\ wakeup_ts \subseteq Tasks
    /\ DOMAIN runq \subseteq Allowed
    /\ runq \in [DOMAIN runq -> Nat]
    /\ DOMAIN oncpu_ns \subseteq Allowed
    /\ oncpu_ns \in [DOMAIN oncpu_ns -> Nat]
    /\ oncpu_cur \in [Cpus -> [ts : Nat \ {0}, cgroup : Allowed] \cup {NoSlice}]
    /\ pc \in [Cpus -> {"idle", "slice", "insert", "wait", "new", "count", "clear", "set"}]
    /\ now \in [Cpus -> Nat]
    /\ next \in [Cpus -> Tasks \cup {Idle}]
    /\ since \in [Cpus -> Nat]
    /\ ran \in [Cgroups -> SUBSET (Cpus \X Nat)]
    /\ charged \in [Cgroups -> SUBSET (Cpus \X Nat)]
    /\ lost \in [Cgroups -> Nat]
    /\ woken \subseteq Tasks
    /\ stray \subseteq Tasks
    /\ loader \in LoaderStates
    /\ start \subseteq Allowed
    /\ seen \subseteq Allowed
    /\ fragment = [runq |-> fragment.runq, oncpu |-> fragment.oncpu]
    /\ fragment.oncpu \in [DOMAIN fragment.oncpu -> Nat]
    /\ fragment.runq \cup DOMAIN fragment.oncpu \cup closed \subseteq Allowed

Accumulated(g) == IF g \in DOMAIN oncpu_ns THEN oncpu_ns[g] ELSE 0

\* CPUs that have yet to charge an ended slice to g.
Charging(g) == {c \in Cpus : pc[c] \in {"slice", "insert"} /\ oncpu_cur[c].cgroup = g}

\* sched.on_cpu_ns is never more than the cgroup's tasks were on a CPU since the
\* capture started, and is exactly that, less what is still being charged, when
\* no insertion was refused.
OnCpuNeverOverstated ==
    \A g \in Allowed :
        /\ Accumulated(g) <= Cardinality(ran[g])
        /\ lost[g] = 0 /\ Charging(g) = {} => Accumulated(g) = Cardinality(ran[g])

\* A cgroup that has a counter lost slices only to the race for its first
\* insertion, hence at most one per other CPU, however long the capture runs.
LossBoundedByCpus ==
    \A g \in DOMAIN oncpu_ns : lost[g] < Cardinality(Cpus)

\* A wakeup dates at most one wait: a timestamp is held only for a task that was
\* woken and has not run since, or that had a stray wakeup since its last traced
\* switch-in (on its CPU, or in the gap before on_switch is attached); and the wait
\* of a task woken off the CPU is dated, preemption and races of CPUs included.
WakeupDatesOneWait ==
    /\ wakeup_ts \subseteq woken \cup stray
    /\ \A t \in Tasks : allowed_cg(t) /\ state[t] = "runnable" /\ t \in woken =>
          t \in wakeup_ts

\* What the fragment says, although the programs ran on under the loader: every
\* cgroup that had on-CPU time when the window closed is in it, none has more
\* time than its tasks ran, and histograms are of cgroups that waited.
FragmentCoversWindow ==
    loader = "written" =>
        /\ closed \subseteq DOMAIN fragment.oncpu
        /\ \A g \in DOMAIN fragment.oncpu : fragment.oncpu[g] <= Cardinality(ran[g])
        /\ \A g \in fragment.runq : runq[g] > 0

-----------------------------------------------------------------------------
(* What makes the invariants above inductive. *)

\* A task is on one CPU, and nobody else takes the one that comes on.
PlaceInv ==
    /\ \A c \in Cpus :
          running[c] /= Idle => state[running[c]] = "running" /\ running[c] \notin woken
    /\ \A c, d \in Cpus : c /= d /\ running[c] /= Idle => running[c] /= running[d]
    /\ \A c \in Cpus : pc[c] /= "idle" /\ next[c] /= Idle =>
          /\ state[next[c]] = "running"
          /\ \A d \in Cpus : /\ next[c] /= running[d]
                             /\ d /= c /\ pc[d] /= "idle" => next[c] /= next[d]

\* Only watched tasks have a wakeup time, and it goes before the switch is over; a
\* woken task does not sleep before it ran.
WakeInv ==
    /\ \A t \in wakeup_ts : allowed_cg(t)
    /\ \A t \in woken : state[t] /= "sleeping"
    /\ \A c \in Cpus : pc[c] = "set" => next[c] \notin wakeup_ts

\* The slice a CPU tracks is that of its task, from when it came on.
SliceInv ==
    \A c \in Cpus :
        /\ since[c] < clock
        /\ pc[c] /= "idle" => now[c] = since[c] /\ now[c] > 0
        /\ pc[c] \in {"slice", "insert"} => oncpu_cur[c] /= NoSlice /\ oncpu_cur[c].ts < now[c]
        /\ oncpu_cur[c] /= NoSlice =>
              /\ oncpu_cur[c].cgroup = CgroupOf[running[c]]
              /\ pc[c] = "idle" => oncpu_cur[c].ts = since[c]
        /\ pc[c] = "idle" /\ oncpu_cur[c] = NoSlice => since[c] = 0 \/ ~allowed_cg(running[c])

Pending(c) == Instants(c, oncpu_cur[c].ts, now[c])

\* A counter holds the instants charged to it, each of them once; what is missing
\* is being charged, or was lost.
AccountInv ==
    \A g \in Allowed :
        /\ IsFiniteSet(ran[g])
        /\ \A p \in ran[g] : p[2] < since[p[1]]
        /\ charged[g] \subseteq ran[g]
        /\ Accumulated(g) = Cardinality(charged[g])
        /\ \A c \in Charging(g) : Pending(c) \subseteq ran[g] \ charged[g]
        /\ lost[g] = 0 =>
              \A p \in ran[g] \ charged[g] : \E c \in Charging(g) : p \in Pending(c)

Inserting(g) == {c \in Cpus : pc[c] = "insert" /\ oncpu_cur[c].cgroup = g}

\* Before the counter is there a slice is lost only to a full map, which it then
\* never gets into; after, only by the CPUs that had missed it.
LossInv ==
    \A g \in Allowed :
        /\ g \notin DOMAIN oncpu_ns /\ lost[g] /= 0 => Full(oncpu_ns)
        /\ g \in DOMAIN oncpu_ns => lost[g] + Cardinality(Inserting(g)) < Cardinality(Cpus)

\* Nothing is tracked before on_switch is attached; later the loader is behind the
\* maps, and the iteration behind its start.
LoaderInv ==
    /\ loader \in Attaching =>
          \A c \in Cpus : pc[c] = "idle" /\ since[c] = 0 /\ oncpu_cur[c] = NoSlice
    /\ \A c \in Cpus : pc[c] \in {"new", "count"} => allowed_cg(next[c])
    /\ \A c \in Cpus : pc[c] = "count" => CgroupOf[next[c]] \in DOMAIN runq
    /\ \A g \in fragment.runq : g \in DOMAIN runq /\ runq[g] > 0
    /\ \A g \in DOMAIN fragment.oncpu :
          g \in DOMAIN oncpu_ns /\ fragment.oncpu[g] <= oncpu_ns[g]
    /\ closed \subseteq DOMAIN oncpu_ns
    /\ loader = "oncpu" => closed \subseteq start /\ seen \subseteq DOMAIN fragment.oncpu
    /\ loader = "written" => closed \subseteq DOMAIN fragment.oncpu

IInv == /\ TypeOK /\ PlaceInv /\ WakeInv /\ WakeupDatesOneWait /\ SliceInv
        /\ AccountInv /\ LossInv /\ LoaderInv
-----------------------------------------------------------------------------
(* Statements of the repository that the code does not live up to. *)

\* ctrlplane.bpf.c, on_switch: "Attribute the slice that just ended to whoever
\* was on-CPU."
EverySliceAttributed == \A g \in Cgroups : lost[g] = 0

\* ctrlplane.bpf.c:7, "run-queue latency: wakeup -> actually on-CPU": a stray wakeup
\* outlives the time on the CPU it fell into, and when the task is then preempted the
\* next wait is measured from before it ran.  WakeupDatesOneWait is the part that holds.
WaitStartsAtWakeup ==
    \A c \in Cpus : pc[c] \in {"new", "count"} => next[c] \in woken
=============================================================================
