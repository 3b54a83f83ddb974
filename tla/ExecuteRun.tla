----------------------------- MODULE ExecuteRun -----------------------------
(***************************************************************************)
(* One run of the harness: execute_run of crates/orchestrate/src/adapter.rs *)
(* driving a fanout of target instances, the capture gadgets, the workload *)
(* and, when attribution is on, an AttributionSession (module NetAttrib,   *)
(* whose owner process runs concurrently and may be slow, stop or die).    *)
(*                                                                         *)
(* Every call the driver makes into a target, workload or gadget runner    *)
(* may fail, and an instance may die at any time.  Instance i's tap has    *)
(* ifindex i.  Of a fragment the model keeps who wrote it: each gadget     *)
(* writes a file named after its probe in the run's work directory, which  *)
(* an earlier invocation with the same --out has used before (a fresh one  *)
(* has no file that could be mistaken for a new one).                      *)
(***************************************************************************)
EXTENDS Naturals, Sequences, FiniteSets

CONSTANTS
    MaxInstances,   \* bound: the widest fanout of a cell
    NumGadgets,     \* planned gadget invocations
    MaxVms          \* the owner's --max-vms

ASSUME RunAssumption ==
    /\ MaxInstances \in Nat \ {0}
    /\ NumGadgets \in Nat
    /\ MaxVms \in Nat

Gadgets == 1 .. NumGadgets

\* What a fragment file may hold besides the fragment of one of the gadgets.
EarlierRun == 0
Garbled == NumGadgets + 1

VARIABLES
    pc,          \* the step of execute_run about to be taken
    k,           \* index of the instance, gadget or handle the step is at
    outcome,     \* "ok" until a step fails
    width,       \* `instances` of the cell: how many targets FanoutTarget holds
    attrib,      \* a session was passed in
    target,      \* "tap", "notap" (native adapters) or "command"
    inst,        \* what each instance has reached
    taps,        \* ifindexes of the taps that exist
    gadget,      \* the gadget subprocesses
    sharing,     \* two capture entries name probes that sanitize to one file
    file,        \* path -> the writer of the fragment in it
    leftover,    \* a gadget of an earlier invocation: "none", "running", "ended"
    fragments,   \* what has been collected: the writers, in plan order
    labels,      \* the vm_id labels in them, handles as the gadgets read them
    blocking,    \* the workload driver is fio, wrk or vsock
    workload,    \* "idle", "running", "stopped"
    attributed,  \* handles registered by this run, in order
    torn         \* teardown has been attempted on every instance

VARIABLES owner, pinned, vmap, stats, starts, reqs, replies,
          connected, poisoned, call, result, next, table, applied

Instances == 1 .. width

\* The control plane: one owner window, one registration per instance.
NA == INSTANCE NetAttrib
        WITH Ifindexes <- 1 .. MaxInstances, MaxHandles <- MaxInstances,
             MaxCommands <- 3 * MaxInstances, MaxStarts <- 1

load == <<blocking, workload>>
captured == <<sharing, file, leftover, fragments, labels>>
naVars == <<owner, pinned, vmap, stats, starts, reqs, replies,
            connected, poisoned, call, result, next, table, applied>>
runVars == <<pc, k, outcome, width, attrib, target, inst, taps,
             gadget, captured, load, attributed, torn>>
vars == <<runVars, naVars>>

\* The session is connected before the run starts, or there is none.
Init ==
    /\ pc = "provision"
    /\ k = 1
    /\ outcome = "ok"
    /\ width \in 1 .. MaxInstances
    /\ attrib \in BOOLEAN
    /\ target \in {"tap", "notap", "command"}
    /\ inst = [i \in Instances |-> "absent"]
    /\ taps = {}
    /\ gadget = [g \in Gadgets |-> "idle"]
    /\ sharing \in BOOLEAN
    /\ file = [g \in Gadgets |-> EarlierRun]
    /\ leftover \in {"none", "running"}
    /\ fragments = <<>>
    /\ labels = {}
    /\ blocking \in BOOLEAN
    /\ workload = "idle"
    /\ attributed = <<>>
    /\ torn = FALSE
    /\ owner = IF attrib THEN "serving" ELSE "down"
    /\ pinned = attrib
    /\ connected = attrib
    /\ vmap = NA!Empty
    /\ stats = NA!ZeroStats
    /\ starts = 1
    /\ reqs = <<>>
    /\ replies = <<>>
    /\ poisoned = FALSE
    /\ call = NA!NoCall
    /\ result = "none"
    /\ next = 0
    /\ table = NA!Empty
    /\ applied = {}
-----------------------------------------------------------------------------
Goto(p) == pc' = p /\ k' = 1

\* The next element of a loop over 1..n, or the step after the loop.
Loop(n, p) == IF k < n THEN pc' = pc /\ k' = k + 1 ELSE Goto(p)

Fail(p) == outcome' = "err" /\ Goto(p)

\* The first element of a loop over 1..n, or the step after it.
After(loop, n, p) == IF n = 0 THEN p ELSE loop

\* Mutant: taps are deleted before, and instead of, their entries.
CleanupTapsFirst == "teardown"

Cleanup == After("deregister", Len(attributed), "teardown")

(* Bring-up: every instance in order, stopping at the first error. *)

Provision ==
    /\ pc = "provision"
    /\ inst' = [inst EXCEPT ![k] = "provisioned"]
    /\ taps' = IF target = "tap" THEN taps \cup {k} ELSE taps
    /\ Loop(width, "start")
    /\ UNCHANGED <<outcome, width, attrib, target, gadget, captured, load, attributed, torn, naVars>>

\* A failing provision may have launched the VMM and created the tap already.
\* The error is returned at once: no teardown follows.
ProvisionFails ==
    /\ pc = "provision"
    /\ \E reached \in {"absent", "provisioned"}, tapMade \in {{}, {k}} :
          /\ inst' = [inst EXCEPT ![k] = reached]
          /\ taps' = IF target = "tap" /\ reached = "provisioned"
                     THEN taps \cup tapMade ELSE taps
    /\ Fail("returned")
    /\ UNCHANGED <<width, attrib, target, gadget, captured, load, attributed, torn, naVars>>

Start ==
    /\ pc = "start"
    /\ inst' = [inst EXCEPT ![k] = "started"]
    /\ Loop(width, "steady")
    /\ UNCHANGED <<outcome, width, attrib, target, taps, gadget, captured, load, attributed, torn, naVars>>

ReachSteady ==
    /\ pc = "steady"
    /\ inst' = [inst EXCEPT ![k] = "steady"]
    /\ Loop(width, IF attrib THEN "attribute" ELSE After("spawn", NumGadgets, "work"))
    /\ UNCHANGED <<outcome, width, attrib, target, taps, gadget, captured, load, attributed, torn, naVars>>

BringUpFails ==
    /\ pc \in {"start", "steady"}
    /\ Fail("returned")
    /\ UNCHANGED <<width, attrib, target, inst, taps, gadget, captured, load, attributed, torn, naVars>>

(* Attribution: add then state, one VM at a time, waiting for each reply. *)

\* net_attribution reports the taps; none at all is a configuration error.
NoTap ==
    /\ pc = "attribute"
    /\ target /= "tap"
    /\ Fail("teardown")
    /\ UNCHANGED <<width, attrib, target, inst, taps, gadget, captured, load, attributed, torn, naVars>>

RegisterVm ==
    /\ pc = "attribute"
    /\ target = "tap"
    /\ NA!Register(k)
    /\ pc' = "registering"
    /\ UNCHANGED <<k, outcome, width, attrib, target, inst, taps, gadget, captured, load, attributed, torn>>

\* The handle joins `attributed` before the state command is sent, so a
\* failing set_state still removes the entry its add created.
Registered ==
    /\ pc = "registering"
    /\ result = "ok"
    /\ attributed' = Append(attributed, next - 1)
    /\ NA!SetState(next - 1, "RUNNING")
    /\ pc' = "stating"
    /\ UNCHANGED <<k, outcome, width, attrib, target, inst, taps, gadget, captured, load, torn>>

\* Mutant: only the first VM of a fanout is registered.
StatedOnce ==
    /\ pc = "stating"
    /\ call = NA!NoCall
    /\ result = "ok"
    /\ Goto(After("spawn", NumGadgets, "work"))
    /\ UNCHANGED <<outcome, width, attrib, target, inst, taps, gadget, captured, load, attributed, torn, naVars>>

Stated ==
    /\ pc = "stating"
    /\ call = NA!NoCall
    /\ result = "ok"
    /\ IF k < width
       THEN pc' = "attribute" /\ k' = k + 1
       ELSE Goto(After("spawn", NumGadgets, "work"))
    /\ UNCHANGED <<outcome, width, attrib, target, inst, taps, gadget, captured, load, attributed, torn, naVars>>

AttributionFails ==
    /\ pc \in {"registering", "stating"}
    /\ call = NA!NoCall
    /\ result = "err"
    /\ Fail(Cleanup)
    /\ UNCHANGED <<width, attrib, target, inst, taps, gadget, captured, load, attributed, torn, naVars>>

(* The capture window: spawn every gadget, start the workload, wait. *)

Spawn ==
    /\ pc = "spawn"
    /\ gadget' = [gadget EXCEPT ![k] = "running"]
    /\ Loop(NumGadgets, "work")
    /\ UNCHANGED <<outcome, width, attrib, target, inst, taps, captured, load, attributed, torn, naVars>>

SpawnFails ==
    /\ pc = "spawn"
    /\ Fail(Cleanup)
    /\ UNCHANGED <<width, attrib, target, inst, taps, gadget, captured, load, attributed, torn, naVars>>

Path(g) == IF sharing THEN 1 ELSE g

\* A gadget subprocess writes its fragment, with the handles it finds in the
\* pinned map, and ends when its duration is over; or it ends with an error,
\* before or in the middle of writing.
GadgetExits(g) ==
    /\ gadget[g] = "running"
    /\ \/ /\ gadget' = [gadget EXCEPT ![g] = "ok"]
          /\ file' = [file EXCEPT ![Path(g)] = g]
          /\ labels' = labels \cup {vmap[i].vm_id : i \in DOMAIN vmap}
       \/ /\ gadget' = [gadget EXCEPT ![g] = "bad"]
          /\ file' \in {file, [file EXCEPT ![Path(g)] = Garbled]}
          /\ UNCHANGED labels
    /\ UNCHANGED <<pc, k, outcome, width, attrib, target, inst, taps, sharing, leftover,
                   fragments, load, attributed, torn, naVars>>

\* A gadget that a failed invocation left running ends now.
LeftoverWrites ==
    /\ leftover = "running"
    /\ leftover' = "ended"
    /\ \E g \in Gadgets : file' = [file EXCEPT ![Path(g)] = EarlierRun]
    /\ UNCHANGED <<pc, k, outcome, width, attrib, target, inst, taps, gadget, sharing,
                   fragments, labels, load, attributed, torn, naVars>>

\* A VMM dies.  Nothing looks at it again before teardown.
InstanceDies(i) ==
    /\ i \in Instances
    /\ inst[i] = "steady"
    /\ inst' = [inst EXCEPT ![i] = "dead"]
    /\ UNCHANGED <<pc, k, outcome, width, attrib, target, taps, gadget, captured,
                   load, attributed, torn, naVars>>

\* A command template may leave its process running.
StartWorkload ==
    /\ pc = "work"
    /\ ~blocking
    /\ workload' = "running"
    /\ Goto(After("wait", NumGadgets, "stop"))
    /\ UNCHANGED <<outcome, width, attrib, target, inst, taps, gadget, captured, blocking,
                   attributed, torn, naVars>>

\* fio, wrk and the vsock invocations have run to their end when start returns:
\* the gadgets run, and may end, meanwhile.  vsock retries its first invocation
\* until a deadline and only counts the errors of the others.
RunWorkload ==
    /\ pc = "work"
    /\ blocking
    /\ workload' = "stopped"
    /\ Goto(After("wait", NumGadgets, "stop"))
    /\ UNCHANGED <<outcome, width, attrib, target, inst, taps, gadget, captured, blocking,
                   attributed, torn, naVars>>

\* Mutant: the workload's error is returned with `?`.
StartWorkloadFailsAtOnce ==
    /\ pc = "work"
    /\ Fail("returned")
    /\ UNCHANGED <<width, attrib, target, inst, taps, gadget, captured, load, attributed, torn, naVars>>

StartWorkloadFails ==
    /\ pc = "work"
    /\ Fail(Cleanup)
    /\ UNCHANGED <<width, attrib, target, inst, taps, gadget, captured, load, attributed, torn, naVars>>

Readable(g) == file[Path(g)] /= Garbled

\* Mutant: the exit status is not looked at.
WaitAnyStatus ==
    /\ pc = "wait"
    /\ gadget[k] \in {"ok", "bad"}
    /\ Readable(k)
    /\ gadget' = [gadget EXCEPT ![k] = "collected"]
    /\ fragments' = Append(fragments, file[Path(k)])
    /\ Loop(NumGadgets, "stop")
    /\ UNCHANGED <<outcome, width, attrib, target, inst, taps, sharing, file, leftover, labels,
                   load, attributed, torn, naVars>>

\* The subprocess is reaped, then its file is read, whoever wrote it last.
Wait ==
    /\ pc = "wait"
    /\ gadget[k] = "ok"
    /\ Readable(k)
    /\ gadget' = [gadget EXCEPT ![k] = "collected"]
    /\ fragments' = Append(fragments, file[Path(k)])
    /\ Loop(NumGadgets, "stop")
    /\ UNCHANGED <<outcome, width, attrib, target, inst, taps, sharing, file, leftover, labels,
                   load, attributed, torn, naVars>>

\* Stopping is best effort: its error is dropped and a command's process may
\* live on.  The other drivers have nothing left to stop.
StopWorkload ==
    /\ workload' \in IF blocking THEN {workload} ELSE {"running", "stopped"}
    /\ UNCHANGED blocking

WaitFails ==
    /\ pc = "wait"
    /\ gadget[k] = "bad" \/ (gadget[k] = "ok" /\ ~Readable(k))
    /\ StopWorkload
    /\ Fail(Cleanup)
    /\ UNCHANGED <<width, attrib, target, inst, taps, gadget, captured, attributed, torn, naVars>>

(* Winding down. *)

Stop ==
    /\ pc = "stop"
    /\ StopWorkload
    /\ Goto("spans")
    /\ UNCHANGED <<outcome, width, attrib, target, inst, taps, gadget, captured, attributed, torn, naVars>>

Spans ==
    /\ pc = "spans"
    /\ Goto(Cleanup)
    /\ UNCHANGED <<outcome, width, attrib, target, inst, taps, gadget, captured, load, attributed, torn, naVars>>

\* Only a single command target's spans can fail (a template that errors or
\* prints no JSON); the error is returned on the spot.
SpansFails ==
    /\ pc = "spans"
    /\ target = "command"
    /\ width = 1
    /\ Fail("returned")
    /\ UNCHANGED <<width, attrib, target, inst, taps, gadget, captured, load, attributed, torn, naVars>>

DeregisterVm ==
    /\ pc = "deregister"
    /\ NA!Deregister(attributed[k])
    /\ pc' = "deregistering"
    /\ UNCHANGED <<k, outcome, width, attrib, target, inst, taps, gadget, captured, load, attributed, torn>>

\* Whatever the reply was.
Deregistered ==
    /\ pc = "deregistering"
    /\ call = NA!NoCall
    /\ IF k < Len(attributed)
       THEN pc' = "deregister" /\ k' = k + 1
       ELSE Goto("teardown")
    /\ UNCHANGED <<outcome, width, attrib, target, inst, taps, gadget, captured, load, attributed, torn, naVars>>

\* Mutant: the teardown error is dropped instead of held.
TeardownIgnored ==
    /\ pc = "teardown"
    /\ \E failed \in SUBSET Instances :
          /\ inst' = [i \in Instances |-> IF i \in failed THEN inst[i] ELSE "torndown"]
          /\ taps' \in {left \in SUBSET taps : taps \cap failed \subseteq left}
    /\ torn' = TRUE
    /\ Goto("returned")
    /\ UNCHANGED <<outcome, width, attrib, target, gadget, captured, load, attributed, naVars>>

\* Teardown visits every instance; the ones in `failed` keep what they had.
\* Deleting a tap is best effort: it may survive a teardown that succeeds.  An
\* error matters only to a run that had not failed already.
Teardown ==
    /\ pc = "teardown"
    /\ \E failed \in SUBSET Instances :
          /\ inst' = [i \in Instances |-> IF i \in failed THEN inst[i] ELSE "torndown"]
          /\ taps' \in {left \in SUBSET taps : taps \cap failed \subseteq left}
          /\ outcome' = IF failed = {} THEN outcome ELSE "err"
    /\ torn' = TRUE
    /\ Goto("returned")
    /\ UNCHANGED <<width, attrib, target, gadget, captured, load, attributed, naVars>>
-----------------------------------------------------------------------------
DriverNext ==
    \/ Provision \/ ProvisionFails \/ Start \/ ReachSteady \/ BringUpFails
    \/ NoTap \/ RegisterVm \/ Registered \/ Stated \/ AttributionFails
    \/ Spawn \/ SpawnFails \/ StartWorkload \/ RunWorkload \/ StartWorkloadFails
    \/ Wait \/ WaitFails \/ Stop \/ Spans \/ SpansFails
    \/ DeregisterVm \/ Deregistered \/ Teardown

\* The owner serves, closes its window or dies; a pending reply is read.
ControlNext ==
    /\ NA!Serve \/ NA!CloseWindow \/ NA!Kill \/ NA!ReadNext
    /\ UNCHANGED runVars

Next ==
    \/ DriverNext \/ ControlNext
    \/ \E g \in Gadgets : GadgetExits(g)
    \/ LeftoverWrites
    \/ \E i \in 1 .. MaxInstances : InstanceDies(i)

Spec == Init /\ [][Next]_vars

\* The driver is a single thread that never yields; its blocking calls are a
\* socket read with a timeout, the wait for gadgets, which run for a fixed
\* duration, and shell commands, taken to end.  The owner is not assumed to make
\* progress.
Fairness ==
    /\ WF_vars(DriverNext)
    /\ WF_vars(NA!ReadNext /\ UNCHANGED runVars)
    /\ \A g \in Gadgets : WF_vars(GadgetExits(g))

FairSpec == Spec /\ Fairness
-----------------------------------------------------------------------------
Steps == {"provision", "start", "steady", "attribute", "registering", "stating",
          "spawn", "work", "wait", "stop", "spans", "deregister",
          "deregistering", "teardown", "returned"}

\* The driver's own variables keep their types.
TypeOK ==
    /\ pc \in Steps
    /\ k \in Nat \ {0}
    /\ outcome \in {"ok", "err"}
    /\ width \in 1 .. MaxInstances
    /\ attrib \in BOOLEAN
    /\ target \in {"tap", "notap", "command"}
    /\ inst \in [Instances -> {"absent", "provisioned", "started", "steady", "dead", "torndown"}]
    /\ taps \subseteq Instances
    /\ gadget \in [Gadgets -> {"idle", "running", "ok", "bad", "collected"}]
    /\ sharing \in BOOLEAN
    /\ file \in [Gadgets -> Gadgets \cup {Garbled, EarlierRun}]
    /\ leftover \in {"none", "running", "ended"}
    /\ fragments \in Seq(Gadgets \cup {EarlierRun})
    /\ labels \subseteq Nat
    /\ blocking \in BOOLEAN
    /\ workload \in {"idle", "running", "stopped"}
    /\ attributed \in Seq(Nat)
    /\ torn \in BOOLEAN

\* While the control channel is healthy, an entry of vm_by_ifindex never
\* outlives its tap: deregister_all comes before teardown on every path, so a
\* recycled ifindex is never attributed to a VM that is gone.
EntryHasTap ==
    ~poisoned /\ owner = "serving" => DOMAIN vmap \subseteq taps

\* From the first gadget to the end of the window every instance is in the
\* owner's map, RUNNING, under a handle the table resolves to that instance:
\* no sample is unattributed and rewrite_vm_id_labels meets no unknown handle.
AttributedInWindow ==
    attrib /\ owner = "serving" /\ pc \in {"spawn", "work", "wait", "stop", "spans"} =>
        \A i \in Instances :
            /\ i \in DOMAIN vmap
            /\ vmap[i].lifecycle_state = "RUNNING"
            /\ vmap[i].vm_id \in DOMAIN table
            /\ table[vmap[i].vm_id] = i

Provenance == {table[h] : h \in DOMAIN table}

\* rewrite_vm_id_labels: the handles the table cannot translate.
Unresolved == labels \ DOMAIN table

\* A run that returns Ok left nothing behind: every instance was torn down,
\* every gadget was collected, the provenance names every instance and resolves
\* every handle in the fragments, and a healthy owner holds no entry of it.
OkLeavesNothing ==
    pc = "returned" /\ outcome = "ok" =>
        /\ \A i \in Instances : inst[i] = "torndown"
        /\ \A g \in Gadgets : gadget[g] = "collected"
        /\ attrib => Provenance = Instances /\ Unresolved = {}
        /\ ~poisoned /\ owner = "serving" => DOMAIN vmap = {}

\* Once every instance reached steady, no return path of a native or fanned-out
\* target skips teardown.
TornDownOnceSteady ==
    /\ pc = "returned"
    /\ ~torn
    /\ target /= "command" \/ width > 1
    => \E i \in Instances : inst[i] \notin {"steady", "dead"}

\* A run that returns Ok is made of its own measurements: when no two entries
\* share a file and no gadget of an earlier invocation still runs, the fragments
\* are those its gadgets wrote, one each and in plan order, whatever files an
\* earlier run left in the work directory (plan_gadgets, spawn, wait).
CollectedIsOwn ==
    pc = "returned" /\ outcome = "ok" /\ ~sharing /\ leftover = "none" =>
        fragments = [g \in Gadgets |-> g]

\* The run always ends, even when the owner hangs or dies mid-command.
RunReturns == <>(pc = "returned")

-----------------------------------------------------------------------------
(* What makes the invariants above inductive. *)

BringUp == {"provision", "start", "steady"}
Attribution == {"attribute", "registering", "stating"}
Window == {"spawn", "work", "wait", "stop", "spans"}
WindDown == {"deregister", "deregistering", "teardown", "returned"}

\* Where the loops are, and that nothing fails before the run returns or winds
\* down.
DriverInv ==
    /\ pc \in BringUp \cup Attribution => k \in Instances
    /\ pc \in {"spawn", "wait"} => k \in Gadgets
    /\ pc \in {"deregister", "deregistering"} => k \in DOMAIN attributed
    /\ pc \in BringUp \cup Attribution \cup Window => outcome = "ok"

\* Bring-up takes the instances in order, each with its tap.
InstanceInv ==
    \A i \in Instances :
        /\ pc = "provision" => inst[i] = IF i < k THEN "provisioned" ELSE "absent"
        /\ pc = "start" => inst[i] = IF i < k THEN "started" ELSE "provisioned"
        /\ pc = "steady" /\ i >= k => inst[i] = "started"
        /\ pc = "returned" /\ outcome = "ok" => inst[i] = "torndown"

TapInv ==
    target = "tap" /\ pc /= "returned" =>
        taps = IF pc = "provision" THEN 1 .. k - 1 ELSE Instances

\* The gadgets are waited for in order, and what one wrote is its own.
GadgetInv ==
    LET complete == pc \in {"stop", "spans"} \/ (pc \in WindDown /\ outcome = "ok")
    IN /\ pc = "wait" => Len(fragments) = k - 1 /\ \A g \in 1 .. k - 1 : gadget[g] = "collected"
       /\ pc \in BringUp \cup Attribution \cup {"spawn", "work"} => fragments = <<>>
       /\ complete => Len(fragments) = NumGadgets /\ \A g \in Gadgets : gadget[g] = "collected"
       /\ ~sharing /\ leftover = "none" =>
             /\ \A g \in Gadgets : gadget[g] \in {"ok", "collected"} => file[g] = g
             /\ \A n \in DOMAIN fragments : fragments[n] = n
       /\ \A h \in labels : h < next

\* How many handles the run has taken: instance i is registered under i - 1.
HandleInv ==
    LET n == Len(attributed)
        all == IF attrib THEN width ELSE 0
    IN /\ next > 0 => attrib /\ target = "tap"
       /\ n <= next /\ next <= width
       /\ \A j \in 1 .. n : attributed[j] = j - 1 /\ j - 1 \in DOMAIN table
       /\ pc \in BringUp => next = 0
       /\ pc = "attribute" => attrib /\ n = k - 1 /\ next = k - 1
       /\ pc = "registering" => attrib /\ target = "tap" /\ n = k - 1 /\ next = k
       /\ pc = "stating" => n = k /\ next = k
       /\ pc \in Window \/ (pc \in WindDown /\ outcome = "ok") => n = all /\ next = all

\* The command the driver waits for is the one of its step, and the session is
\* healthy until a command fails.
CallInv ==
    /\ pc = "registering" =>
          /\ call \in {NA!NoCall, NA!AddCmd(k, k - 1)}
          /\ call = NA!NoCall /\ result = "ok" => k - 1 \in DOMAIN table
    /\ pc = "stating" => call \in {NA!NoCall, NA!StateCmd(k - 1, "RUNNING")}
    /\ pc = "deregistering" => call \in {NA!NoCall, NA!RemoveCmd(k - 1)}
    /\ pc \notin {"registering", "stating", "deregistering"} => call = NA!NoCall
    /\ pc \in BringUp \cup {"attribute"} \cup Window => ~poisoned
    /\ pc \in {"registering", "stating"} /\ poisoned => result = "err"
    /\ call /= NA!NoCall /\ owner = "serving" => reqs /= <<>> \/ replies /= <<>>

\* What the owner was told so far, and what may still reach it.
EntryInv ==
    /\ \A p \in applied : p[2] = p[1] + 1
    /\ \A i \in DOMAIN vmap : vmap[i].lifecycle_state = "RUNNING"
    /\ reqs /= <<>> =>
          /\ Head(reqs).op = "add" => Head(reqs).ifindex = Head(reqs).handle + 1
          /\ Head(reqs).op = "state" => Head(reqs).state = "RUNNING"

Acknowledged ==
    IF call = NA!NoCall THEN result = "ok" ELSE replies /= <<>> /\ Head(replies).ok

\* The entries of a healthy owner follow the driver, command by command.
MapInv ==
    ~poisoned /\ owner = "serving" =>
        DOMAIN vmap =
            IF pc = "attribute" THEN 1 .. k - 1
            ELSE IF pc = "registering" THEN 1 .. IF Acknowledged THEN k ELSE k - 1
            ELSE IF pc = "stating" \/ pc \in Window THEN 1 .. Len(attributed)
            ELSE IF pc = "deregister" THEN k .. Len(attributed)
            ELSE IF pc = "deregistering"
                 THEN (IF reqs = <<>> THEN k + 1 ELSE k) .. Len(attributed)
            ELSE {}

IInv == /\ TypeOK /\ NA!IInv /\ DriverInv /\ InstanceInv /\ TapInv /\ GadgetInv
        /\ TornDownOnceSteady /\ HandleInv /\ CallInv /\ EntryInv /\ MapInv
-----------------------------------------------------------------------------
(* Statements of the repository that the code does not live up to. *)

\* adapter.rs, execute_run: "Teardown is attempted even when a step fails."
TeardownAttempted == pc = "returned" => torn

\* capture.rs, GadgetRunner::kill: "used to clean up already running gadgets
\* when a later spawn fails".
NoGadgetLeftRunning ==
    pc = "returned" => \A g \in Gadgets : gadget[g] /= "running"

\* capture.rs, capture: "a missing series means the assembled run cannot be
\* trusted, so it is better to refuse than to grade a hole".
NoHoleGraded ==
    pc = "returned" /\ outcome = "ok" => \A g \in Gadgets : \E i \in DOMAIN fragments : fragments[i] = g

\* adapter.rs, deregister_all: an entry is removed before its tap goes away,
\* because "a leaked entry keyed on a recyclable ifindex is worse than a
\* dropped error message".
EntryNeverOutlivesTap == owner = "serving" => DOMAIN vmap \subseteq taps
=============================================================================
