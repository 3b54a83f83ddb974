----------------------------- MODULE VmmTarget -----------------------------
(***************************************************************************)
(* The native targets of crates/orchestrate/src/native.rs over consecutive *)
(* repeats of a cell.  Each repeat builds a new target, but the repeats     *)
(* share the control-socket path, its pid file and lock, and the tap name, *)
(* while the processes of an earlier repeat may still be winding down.     *)
(*                                                                         *)
(* A step is one shell command or API request of the Target trait's        *)
(* methods; every one may fail, and then execute_run returns the error     *)
(* and the command exits.  Request bodies, versions and timings are left   *)
(* out.                                                                    *)
(***************************************************************************)
EXTENDS Naturals, Sequences

CONSTANT MaxRuns    \* bound: repeats

ASSUME VmmAssumption == MaxRuns \in Nat \ {0}

Kinds == {"firecracker", "qemu", "cloud-hypervisor", "unikernel"}
Runs  == 1 .. MaxRuns
Roles == {"vmm", "uffd", "stream"}

VARIABLES
    kind,      \* the adapter
    conf,      \* the config keys that select a path
    run,       \* the current repeat
    pc,        \* the step about to be taken
    \* the host
    proc,      \* <<role, run>> -> one of ProcStates
    pidfile,   \* role -> the run whose process it names, 0 when absent
    lock,      \* the run that created <api-socket>.lock, 0 when absent
    mounted,   \* runs whose stream mount is attached
    tap,       \* [ix, holder]: the device's ifindex, and the run that opened it
    lastIx,    \* the latest ifindex the kernel gave out
    \* the target object
    guest,     \* "off", "running", "paused"
    pinning,   \* a pinning layout was recorded
    tap_ifindex,
    spans

hostVars   == <<proc, pidfile, lock, mounted, tap, lastIx>>
targetVars == <<guest, pinning, tap_ifindex, spans>>
vars == <<kind, conf, run, pc, hostVars, targetVars>>

\* "signalled" has been sent SIGTERM and winds down in its own time; "killed" has
\* been sent SIGKILL and runs no code of its own any more, but is not gone yet.
ProcStates == {"none", "alive", "signalled", "killed", "dead"}

NoTap == [ix |-> 0, holder |-> 0]
Executes(role, r) == r \in Runs /\ proc[<<role, r>>] \in {"alive", "signalled"}
Lives(role, r) == r \in Runs /\ proc[<<role, r>>] \in {"alive", "signalled", "killed"}

Configs == [restore : BOOLEAN, stream : BOOLEAN, uffd : BOOLEAN,
            tap : BOOLEAN, pin : BOOLEAN, snapshot : BOOLEAN]

\* Keys an adapter does not read are FALSE.
Reads(k, c) ==
    /\ k /= "firecracker" => ~(c.restore \/ c.tap \/ c.snapshot)
    /\ c.stream \/ c.uffd => c.restore

Init ==
    /\ kind \in Kinds
    /\ conf \in {c \in Configs : Reads(kind, c)}
    /\ run = 1
    /\ pc = "launch"
    /\ proc = [p \in Roles \X Runs |-> "none"]
    /\ pidfile = [role \in Roles |-> 0]
    /\ lock = 0
    /\ mounted = {}
    /\ tap = NoTap
    /\ lastIx = 0
    /\ guest = "off"
    /\ pinning = FALSE
    /\ tap_ifindex = 0
    /\ spans = <<>>
-----------------------------------------------------------------------------
Goto(p) == pc' = p

\* A background process is started and its pid recorded in the role's file.
Background(role) ==
    /\ proc' = [proc EXCEPT ![<<role, run>>] = "alive"]
    /\ pidfile' = [pidfile EXCEPT ![role] = run]

\* An earlier cloud-hypervisor that still holds the lock file it created.
LockHeld == lock /= 0 /\ Lives("vmm", lock)

(* provision *)

\* launch_cmd: drop a stale socket and pid file, start the VMM in a fresh
\* directory, wait for its socket.  All but firecracker boot the guest here.
Launch ==
    /\ pc = "launch"
    /\ ~LockHeld
    /\ Background("vmm")
    /\ lock' = IF kind = "cloud-hypervisor" THEN run ELSE lock
    /\ IF kind = "firecracker"
       THEN /\ Goto(IF conf.stream THEN "mount"
                    ELSE IF conf.restore THEN "load" ELSE "configure")
            /\ UNCHANGED <<guest, spans>>
       ELSE /\ guest' = "running"
            /\ spans' = Append(spans, "boot.vmm_ready")
            /\ Goto("steady")
    /\ UNCHANGED <<kind, conf, run, mounted, tap, lastIx, pinning, tap_ifindex>>

\* The socket does not appear in time: the VMM died at once or is still there.
LaunchFails ==
    /\ pc = "launch"
    /\ pidfile' = [pidfile EXCEPT !["vmm"] = run]
    /\ \E s \in {"alive", "dead"} : proc' = [proc EXCEPT ![<<"vmm", run>>] = s]
    /\ Goto("aborted")
    /\ UNCHANGED <<kind, conf, run, lock, mounted, tap, lastIx, targetVars>>

\* launch_stream_cmd, pre_restore and stream_prefetch_cmd.
MountStream ==
    /\ pc = "mount"
    /\ Background("stream")
    /\ mounted' = mounted \cup {run}
    /\ Goto("load")
    /\ UNCHANGED <<kind, conf, run, lock, tap, lastIx, targetVars>>

\* launch_uffd_cmd, then PUT /snapshot/load with resume_vm.
Load ==
    /\ pc = "load"
    /\ Lives("vmm", run)
    /\ IF conf.uffd THEN Background("uffd") ELSE UNCHANGED <<proc, pidfile>>
    /\ guest' = "running"
    /\ spans' = Append(spans, "restore.resume_to_steady")
    /\ Goto("start")
    /\ UNCHANGED <<kind, conf, run, lock, mounted, tap, lastIx, pinning, tap_ifindex>>

\* PUT /machine-config, /boot-source and /drives/rootfs.
Configure ==
    /\ pc = "configure"
    /\ Lives("vmm", run)
    /\ Goto(IF conf.tap THEN "tap" ELSE "start")
    /\ UNCHANGED <<kind, conf, run, hostVars, targetVars>>

\* Mutant: a tap that is already there is taken over as it is.
CreateTapStale ==
    /\ pc = "tap"
    /\ Lives("vmm", run)
    /\ IF tap = NoTap
       THEN lastIx' = lastIx + 1 /\ tap' = [ix |-> lastIx + 1, holder |-> run]
       ELSE UNCHANGED <<lastIx, tap>>
    /\ tap_ifindex' = tap'.ix
    /\ Goto("start")
    /\ UNCHANGED <<kind, conf, run, proc, pidfile, lock, mounted, guest, pinning, spans>>

\* Delete a stale tap, add a new one, read its ifindex, hand it to the VMM.  A
\* tap some process still has open can be neither deleted nor added again.
CreateTap ==
    /\ pc = "tap"
    /\ Lives("vmm", run)
    /\ ~Lives("vmm", tap.holder)
    /\ lastIx' = lastIx + 1
    /\ tap' = [ix |-> lastIx + 1, holder |-> run]
    /\ tap_ifindex' = lastIx + 1
    /\ Goto("start")
    /\ UNCHANGED <<kind, conf, run, proc, pidfile, lock, mounted, guest, pinning, spans>>

(* start and reach_steady *)

\* InstanceStart; a restored guest is running already.
Start ==
    /\ pc = "start"
    /\ IF conf.restore
       THEN UNCHANGED <<guest, spans>>
       ELSE /\ Lives("vmm", run)
            /\ guest' = "running"
            /\ spans' = Append(spans, "boot.vmm_ready")
    /\ Goto("steady")
    /\ UNCHANGED <<kind, conf, run, hostVars, pinning, tap_ifindex>>

\* The readiness probe, then pin_cmd.  Only firecracker can pin, and an empty
\* layout is an error.
ReachSteady ==
    /\ pc = "steady"
    /\ conf.pin => kind = "firecracker" /\ Lives("vmm", run)
    /\ pinning' = conf.pin
    /\ Goto(IF conf.snapshot THEN "pause" ELSE "window")
    /\ UNCHANGED <<kind, conf, run, hostVars, guest, tap_ifindex, spans>>

Pause ==
    /\ pc = "pause"
    /\ Lives("vmm", run)
    /\ guest' = "paused"
    /\ Goto("snapshot")
    /\ UNCHANGED <<kind, conf, run, hostVars, pinning, tap_ifindex, spans>>

\* Mutant: the guest is left paused.
SnapshotOnly ==
    /\ pc = "snapshot"
    /\ Lives("vmm", run)
    /\ spans' = Append(spans, "snapshot.create")
    /\ Goto("window")
    /\ UNCHANGED <<kind, conf, run, hostVars, guest, pinning, tap_ifindex>>

CreateSnapshot ==
    /\ pc = "snapshot"
    /\ Lives("vmm", run)
    /\ spans' = Append(spans, "snapshot.create")
    /\ Goto("resume")
    /\ UNCHANGED <<kind, conf, run, hostVars, guest, pinning, tap_ifindex>>

Resume ==
    /\ pc = "resume"
    /\ Lives("vmm", run)
    /\ guest' = "running"
    /\ Goto("window")
    /\ UNCHANGED <<kind, conf, run, hostVars, pinning, tap_ifindex, spans>>

\* Any step of bring-up fails: the error is returned with nothing undone, except
\* that a mount that does not appear is killed and detached on the spot.
BringUpFails ==
    /\ pc \in {"mount", "load", "configure", "tap", "start", "steady",
               "pause", "snapshot", "resume"}
    /\ \/ UNCHANGED hostVars
       \/ /\ pc = "mount"
          /\ pidfile' = [pidfile EXCEPT !["stream"] = run]
          /\ \/ /\ proc' = [proc EXCEPT ![<<"stream", run>>] = "signalled"]
                /\ UNCHANGED mounted
             \/ /\ proc' = [proc EXCEPT ![<<"stream", run>>] = "alive"]
                /\ mounted' = mounted \cup {run}
          /\ UNCHANGED <<lock, tap, lastIx>>
       \/ /\ pc = "load" /\ conf.uffd
          /\ Background("uffd")
          /\ UNCHANGED <<lock, mounted, tap, lastIx>>
       \/ /\ pc = "tap" /\ ~Lives("vmm", tap.holder)
          /\ lastIx' = lastIx + 1
          /\ tap' = [ix |-> lastIx + 1, holder |-> 0]
          /\ UNCHANGED <<proc, pidfile, lock, mounted>>
    /\ Goto("aborted")
    /\ UNCHANGED <<kind, conf, run, targetVars>>

(* teardown *)

Signal(p, role) ==
    IF pidfile[role] = 0 \/ p[<<role, pidfile[role]>>] /= "alive" THEN p
    ELSE [p EXCEPT ![<<role, pidfile[role]>>] = "signalled"]

\* kill of the recorded VMM and uffd handler.
KillVmm ==
    /\ pc = "window"
    /\ proc' = Signal(Signal(proc, "vmm"), "uffd")
    /\ Goto("cleanup")
    /\ UNCHANGED <<kind, conf, run, pidfile, lock, mounted, tap, lastIx, targetVars>>

\* Mutant: no wait and no SIGKILL.
NoWait == proc

\* qemu and unikernel do not wait for the exit; firecracker waits for a while;
\* cloud-hypervisor waits, and one that has not exited by then (an exit in time is
\* Ends) is sent SIGKILL, for which nothing waits.
AfterWait ==
    IF kind = "cloud-hypervisor" /\ Lives("vmm", pidfile["vmm"])
    THEN [proc EXCEPT ![<<"vmm", pidfile["vmm"]>>] = "killed"] ELSE proc

\* Mutant: the stream daemon is forgotten.
CleanupNoStream ==
    /\ pc = "cleanup"
    /\ proc' = AfterWait
    /\ mounted' = mounted \ {run}
    /\ pidfile' = [role \in Roles |-> 0]
    /\ lock' = IF kind = "cloud-hypervisor" THEN 0 ELSE lock
    /\ tap' = IF conf.tap /\ ~Lives("vmm", tap.holder) THEN NoTap ELSE tap
    /\ Goto("torndown")
    /\ UNCHANGED <<kind, conf, run, lastIx, targetVars>>

\* Unmount, kill the stream daemon, remove socket, pid files and lock, then try
\* to delete the tap, which fails silently while the VMM has it open.
Cleanup ==
    /\ pc = "cleanup"
    /\ proc' = Signal(AfterWait, "stream")
    /\ mounted' = mounted \ {run}
    /\ pidfile' = [role \in Roles |-> 0]
    /\ lock' = IF kind = "cloud-hypervisor" THEN 0 ELSE lock
    /\ tap' = IF conf.tap /\ ~Lives("vmm", tap.holder) THEN NoTap ELSE tap
    /\ Goto("torndown")
    /\ UNCHANGED <<kind, conf, run, lastIx, targetVars>>

\* The next repeat, with a new target object.
NextRun ==
    /\ pc = "torndown"
    /\ run < MaxRuns
    /\ run' = run + 1
    /\ guest' = "off"
    /\ pinning' = FALSE
    /\ tap_ifindex' = 0
    /\ spans' = <<>>
    /\ Goto("launch")
    /\ UNCHANGED <<kind, conf, hostVars>>

\* A process ends: it answers a signal, in its own time, or it crashes.
Ends(role, r) ==
    /\ Lives(role, r)
    /\ proc' = [proc EXCEPT ![<<role, r>>] = "dead"]
    /\ UNCHANGED <<kind, conf, run, pc, pidfile, lock, mounted, tap, lastIx, targetVars>>
-----------------------------------------------------------------------------
Next ==
    \/ Launch \/ LaunchFails \/ MountStream \/ Load \/ Configure \/ CreateTap
    \/ Start \/ ReachSteady \/ Pause \/ CreateSnapshot \/ Resume \/ BringUpFails
    \/ KillVmm \/ Cleanup \/ NextRun
    \/ \E role \in Roles, r \in Runs : Ends(role, r)

Spec == Init /\ [][Next]_vars
-----------------------------------------------------------------------------
Steps == {"launch", "mount", "load", "configure", "tap", "start", "steady", "pause",
          "snapshot", "resume", "window", "cleanup", "torndown", "aborted"}
SpanNames == {"boot.vmm_ready", "restore.resume_to_steady", "snapshot.create"}

\* Processes, files and the target object keep their types.
TypeOK ==
    /\ kind \in Kinds
    /\ conf \in Configs
    /\ run \in Runs
    /\ pc \in Steps
    /\ proc \in [Roles \X Runs -> ProcStates]
    /\ pidfile \in [Roles -> Runs \cup {0}]
    /\ lock \in Runs \cup {0}
    /\ mounted \subseteq Runs
    /\ tap \in [ix : Nat, holder : Runs \cup {0}]
    /\ lastIx \in Nat
    /\ guest \in {"off", "running", "paused"}
    /\ pinning \in BOOLEAN
    /\ tap_ifindex \in Nat
    /\ spans \in Seq(SpanNames)

\* Teardown reaches every process the target put in the background: once it is
\* over none is left running unsignalled and no stream mount is attached.
NothingLeftUnsignalled ==
    pc = "torndown" =>
        /\ \A role \in Roles, r \in Runs : proc[<<role, r>>] /= "alive"
        /\ mounted = {}

FirstSpan == IF conf.restore THEN "restore.resume_to_steady" ELSE "boot.vmm_ready"
ExpectedSpans ==
    IF conf.snapshot THEN <<FirstSpan, "snapshot.create">> ELSE <<FirstSpan>>

\* The capture window opens only on a guest that runs (a snapshot resumed it),
\* is pinned exactly when pinning was asked for, and has recorded each span of
\* its mode once.
WindowOpensSteady ==
    pc = "window" =>
        /\ guest = "running"
        /\ pinning = conf.pin
        /\ spans = ExpectedSpans

\* What net_attribution reports in the window is the ifindex of the device this
\* run's VMM has open, never of a tap a slow predecessor still holds; a
\* restored guest reports none.
AttributesOwnTap ==
    pc = "window" =>
        /\ tap_ifindex /= 0 <=> conf.tap /\ ~conf.restore
        /\ tap_ifindex /= 0 => tap = [ix |-> tap_ifindex, holder |-> run]

\* When a repeat launches its cloud-hypervisor, no earlier one of the cell executes
\* any more (each has exited, or was sent SIGKILL after the wait: it may not be gone,
\* but it can neither answer on the shared api socket nor unlink the new one on its
\* way out), and its lock file is gone, so that the launch cannot be refused with
\* ApiSocketInUse.
SocketHandedOver ==
    kind = "cloud-hypervisor" =>
        /\ \A r \in 1 .. run - 1 : ~Executes("vmm", r)
        /\ pc = "launch" => lock = 0
-----------------------------------------------------------------------------
(* What makes the four properties above inductive. *)

\* A pid file names every process that runs unsignalled: teardown has signalled
\* those of earlier repeats, and the later ones are still to come.
ProcInv ==
    /\ \A role \in Roles, r \in Runs :
          proc[<<role, r>>] = "alive" => r = run /\ pidfile[role] = run
    /\ mounted \subseteq {run}
    /\ pc \in {"cleanup", "torndown"} => \A r \in Runs : /\ proc[<<"vmm", r>>] /= "alive"
                                                        /\ proc[<<"uffd", r>>] /= "alive"

\* How far bring-up has come says what the guest does and what was recorded.
BringUpInv ==
    /\ Reads(kind, conf)
    /\ pc \in {"mount", "load"} => conf.restore
    /\ pc \in {"configure", "tap"} => ~conf.restore
    /\ pc = "tap" => conf.tap
    /\ pc \in {"pause", "snapshot", "resume"} => conf.snapshot
    /\ pc \in {"launch", "mount", "load", "configure", "tap"} => spans = <<>>
    /\ pc = "start" => IF conf.restore THEN guest = "running" /\ spans = <<FirstSpan>>
                       ELSE spans = <<>>
    /\ pc \in {"steady", "pause", "snapshot"} => spans = <<FirstSpan>>
    /\ pc = "resume" => spans = ExpectedSpans
    /\ pc \in {"steady", "pause"} => guest = "running"
    /\ pc \in {"pause", "snapshot", "resume"} => pinning = conf.pin

\* The recorded ifindex is that of a tap created in this repeat and not touched since.
TapInv ==
    /\ pc \in {"launch", "mount", "load", "configure", "tap"} => tap_ifindex = 0
    /\ pc \in {"start", "steady", "pause", "snapshot", "resume", "window"} =>
          /\ tap_ifindex /= 0 <=> conf.tap /\ ~conf.restore
          /\ tap_ifindex /= 0 => tap = [ix |-> tap_ifindex, holder |-> run]

\* A cloud-hypervisor that executes is the current repeat's and the pid file names it.
LockInv ==
    kind = "cloud-hypervisor" =>
        /\ \A r \in Runs : Executes("vmm", r) => r >= run
        /\ pc \in {"launch", "torndown"} => lock = 0
        /\ pc = "torndown" => ~Executes("vmm", run)
        /\ pc \notin {"launch", "torndown"} /\ Executes("vmm", run) => pidfile["vmm"] = run

IInv == /\ TypeOK /\ ProcInv /\ BringUpInv /\ TapInv /\ LockInv
        /\ NothingLeftUnsignalled /\ WindowOpensSteady
-----------------------------------------------------------------------------
(* Statements of the repository that the code does not live up to. *)

\* native.rs:883-884, "we must wait for it to actually die before the next run reuses
\* the socket": the wait gives up after 250 polls, and its last resort, SIGKILL, is
\* not waited for.  SocketHandedOver is the part that holds.
PredecessorIsDead ==
    kind = "cloud-hypervisor" /\ pc = "launch" =>
        \A r \in 1 .. run - 1 : ~Lives("vmm", r)
=============================================================================
